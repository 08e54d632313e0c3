------------------------------- MODULE Derived --------------------------------
(***************************************************************************)
(* What a sync run derives from the products table: one embedding for each *)
(* product (Phase D, sync/phases/embed.py and embed/client.py) and the     *)
(* full-text index (Phases E and F, index.py and finalize.py), run after   *)
(* run.                                                                    *)
(*                                                                         *)
(* Phases A to C are only what they do to the texts: which products        *)
(* change, and which list they hand to Phase D.  An embedding is the hash  *)
(* of the text it was made from; a text is what the product says and the   *)
(* template that renders it.  Every statement of Phase D commits by itself.*)
(* What tasks of Phase C do that their run has left behind is in Details.  *)
(***************************************************************************)
EXTENDS Integers, FiniteSets

CONSTANTS
  Products,
  Texts,      \* what a product may say
  Silent,     \* a product no template renders
  Off,        \* no row, no embedding
  NTemplates, \* bound: versions of the templates
  Attempts,   \* EmbeddingClient.retry_attempts
  BatchSize,  \* embed_client_batch_size
  Parallel    \* embed_client_parallel

ASSUME TextsAssumption ==
  /\ Off \notin Texts /\ Silent \notin Texts /\ Off # Silent
  /\ Off \notin Texts \X Nat
\* The rows of a database.
ASSUME ProductsAssumption == IsFiniteSet(Products)
ASSUME BoundsAssumption == {NTemplates, Attempts, BatchSize, Parallel} \subseteq Nat \ {0}

VARIABLES
  text,     \* what each row of products says, Off without a row
  gone,     \* rows with is_discontinued
  detailed, \* rows with last_detail_fetched_at
  template, \* the templates of the installed version
  emb,      \* product_embeddings: the hash of each row's text, Off without a row
  index,    \* the full-text index: its columns, and the rows written since it was built
  pc,       \* where the run is
  full,     \* --full-refresh
  list,     \* the products handed to Phases C and D
  touched,  \* whether Phase B or C wrote to products
  todo,     \* to_embed: products not sent yet
  flight,   \* batches of the current round
  ready,    \* products with a vector that is not stored yet
  lost,     \* history: products whose batch has failed in this run
  owed      \* history: stale embeddings with a failure to account for them

world == <<text, gone, detailed, template>>
run   == <<pc, full, list, touched, todo, flight, ready, lost>>
vars  == <<world, emb, index, run, owed>>

Hashes  == Texts \X (1 .. NTemplates)
Nothing == [p \in Products |-> Off]
NoIndex == [cols |-> 0, behind |-> Products]

\* A batch in flight: its products, the requests sent, how it ended.
Batches == [of : SUBSET Products, tries : 0 .. Attempts - 1,
            got : {"nothing", "vectors", "failed"}]

TypeOK ==
  /\ text \in [Products -> Texts \cup {Silent, Off}]
  /\ gone \in SUBSET Products
  /\ detailed \in SUBSET Products
  /\ template \in 1 .. NTemplates
  /\ emb \in [Products -> Hashes \cup {Off}]
  /\ index \in [cols : {0, 3, 8}, behind : SUBSET Products]
  /\ pc \in {"idle", "persist", "details", "embed", "batches", "index", "final"}
  /\ full \in BOOLEAN
  /\ list \in SUBSET Products
  /\ touched \in BOOLEAN
  /\ todo \in SUBSET Products
  /\ flight \in SUBSET Batches /\ Cardinality(flight) <= Parallel
  /\ \A b \in flight : Cardinality(b.of) \in 1 .. BatchSize
  /\ ready \in SUBSET Products
  /\ lost \in SUBSET Products
  /\ owed \in SUBSET Products

Init ==
  /\ text = Nothing
  /\ gone = {}
  /\ detailed = {}
  /\ template = 1
  /\ emb = Nothing
  /\ index = NoIndex
  /\ pc = "idle"
  /\ full = FALSE
  /\ list = {}
  /\ touched = FALSE
  /\ todo = {}
  /\ flight = {}
  /\ ready = {}
  /\ lost = {}
  /\ owed = {}

OnSale == {p \in Products : text[p] # Off /\ p \notin gone}

\* render and source_hash.
Hash(p) == IF text[p] \in Texts THEN <<text[p], template>> ELSE Off

Stale == {p \in OnSale : Hash(p) # Off /\ emb[p] # Hash(p)}

\* What becomes of the run's local variables when Phase D is over, well or badly.
Drop(next) ==
  /\ pc' = next
  /\ list' = {}
  /\ todo' = {}
  /\ flight' = {}
  /\ ready' = {}
  /\ lost' = {}

-------------------------------------------------------------------------------
(* Phases A to C *)

Start ==
  /\ pc = "idle"
  /\ full' \in BOOLEAN
  /\ pc' = "persist"
  /\ touched' = FALSE
  /\ UNCHANGED <<world, emb, index, list, todo, flight, ready, lost, owed>>

\* Phase B: products are added or changed, and on sale again, or dropped.
Persist ==
  /\ pc = "persist"
  /\ \E changed \in SUBSET Products : \E dropped \in SUBSET (OnSale \ changed) :
       /\ text' \in {t \in [Products -> Texts \cup {Silent, Off}] :
                       /\ \A p \in changed : t[p] # Off
                       /\ \A p \in Products \ changed : t[p] = text[p]}
       /\ gone' = (gone \ changed) \cup dropped
       /\ list' = changed
       /\ touched' = (changed \cup dropped # {})
       /\ index' = [index EXCEPT !.behind = @ \cup changed \cup dropped]
  /\ pc' = "details"
  /\ UNCHANGED <<detailed, template, emb, full, todo, flight, ready, lost, owed>>

\* _changed_product_numbers: what Phase B has changed and, of the rows that never had
\* details, those that show no text (Catalog); or everything on sale.
Lists ==
  IF full THEN {OnSale} ELSE {list \cup heal : heal \in SUBSET (OnSale \ detailed)}

\* Phase C: some of the details arrive, and may change what the product says.  A row
\* whose variants fail is updated, too, but is not counted.
Details ==
  /\ pc = "details"
  /\ list' \in Lists
  /\ \E updated \in SUBSET list' :
       /\ text' \in {t \in [Products -> Texts \cup {Silent, Off}] :
                       /\ \A p \in updated : t[p] # Off
                       /\ \A p \in Products \ updated : t[p] = text[p]}
       /\ gone' = gone \ updated
       /\ detailed' = detailed \cup updated
       /\ index' = [index EXCEPT !.behind = @ \cup updated]
       /\ \E counted \in SUBSET updated : touched' = (touched \/ counted # {})
  /\ pc' = "embed"
  /\ UNCHANGED <<template, emb, full, todo, flight, ready, lost, owed>>

-------------------------------------------------------------------------------
(* Phase D *)

\* ready() says no: the phase is skipped, whatever it was to embed.
NotReady ==
  /\ pc = "embed"
  /\ Drop("index")
  /\ owed' = owed \cup Stale
  /\ UNCHANGED <<world, emb, index, full, touched>>

\* Mutant: an empty list means that there is nothing to do.
CandidatesListed == IF full THEN OnSale ELSE list

\* The list; or, of all things when it is empty, everything on sale.
Candidates == IF full \/ list = {} THEN OnSale ELSE list

\* Mutant: a product that has an embedding keeps it.
ToEmbedNew == {p \in Candidates : Hash(p) # Off /\ (full \/ emb[p] = Off)}

\* Candidates that can be rendered and whose hash is not the one stored.
ToEmbed == {p \in Candidates : Hash(p) # Off /\ (full \/ emb[p] # Hash(p))}

Collect ==
  /\ pc = "embed"
  /\ IF ToEmbed = {}
     THEN Drop("index")
     ELSE /\ pc' = "batches"
          /\ todo' = ToEmbed
          /\ UNCHANGED <<list, flight, ready, lost>>
  /\ UNCHANGED <<world, emb, index, full, touched, owed>>

\* A round: up to Parallel batches, sent at once.
Rounds ==
  {r \in SUBSET (SUBSET todo) :
     /\ Cardinality(r) \in 1 .. Parallel
     /\ \A b \in r : Cardinality(b) \in 1 .. BatchSize
     /\ \A b, c \in r : b = c \/ b \cap c = {}}

NextRound ==
  /\ pc = "batches"
  /\ flight = {} /\ ready = {}
  /\ \E r \in Rounds :
       /\ flight' = {[of |-> b, tries |-> 0, got |-> "nothing"] : b \in r}
       /\ todo' = todo \ UNION r
  /\ UNCHANGED <<world, emb, index, pc, full, list, touched, ready, lost, owed>>

Becomes(b, new) ==
  /\ flight' = (flight \ {b}) \cup {new}
  /\ UNCHANGED <<world, emb, index, pc, full, list, touched, todo, ready, lost, owed>>

Answered(b) ==
  /\ b.got = "nothing"
  /\ Becomes(b, [b EXCEPT !.got = "vectors"])

\* Mutant: no attempt is the last one.
RetriedForever(b) ==
  /\ b.got = "nothing"
  /\ Becomes(b, [b EXCEPT !.tries = @ + 1])

\* 5xx, an answer of the wrong length or a network error: once more.
Retried(b) ==
  /\ b.got = "nothing"
  /\ b.tries + 1 < Attempts
  /\ Becomes(b, [b EXCEPT !.tries = @ + 1])

\* The last attempt ends with an EmbeddingError: the batch fails, the others go on.
Exhausted(b) ==
  /\ b.got = "nothing"
  /\ b.tries + 1 = Attempts
  /\ Becomes(b, [b EXCEPT !.got = "failed"])

\* A request refused (4xx), or a network error at the last attempt, is no
\* EmbeddingError: it leaves gather, the phase and the run.
Escapes(b) ==
  /\ b.got = "nothing"
  /\ Drop("final")
  /\ owed' = owed \cup Stale
  /\ UNCHANGED <<world, emb, index, full, touched>>

Got(what) == UNION {b.of : b \in {c \in flight : c.got = what}}

\* gather returns when every batch has ended.
Gathered ==
  /\ flight # {}
  /\ \A b \in flight : b.got # "nothing"
  /\ ready' = Got("vectors")
  /\ lost' = lost \cup Got("failed")
  /\ owed' = owed \cup (Stale \cap Got("failed"))
  /\ flight' = {}
  /\ UNCHANGED <<world, emb, index, pc, full, list, touched, todo>>

\* One vector is stored, with the hash of the text it was made from; no one else
\* writes to products while the run has the lock.
Store(p) ==
  /\ p \in ready
  /\ emb' = [emb EXCEPT ![p] = Hash(p)]
  /\ ready' = ready \ {p}
  /\ owed' = owed \ {p}
  /\ UNCHANGED <<world, index, pc, full, list, touched, todo, flight, lost>>

\* A batch of vectors has the wrong size: CatastrophicError, after others are stored.
WrongSize ==
  /\ ready # {}
  /\ Drop("final")
  /\ owed' = owed \cup Stale
  /\ UNCHANGED <<world, emb, index, full, touched>>

Embedded ==
  /\ pc = "batches"
  /\ todo = {} /\ flight = {} /\ ready = {}
  /\ Drop("index")
  /\ UNCHANGED <<world, emb, index, full, touched, owed>>

-------------------------------------------------------------------------------
(* Phases E and F: the full-text index *)

\* Phase E is for runs that wrote to products; eight columns, two attempts.
BuildIndex ==
  /\ pc = "index"
  /\ index' = IF touched THEN [cols |-> 8, behind |-> {}] ELSE index
  /\ pc' = "final"
  /\ UNCHANGED <<world, emb, full, list, touched, todo, flight, ready, lost, owed>>

\* Both attempts fail.  The old index may be dropped already.
BuildFails ==
  /\ pc = "index"
  /\ touched
  /\ index' \in {index, NoIndex}
  /\ pc' = "final"
  /\ UNCHANGED <<world, emb, full, list, touched, todo, flight, ready, lost, owed>>

\* Phase F closes the row and builds the index over: three columns.
Rebuild ==
  /\ pc = "final"
  /\ index' = [cols |-> 3, behind |-> {}]
  /\ pc' = "idle"
  /\ full' = FALSE
  /\ touched' = FALSE
  /\ UNCHANGED <<world, emb, list, todo, flight, ready, lost, owed>>

\* Phase F does not get to the index, or its statement fails and is only logged.
RebuildFails ==
  /\ pc = "final"
  /\ index' \in {index, NoIndex}
  /\ pc' = "idle"
  /\ full' = FALSE
  /\ touched' = FALSE
  /\ UNCHANGED <<world, emb, list, todo, flight, ready, lost, owed>>

-------------------------------------------------------------------------------
(* The run is cut short; a new version is installed *)

\* A phase ends with an exception, or is cancelled; Phase F still runs.
Aborts ==
  /\ pc \in {"persist", "details", "embed", "batches", "index"}
  /\ Drop("final")
  /\ owed' = owed \cup Stale
  /\ UNCHANGED <<world, emb, index, full, touched>>

Crash ==
  /\ pc # "idle"
  /\ Drop("idle")
  /\ full' = FALSE
  /\ touched' = FALSE
  /\ owed' = owed \cup Stale
  /\ UNCHANGED <<world, emb, index>>

\* A template is changed; the next process renders with it.
Deploy ==
  /\ pc = "idle"
  /\ template < NTemplates
  /\ template' = template + 1
  /\ owed' = owed \cup {p \in OnSale : Hash(p) # Off}
  /\ UNCHANGED <<text, gone, detailed, emb, index, run>>

BatchStep(b) == Answered(b) \/ Retried(b) \/ Exhausted(b) \/ Escapes(b)

RunStep ==
  \/ Persist \/ Details \/ NotReady \/ Collect \/ NextRound
  \/ \E b \in flight : BatchStep(b)
  \/ Gathered \/ (\E p \in Products : Store(p)) \/ WrongSize \/ Embedded
  \/ BuildIndex \/ BuildFails \/ Rebuild \/ RebuildFails \/ Aborts

Next == Start \/ RunStep \/ Crash \/ Deploy

Spec == Init /\ [][Next]_vars

-------------------------------------------------------------------------------
(* Properties *)

\* Between runs, an embedding lags behind its product only where something has
\* failed since: the server was away, a batch was lost, a run was cut short, a
\* template was changed.  No change slips through the choice of candidates.
StaleIsOwed == pc = "idle" => Stale \subseteq owed

\* A run that has everything on sale for candidates, a full refresh or a night
\* without changes, repairs every stale embedding but those of batches that fail
\* in it, whatever was lost on earlier nights.
RepairRunRepairs ==
  [][(Collect \/ Embedded) /\ pc' = "index" /\ (full \/ list = {})
       => Stale \subseteq lost]_vars
===============================================================================
