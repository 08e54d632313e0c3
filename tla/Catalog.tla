------------------------------- MODULE Catalog --------------------------------
(***************************************************************************)
(* What one sync run after another makes of the catalogue: the pages that  *)
(* Phase A archives, the products table, product_history and the queue of  *)
(* missing details (sync/phases/fetch.py, persist.py and details.py, and   *)
(* the selection between them in sync/orchestrator.py).                    *)
(*                                                                         *)
(* A product has one tracked value; the flag is_discontinued, tracked too, *)
(* is FALSE in every payload.  One catalogue partition stands for all.     *)
(* Runs do not overlap (SyncLock.tla) and may stop anywhere, killed or     *)
(* aborted: Phase B is one transaction, Phase A writes page by page and    *)
(* Phase C product by product.                                             *)
(***************************************************************************)
EXTENDS Integers

CONSTANTS
  Products,
  Gifts,     \* products of the category Presentartiklar
  Values,    \* tracked values of a product
  Off,       \* not listed
  NPages     \* bound: pages of the partition; the code's PAGE_CAP is above it

ASSUME GiftsAssumption  == Gifts \subseteq Products
ASSUME OffAssumption    == Off \notin Values
ASSUME NPagesAssumption == NPages \in Nat \ {0}

VARIABLES
  world,    \* what the API would list now: pages of products
  archive,  \* today's directory of the raw archive
  phase,    \* where the run is
  page,     \* the page Phase A asks for next, 1 when it does not ask
  clean,    \* no error in Phase A so far, TRUE when it does not matter
  todo,     \* products for Phase C
  db,       \* products, with what product_history makes of them
  texted,   \* rows without details to which a list payload gave a taste, aroma or producer text
  moved,    \* history: the catalogue has changed since today's directory began
  blurred   \* history: products with a change that product_history has lost

catVars == <<world, archive, phase, page, clean, todo, db, texted, moved, blurred>>

Pages    == 1 .. NPages
Listings == [Products -> Values \cup {Off}]
Blank    == [p \in Products |-> Off]
NoPages  == [k \in Pages |-> Blank]

\* The value a set of pages gives a product; a later page overrides.
Worth(pages, p) ==
  LET on == {k \in Pages : pages[k][p] # Off}
  IN  IF on = {} THEN Off
      ELSE pages[CHOOSE k \in on : \A j \in on : j <= k][p]

\* The API lists a product once, and leaves no page empty before the last.
Catalogs ==
  {w \in [Pages -> Listings] :
     /\ \A p \in Products : \A j, k \in Pages : w[j][p] # Off /\ w[k][p] # Off => j = k
     /\ \A k \in Pages \ {1} : w[k] # Blank => w[k - 1] # Blank}

\* A row: the tracked value and the flag, the field_hash (that of the value it was
\* taken from), whether last_detail_fetched_at is set, and what one gets from the
\* row as first inserted by applying its history.
Rows == [here    : {TRUE},
         val     : Values,
         hash    : Values,
         gone    : BOOLEAN,
         stamped : BOOLEAN,
         told    : [val : Values, gone : BOOLEAN]]

NoRow == [here |-> FALSE, val |-> Off, hash |-> Off, gone |-> FALSE,
          stamped |-> FALSE, told |-> [val |-> Off, gone |-> FALSE]]

CatTypeOK ==
  /\ world \in [Pages -> Listings]
  /\ archive \in [Pages -> Listings]
  /\ phase \in {"idle", "fetch", "rest", "persist", "select", "details"}
  /\ page \in Pages
  /\ clean \in BOOLEAN
  /\ todo \in SUBSET Products
  /\ db \in [Products -> Rows \cup {NoRow}]
  /\ texted \in SUBSET Products
  /\ moved \in BOOLEAN
  /\ blurred \in SUBSET Products

CatInit ==
  /\ world \in Catalogs
  /\ archive = NoPages
  /\ phase = "idle"
  /\ page = 1
  /\ clean = TRUE
  /\ todo = {}
  /\ db = [p \in Products |-> NoRow]
  /\ texted = {}
  /\ moved = FALSE
  /\ blurred = {}

-------------------------------------------------------------------------------
(* Phase A *)

Start ==
  /\ phase = "idle"
  /\ phase' = "fetch"
  /\ UNCHANGED <<world, archive, page, clean, todo, db, texted, moved, blurred>>

\* A page is archived over whatever a run of the same day left under its name.
\* Its metadata says whether there is another one.
PageFetched ==
  /\ phase = "fetch"
  /\ archive' = [archive EXCEPT ![page] = world[page]]
  /\ IF page < NPages /\ world[page + 1] # Blank
     THEN page' = page + 1 /\ UNCHANGED phase
     ELSE page' = 1 /\ phase' = "rest"
  /\ UNCHANGED <<world, clean, todo, db, texted, moved, blurred>>

\* An API error ends the partition, not the phase.
PageFails ==
  /\ phase = "fetch"
  /\ clean' = FALSE
  /\ page' = 1
  /\ phase' = "rest"
  /\ UNCHANGED <<world, archive, todo, db, texted, moved, blurred>>

\* Other partitions, taxonomy and stock, without an error ...
RestFetched ==
  /\ phase = "rest"
  /\ phase' = "persist"
  /\ UNCHANGED <<world, archive, page, clean, todo, db, texted, moved, blurred>>

\* ... or with one, which makes the phase partial.
RestFails ==
  /\ phase = "rest"
  /\ clean' = FALSE
  /\ phase' = "persist"
  /\ UNCHANGED <<world, archive, page, todo, db, texted, moved, blurred>>

-------------------------------------------------------------------------------
(* Phase B *)

\* One product while the pages are read: its row, the fields that have a history
\* row of this run already, whether it was added or changed, and whether a change
\* was lost.
Unread(r) == [row |-> r, logged |-> {}, changed |-> FALSE, lost |-> FALSE]

\* INSERT OR IGNORE INTO product_history: the key is product, time and field, and
\* all of a run bears one time.  Only the first change of a field is kept.
Log(b, field, new) ==
  IF b.row[field] = new THEN b
  ELSE IF field \in b.logged THEN [b EXCEPT !.lost = TRUE]
  ELSE [b EXCEPT !.row.told[field] = new, !.logged = @ \cup {field}]

\* Mutant: the hash stays what it was when the product was added.
UpsertKeepsHash(b, v) ==
  IF ~b.row.here THEN
    [b EXCEPT !.row = [here |-> TRUE, val |-> v, hash |-> v, gone |-> FALSE,
                       stamped |-> FALSE, told |-> [val |-> v, gone |-> FALSE]],
              !.changed = TRUE]
  ELSE IF b.row.hash = v THEN b
  ELSE [Log(Log(b, "val", v), "gone", FALSE)
          EXCEPT !.row.val = v, !.row.gone = FALSE, !.changed = TRUE]

\* Mutant: a changed row is updated without a look at what changes.
UpsertUnlogged(b, v) ==
  IF ~b.row.here THEN
    [b EXCEPT !.row = [here |-> TRUE, val |-> v, hash |-> v, gone |-> FALSE,
                       stamped |-> FALSE, told |-> [val |-> v, gone |-> FALSE]],
              !.changed = TRUE]
  ELSE IF b.row.hash = v THEN b
  ELSE [b EXCEPT !.row.val = v, !.row.hash = v, !.row.gone = FALSE, !.changed = TRUE]

\* _persist_one_product: insert; or nothing but last_fetched_at when the hash is
\* the same, whatever the flag says; or history and update.
Upsert(b, v) ==
  IF ~b.row.here THEN
    [b EXCEPT !.row = [here |-> TRUE, val |-> v, hash |-> v, gone |-> FALSE,
                       stamped |-> FALSE, told |-> [val |-> v, gone |-> FALSE]],
              !.changed = TRUE]
  ELSE IF b.row.hash = v THEN b
  ELSE [Log(Log(b, "val", v), "gone", FALSE)
          EXCEPT !.row.val = v, !.row.hash = v, !.row.gone = FALSE, !.changed = TRUE]

\* _persist_products: every page of today's directory, in the order of its name.
Read(p) ==
  LET upTo[k \in 0 .. NPages] ==
        IF k = 0 THEN Unread(db[p])
        ELSE IF archive[k][p] = Off THEN upTo[k - 1]
        ELSE Upsert(upTo[k - 1], archive[k][p])
  IN  upTo[NPages]

Seen == {p \in Products : Worth(archive, p) # Off}

\* Mutant: what a partial fetch has not seen is missing, too.
MissingAnyway == {p \in Products \ Seen : Seen # {} /\ db[p].here /\ ~db[p].gone}

\* Mutant: the test of Phase A's outcome is the wrong way round.
MissingWhenPartial ==
  {p \in Products \ Seen : ~clean /\ Seen # {} /\ db[p].here /\ ~db[p].gone}

\* _mark_missing_as_discontinued, which Phase B calls when Phase A was ok: rows
\* still sold that no page has.  It does nothing if no page has anything.
Missing == {p \in Products \ Seen : clean /\ Seen # {} /\ db[p].here /\ ~db[p].gone}

\* Rows without details that Phase B inserts or updates, gifts left out: what the list
\* payload carries decides whether they get a text.
Textable == {p \in Products \ Gifts : Read(p).changed /\ ~db[p].stamped}

Persist ==
  /\ phase = "persist"
  /\ db' = [p \in Products |->
              IF p \in Missing
              THEN [db[p] EXCEPT !.gone = TRUE, !.told.gone = TRUE]
              ELSE Read(p).row]
  /\ texted' \in {(texted \ Textable) \cup rich : rich \in SUBSET Textable}
  /\ todo' = {p \in Products : Read(p).changed}
  /\ blurred' = blurred \cup {p \in Products : Read(p).lost}
  /\ clean' = TRUE
  /\ phase' = "select"
  /\ UNCHANGED <<world, archive, page, moved>>

-------------------------------------------------------------------------------
(* The selection, and Phase C *)

\* Mutant: the queue holds only what this run has changed.
NoReheal == {}

\* Rows that never had details and show no text that may come from them, gifts
\* excepted.
Reheal ==
  {p \in Products \ Gifts : /\ db[p].here /\ ~db[p].gone
                           /\ ~db[p].stamped /\ p \notin texted}

\* _changed_product_numbers, without and with full_refresh.
Select ==
  /\ phase = "select"
  /\ todo' \in {todo \cup Reheal, {p \in Products : db[p].here /\ ~db[p].gone}}
  /\ phase' = "details"
  /\ UNCHANGED <<world, archive, page, clean, db, texted, moved, blurred>>

\* Mutant: what the API answers for an unknown product is taken for its details.
DetailTaken(p) ==
  /\ phase = "details"
  /\ p \in todo
  /\ db' = [db EXCEPT ![p].val = Worth(world, p), ![p].gone = FALSE, ![p].stamped = TRUE]
  /\ blurred' = blurred \cup {q \in {p} : db[q].val # Worth(world, q) \/ db[q].gone}
  /\ texted' = texted \ {p}
  /\ todo' = todo \ {p}
  /\ UNCHANGED <<world, archive, phase, page, clean, moved>>

\* The detail payload overlays the row, tracked columns included, and leaves hash
\* and history alone.  So it does when the variants that come after raise.
DetailFetched(p) ==
  /\ phase = "details"
  /\ p \in todo
  /\ Worth(world, p) # Off
  /\ db' = [db EXCEPT ![p].val = Worth(world, p), ![p].gone = FALSE, ![p].stamped = TRUE]
  /\ blurred' = blurred \cup {q \in {p} : db[q].val # Worth(world, q) \/ db[q].gone}
  /\ texted' = texted \ {p}
  /\ todo' = todo \ {p}
  /\ UNCHANGED <<world, archive, phase, page, clean, moved>>

\* An API error, or a payload the UPDATE does not take: the row stays.
DetailFails(p) ==
  /\ phase = "details"
  /\ p \in todo
  /\ todo' = todo \ {p}
  /\ UNCHANGED <<world, archive, phase, page, clean, db, texted, moved, blurred>>

DetailsDone ==
  /\ phase = "details"
  /\ todo = {}
  /\ phase' = "idle"
  /\ UNCHANGED <<world, archive, page, clean, todo, db, texted, moved, blurred>>

-------------------------------------------------------------------------------
(* The run is cut short, the day ends, the catalogue changes *)

\* A crash, an abort or an escaping exception.  An open transaction is rolled back.
RunStops ==
  /\ phase # "idle"
  /\ phase' = "idle"
  /\ page' = 1
  /\ clean' = TRUE
  /\ todo' = {}
  /\ UNCHANGED <<world, archive, db, texted, moved, blurred>>

\* A new day has a directory of its own, and another catalogue.
NewDay ==
  /\ phase = "idle"
  /\ world' \in Catalogs
  /\ archive' = NoPages
  /\ moved' = FALSE
  /\ UNCHANGED <<phase, page, clean, todo, db, texted, blurred>>

\* The catalogue changes for one product, at any time, but (a bound) once a day.
WorldMoves ==
  /\ ~moved
  /\ \E p \in Products : world' \in {w \in Catalogs :
       \A k \in Pages : \A q \in Products \ {p} : w[k][q] = world[k][q]}
  /\ moved' = TRUE
  /\ UNCHANGED <<archive, phase, page, clean, todo, db, texted, blurred>>

RunStep ==
  \/ Start \/ PageFetched \/ PageFails \/ RestFetched \/ RestFails
  \/ Persist \/ Select \/ DetailsDone \/ RunStops
  \/ \E p \in Products : DetailFetched(p) \/ DetailFails(p)

CatNext == RunStep \/ NewDay \/ WorldMoves

\* Days pass, a run is started again and again, and again and again one gets an
\* answer to each of its requests and lives to the end: cron, the client's retries.
CatFairness ==
  /\ SF_catVars(NewDay)
  /\ WF_catVars(Start)
  /\ \A k \in Pages : SF_catVars(page = k /\ PageFetched)
  /\ SF_catVars(clean /\ RestFetched)
  /\ SF_catVars(clean /\ Persist)
  /\ SF_catVars(Select)
  /\ \A p \in Products : SF_catVars(DetailFetched(p))
  /\ WF_catVars(RunStep)

CatSpec == CatInit /\ [][CatNext]_catVars /\ CatFairness

-------------------------------------------------------------------------------
(* Properties *)

\* product_history explains the products table: applied to the row as inserted,
\* it yields the row.  Two leaks are known, and are the only ones: a product that
\* changes twice in a run (a page of an earlier run of the day is read again), and
\* a detail payload that differs from the row in a tracked column.
HistoryExplainsRow ==
  \A p \in Products \ blurred :
    db[p].here => db[p].told = [val |-> db[p].val, gone |-> db[p].gone]

\* Once Phase B has committed, every product on a page of today's directory has
\* the value of the last such page: the hash hides no change from the update,
\* unless a detail payload has changed the column behind its back.
ListedValueIsStored ==
  phase = "select" =>
    \A p \in Seen \ blurred : db[p].here /\ db[p].val = Worth(archive, p)

\* On a day on which the catalogue stands still, however many runs it has, a
\* product is marked as discontinued only when the catalogue has dropped it: never
\* because a page was not fetched or an earlier run was cut short.
OnlyDroppedIsDiscontinued ==
  [][\A p \in Products :
       ~db[p].gone /\ db'[p].gone /\ ~moved => Worth(world, p) = Off]_catVars

\* The catalogue has something to sell.
Selling == world # NoPages

\* What the catalogue has dropped is marked in the end.
DroppedIsNoticed ==
  \A p \in Products :
    (db[p].here /\ Worth(world, p) = Off /\ Selling)
      ~> (db[p].gone \/ Worth(world, p) # Off \/ ~Selling)

\* Details whose fetch fails are fetched again, run after run, until they arrive,
\* unless the product is dropped or was taken for discontinued, or a list payload has
\* given the row a text that looks like details: such a row waits for its next change
\* or a full refresh.
DetailsArrive ==
  \A p \in Products \ Gifts :
    (db[p].here /\ ~db[p].stamped /\ p \notin texted)
      ~> (db[p].stamped \/ p \in texted \/ db[p].gone \/ Worth(world, p) = Off)
===============================================================================
