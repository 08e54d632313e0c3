---------------------------- MODULE DerivedProofs -----------------------------
(***************************************************************************)
(* Proofs about Derived for any products, texts, versions of templates,    *)
(* attempts and sizes of batches: no stale embedding is forgotten, a run   *)
(* over everything on sale repairs them all, and a round is never larger   *)
(* than the settings allow.                                                *)
(***************************************************************************)
EXTENDS Derived, FiniteSetTheorems, FunctionTheorems, TLAPS

USE TextsAssumption, BoundsAssumption

-------------------------------------------------------------------------------
(* The inductive invariant *)

\* The variables but for the sizes of batches.
Types ==
  /\ text \in [Products -> Texts \cup {Silent, Off}]
  /\ gone \in SUBSET Products
  /\ detailed \in SUBSET Products
  /\ template \in 1 .. NTemplates
  /\ emb \in [Products -> Hashes \cup {Off}]
  /\ index \in [cols : {0, 3, 8}, behind : SUBSET Products]
  /\ pc \in {"idle", "persist", "details", "embed", "batches", "index", "final"}
  /\ full \in BOOLEAN
  /\ list \in SUBSET Products
  /\ touched \in BOOLEAN
  /\ todo \in SUBSET Products
  /\ flight \in SUBSET Batches
  /\ ready \in SUBSET Products
  /\ lost \in SUBSET Products
  /\ owed \in SUBSET Products

\* The products that Phase D still has in hand.
InHand == todo \cup ready \cup (UNION {b.of : b \in flight})

\* Batches are Phase D's, and a round is stored before the next one is sent.
RoundsApart ==
  /\ pc # "batches" => todo = {} /\ flight = {} /\ ready = {}
  /\ flight # {} => ready = {}
  /\ pc \in {"idle", "persist", "index", "final"} => list = {}
  /\ pc # "batches" => lost = {}

\* Wherever the run is, a stale embedding is owed to a failure, or on the way.
Accounted ==
  /\ pc \in {"idle", "persist", "index", "final"} => Stale \subseteq owed
  /\ pc \in {"details", "embed"} => Stale \subseteq owed \cup list
  /\ pc = "batches" => Stale \subseteq owed \cup InHand

\* In a run with everything on sale for candidates it is lost in this run, or on the way.
Repairing ==
  pc = "batches" /\ (full \/ list = {}) => Stale \subseteq lost \cup InHand

IInv ==
  /\ Types
  /\ RoundsApart
  /\ Accounted
  /\ Repairing

-------------------------------------------------------------------------------
(* Which products there are *)

\* A text renders to a hash, or to none.
LEMMA HashType ==
  ASSUME Types, NEW p \in Products PROVE Hash(p) \in Hashes \cup {Off}
BY DEF Types, Hash, Hashes

\* The sets of products that the phases work on.
LEMMA SetTypes ==
  ASSUME Types
  PROVE  /\ OnSale \subseteq Products /\ Stale \subseteq OnSale
         /\ Candidates \subseteq Products /\ ToEmbed \subseteq Products
BY DEF Types, OnSale, Stale, Candidates, ToEmbed

\* Nothing goes stale while neither the products nor the embeddings change.
LEMMA StaleStays ==
  ASSUME text' = text, gone' = gone, template' = template, emb' = emb
  PROVE  Stale' = Stale
BY DEF Stale, OnSale, Hash

\* Only a product that is written to goes stale.
LEMMA StaleByWriting ==
  ASSUME NEW W \in SUBSET Products,
         \A p \in Products \ W : text'[p] = text[p],
         gone \subseteq gone' \cup W, template' = template, emb' = emb
  PROVE  Stale' \subseteq Stale \cup W
BY DEF Stale, OnSale, Hash

-------------------------------------------------------------------------------
(* The steps *)

\* The first state.
LEMMA InitInv == ASSUME Init PROVE IInv
<1>1. Types
  <2>1. NoIndex \in [cols : {0, 3, 8}, behind : SUBSET Products]
    BY DEF NoIndex
  <2>2. 1 \in 1 .. NTemplates
    OBVIOUS
  <2>3. Nothing \in [Products -> Texts \cup {Silent, Off}]
        /\ Nothing \in [Products -> Hashes \cup {Off}]
    BY DEF Nothing
  <2> QED
    BY <2>1, <2>2, <2>3 DEF Init, Types
<1>2. Stale = {}
  BY DEF Init, Stale, OnSale, Nothing
<1> QED
  BY <1>1, <1>2 DEF Init, IInv, RoundsApart, Accounted, Repairing

\* A run begins.
LEMMA StartStep == ASSUME IInv, Start PROVE IInv'
<1>1. Types' /\ RoundsApart'
  BY DEF IInv, Types, RoundsApart, Start, world
<1>2. Stale' = Stale
  BY StaleStays DEF Start, world
<1> QED
  BY <1>1, <1>2 DEF IInv, Accounted, Repairing, Start

\* What Phase B changes is on the list.
LEMMA PersistStep == ASSUME IInv, Persist PROVE IInv'
<1>0. PICK changed \in SUBSET Products : \E dropped \in SUBSET (OnSale \ changed) :
        /\ text' \in {t \in [Products -> Texts \cup {Silent, Off}] :
                        /\ \A p \in changed : t[p] # Off
                        /\ \A p \in Products \ changed : t[p] = text[p]}
        /\ gone' = (gone \ changed) \cup dropped
        /\ list' = changed
        /\ index' = [index EXCEPT !.behind = @ \cup changed \cup dropped]
        /\ touched' = (changed \cup dropped # {})
  BY DEF Persist
<1>1. PICK dropped \in SUBSET (OnSale \ changed) :
        /\ text' \in {t \in [Products -> Texts \cup {Silent, Off}] :
                        /\ \A p \in changed : t[p] # Off
                        /\ \A p \in Products \ changed : t[p] = text[p]}
        /\ gone' = (gone \ changed) \cup dropped
        /\ list' = changed
        /\ index' = [index EXCEPT !.behind = @ \cup changed \cup dropped]
        /\ touched' = (changed \cup dropped # {})
  BY <1>0
<1>2. dropped \subseteq Products
  BY SetTypes DEF IInv
<1>3. Types'
  BY <1>1, <1>2 DEF IInv, Types, Persist
<1>4. RoundsApart'
  BY DEF IInv, RoundsApart, Persist
<1>5. Stale' \subseteq Stale \cup changed
  BY <1>1, StaleByWriting DEF Persist
<1> QED
  BY <1>1, <1>3, <1>4, <1>5 DEF IInv, Accounted, Repairing, Persist

\* What Phase C changes is on the list, and whatever was on it stays.
LEMMA DetailsStep == ASSUME IInv, Details PROVE IInv'
<1>1. PICK updated \in SUBSET list' :
        /\ text' \in {t \in [Products -> Texts \cup {Silent, Off}] :
                        /\ \A p \in updated : t[p] # Off
                        /\ \A p \in Products \ updated : t[p] = text[p]}
        /\ gone' = gone \ updated
        /\ detailed' = detailed \cup updated
        /\ index' = [index EXCEPT !.behind = @ \cup updated]
        /\ \E counted \in SUBSET updated : touched' = (touched \/ counted # {})
  BY DEF Details
<1>2. /\ list' \subseteq Products /\ updated \in SUBSET Products
      /\ list \subseteq list' \/ (full /\ list' = OnSale)
  <2>1. list' \in Lists
    BY DEF Details
  <2>2. list' \subseteq Products /\ (list \subseteq list' \/ (full /\ list' = OnSale))
    BY <2>1, SetTypes DEF IInv, Types, Lists
  <2> QED
    BY <1>1, <2>2
<1>3. Types'
  <2>1. touched' \in BOOLEAN
    BY <1>1
  <2>2. index' \in [cols : {0, 3, 8}, behind : SUBSET Products]
    BY <1>1, <1>2 DEF IInv, Types
  <2> QED
    BY <1>1, <1>2, <2>1, <2>2 DEF IInv, Types, Details
<1>4. RoundsApart'
  BY DEF IInv, RoundsApart, Details
<1>5. Stale' \subseteq Stale \cup updated
  BY <1>1, <1>2, StaleByWriting DEF Details
<1>6. Stale \subseteq owed \cup list'
  BY <1>2, SetTypes DEF IInv, Accounted, Details
<1> QED
  BY <1>1, <1>3, <1>4, <1>5, <1>6 DEF IInv, Accounted, Repairing, Details

\* What is stale and on the list is to be embedded.
LEMMA ToEmbedIsStale ==
  ASSUME IInv, pc = "embed"
  PROVE  /\ Stale \subseteq owed \cup ToEmbed
         /\ full \/ list = {} => Stale \subseteq ToEmbed
BY SetTypes DEF IInv, Accounted, Stale, ToEmbed, Candidates

\* The candidates are collected.
LEMMA CollectStep == ASSUME IInv, Collect PROVE IInv'
<1>1. Stale' = Stale
  BY StaleStays DEF Collect, world
<1>2. /\ Stale \subseteq owed \cup ToEmbed
      /\ full \/ list = {} => Stale \subseteq ToEmbed
  BY ToEmbedIsStale DEF Collect
<1>3. Types'
  BY SetTypes DEF IInv, Types, Collect, Drop, world
<1>4. RoundsApart'
  BY DEF IInv, RoundsApart, Collect, Drop
<1> QED
  BY <1>1, <1>2, <1>3, <1>4
     DEF IInv, Accounted, Repairing, InHand, Collect, Drop

\* What leaves the queue is in flight.
LEMMA NextRoundStep == ASSUME IInv, NextRound PROVE IInv'
<1>1. PICK r \in SUBSET (SUBSET todo) :
        /\ flight' = {[of |-> b, tries |-> 0, got |-> "nothing"] : b \in r}
        /\ todo' = todo \ UNION r
  BY DEF NextRound, Rounds
<1>2. 0 \in 0 .. Attempts - 1
  OBVIOUS
<1>3. flight' \subseteq Batches
  BY <1>1, <1>2 DEF IInv, Types, Batches
<1>4. Types'
  BY <1>1, <1>3 DEF IInv, Types, NextRound, world
<1>5. RoundsApart'
  BY DEF IInv, RoundsApart, NextRound
<1>6. Stale' = Stale
  BY StaleStays DEF NextRound, world
<1>7. InHand \subseteq InHand'
  <2>1. ASSUME NEW b \in r PROVE \E c \in flight' : c.of = b
    <3>1. [of |-> b, tries |-> 0, got |-> "nothing"].of = b
      OBVIOUS
    <3>2. [of |-> b, tries |-> 0, got |-> "nothing"] \in flight'
      BY <1>1, Zenon
    <3> QED
      BY <3>1, <3>2
  <2> QED
    BY <1>1, <2>1 DEF InHand, NextRound
<1> QED
  BY <1>4, <1>5, <1>6, <1>7
     DEF IInv, Accounted, Repairing, NextRound

\* A batch in flight goes on with the same products.
LEMMA BecomesStep ==
  ASSUME IInv, NEW b \in flight, NEW new \in Batches, new.of = b.of, Becomes(b, new)
  PROVE  IInv'
<1>1. Types'
  BY DEF IInv, Types, Becomes, world
<1>2. RoundsApart'
  BY DEF IInv, RoundsApart, Becomes
<1>3. Stale' = Stale
  BY StaleStays DEF Becomes, world
<1>4. InHand' = InHand
  <2>1. UNION {c.of : c \in flight'} = UNION {c.of : c \in flight}
    BY DEF Becomes
  <2> QED
    BY <2>1 DEF InHand, Becomes
<1> QED
  BY <1>1, <1>2, <1>3, <1>4 DEF IInv, Accounted, Repairing, Becomes

\* A request is answered, tried again or given up.
LEMMA RequestStep ==
  ASSUME IInv, NEW b \in flight, Answered(b) \/ Retried(b) \/ Exhausted(b)
  PROVE  IInv'
<1>1. b \in Batches
  BY DEF IInv, Types
<1>2. CASE Answered(b)
  <2>1. [b EXCEPT !.got = "vectors"] \in Batches
        /\ [b EXCEPT !.got = "vectors"].of = b.of
    BY <1>1 DEF Batches
  <2> QED
    BY <1>2, <2>1, BecomesStep DEF Answered
<1>3. CASE Retried(b)
  <2>1. b.tries + 1 \in 0 .. Attempts - 1
    BY <1>1, <1>3 DEF Batches, Retried
  <2>2. [b EXCEPT !.tries = @ + 1] \in Batches
        /\ [b EXCEPT !.tries = @ + 1].of = b.of
    BY <1>1, <2>1 DEF Batches
  <2> QED
    BY <1>3, <2>2, BecomesStep DEF Retried
<1>4. CASE Exhausted(b)
  <2>1. [b EXCEPT !.got = "failed"] \in Batches
        /\ [b EXCEPT !.got = "failed"].of = b.of
    BY <1>1 DEF Batches
  <2> QED
    BY <1>4, <2>1, BecomesStep DEF Exhausted
<1> QED
  BY <1>2, <1>3, <1>4

\* A batch has vectors, or it is lost and accounted for.
LEMMA GatheredStep == ASSUME IInv, Gathered PROVE IInv'
<1>1. UNION {b.of : b \in flight} = Got("vectors") \cup Got("failed")
  <2>1. \A b \in flight : b.got \in {"vectors", "failed"}
    BY DEF IInv, Types, Batches, Gathered
  <2> QED
    BY <2>1 DEF Got
<1>2. UNION {b.of : b \in flight} \subseteq Products
  BY DEF IInv, Types, Batches
<1>3. Types'
  BY <1>1, <1>2 DEF IInv, Types, Gathered, world
<1>4. RoundsApart'
  BY DEF IInv, RoundsApart, Gathered
<1>5. Stale' = Stale
  BY StaleStays DEF Gathered, world
<1>6. InHand \subseteq InHand' \cup Got("failed")
  BY <1>1 DEF InHand, IInv, RoundsApart, Gathered
<1>7. pc = "batches" /\ pc' = pc
  BY DEF IInv, RoundsApart, Gathered
<1>8. Accounted'
  BY <1>5, <1>6, <1>7 DEF IInv, Accounted, Gathered
<1>9. Repairing'
  BY <1>5, <1>6, <1>7 DEF IInv, Repairing, Gathered
<1> QED
  BY <1>3, <1>4, <1>7, <1>8, <1>9 DEF IInv

\* A product whose vector is stored is not stale any more.
LEMMA StoreStep ==
  ASSUME IInv, NEW p \in Products, Store(p) PROVE IInv'
<1>1. Types'
  BY HashType DEF IInv, Types, Store, world
<1>2. RoundsApart'
  BY DEF IInv, RoundsApart, Store
<1>3. Stale' = Stale \ {p}
  <2>1. emb'[p] = Hash(p) /\ \A q \in Products \ {p} : emb'[q] = emb[q]
    BY DEF IInv, Types, Store
  <2>2. OnSale' = OnSale /\ \A q : Hash(q)' = Hash(q)
    BY DEF OnSale, Hash, Store, world
  <2>3. OnSale \subseteq Products
    BY DEF OnSale
  <2> QED
    BY <2>1, <2>2, <2>3 DEF Stale
<1>4. pc = "batches" /\ pc' = pc
  BY DEF IInv, RoundsApart, Store
<1>5. InHand \subseteq InHand' \cup {p}
  BY DEF InHand, Store
<1>6. Accounted' /\ Repairing'
  BY <1>3, <1>4, <1>5 DEF IInv, Accounted, Repairing, Store
<1> QED
  BY <1>1, <1>2, <1>4, <1>6 DEF IInv

\* The last round is stored.
LEMMA EmbeddedStep == ASSUME IInv, Embedded PROVE IInv'
<1>1. Types'
  BY DEF IInv, Types, Embedded, Drop, world
<1>2. RoundsApart'
  BY DEF RoundsApart, Embedded, Drop
<1>3. Stale' = Stale
  BY StaleStays DEF Embedded, world
<1>4. InHand = {}
  BY DEF InHand, Embedded
<1> QED
  BY <1>1, <1>2, <1>3, <1>4
     DEF IInv, Accounted, Repairing, Embedded, Drop

\* Phase D is skipped or ends with an exception: what is stale is owed.
LEMMA FailStep ==
  ASSUME IInv, NEW next \in {"index", "final"}, Drop(next), owed' = owed \cup Stale,
         UNCHANGED <<world, emb, index, full, touched>>
  PROVE  IInv'
<1>1. Types'
  BY SetTypes DEF IInv, Types, Drop, world
<1>2. RoundsApart'
  BY DEF RoundsApart, Drop
<1>3. Stale' = Stale
  BY StaleStays DEF world
<1> QED
  BY <1>1, <1>2, <1>3 DEF IInv, Accounted, Repairing, Drop

\* The process is gone.
LEMMA CrashStep == ASSUME IInv, Crash PROVE IInv'
<1>1. Types'
  BY SetTypes DEF IInv, Types, Crash, Drop, world
<1>2. RoundsApart'
  BY DEF RoundsApart, Crash, Drop
<1>3. Stale' = Stale
  BY StaleStays DEF Crash, world
<1> QED
  BY <1>1, <1>2, <1>3 DEF IInv, Accounted, Repairing, Crash, Drop

\* Phase E and Phase F write to the index only.
LEMMA IndexStep ==
  ASSUME IInv, BuildIndex \/ BuildFails \/ Rebuild \/ RebuildFails PROVE IInv'
<1>1. Types'
  <2>1. \A c \in {0, 3, 8}, B \in SUBSET Products :
          [cols |-> c, behind |-> B] \in [cols : {0, 3, 8}, behind : SUBSET Products]
    OBVIOUS
  <2>2. index' \in [cols : {0, 3, 8}, behind : SUBSET Products]
    BY <2>1 DEF IInv, Types, BuildIndex, BuildFails, Rebuild, RebuildFails, NoIndex
  <2> QED
    BY <2>2 DEF IInv, Types, BuildIndex, BuildFails, Rebuild, RebuildFails, world
<1>2. RoundsApart'
  BY DEF IInv, RoundsApart, BuildIndex, BuildFails, Rebuild, RebuildFails
<1>3. Stale' = Stale
  BY StaleStays DEF BuildIndex, BuildFails, Rebuild, RebuildFails, world
<1>4. Accounted' /\ Repairing'
  BY <1>3 DEF IInv, Accounted, Repairing, BuildIndex, BuildFails, Rebuild, RebuildFails
<1> QED
  BY <1>1, <1>2, <1>4 DEF IInv

\* A new template makes everything it renders stale, and owed.
LEMMA DeployStep == ASSUME IInv, Deploy PROVE IInv'
<1>1. template + 1 \in 1 .. NTemplates
  BY DEF IInv, Types, Deploy
<1>2. Types'
  BY <1>1 DEF IInv, Types, Deploy, OnSale, run
<1>3. RoundsApart'
  BY DEF IInv, RoundsApart, Deploy, run
<1>4. Stale' \subseteq {p \in OnSale : Hash(p) # Off}
  <2>1. \A p \in OnSale : text[p] \in Texts => Hash(p) # Off
    BY DEF IInv, Types, Hash
  <2> QED
    BY <2>1 DEF Stale, OnSale, Hash, Deploy, run
<1> QED
  BY <1>2, <1>3, <1>4 DEF IInv, Accounted, Repairing, Deploy, run

\* Nothing happens.
LEMMA StutterStep == ASSUME IInv, UNCHANGED vars PROVE IInv'
BY DEF IInv, Types, RoundsApart, Accounted, Repairing, InHand,
       Stale, OnSale, Hash, vars, world, run

\* Every step keeps the invariant.
LEMMA StepInv == ASSUME IInv, [Next]_vars PROVE IInv'
<1>1. CASE Start
  BY <1>1, StartStep
<1>2. CASE Persist \/ Details
  BY <1>2, PersistStep, DetailsStep
<1>3. CASE NotReady
  BY <1>3, FailStep DEF NotReady
<1>4. CASE Collect \/ NextRound \/ Gathered \/ Embedded
  BY <1>4, CollectStep, NextRoundStep, GatheredStep, EmbeddedStep
<1>5. CASE \E b \in flight : BatchStep(b)
  <2>1. PICK b \in flight : BatchStep(b)
    BY <1>5
  <2>2. CASE Escapes(b)
    BY <2>2, FailStep DEF Escapes
  <2> QED
    BY <2>1, <2>2, RequestStep DEF BatchStep
<1>6. CASE \E p \in Products : Store(p)
  BY <1>6, StoreStep
<1>7. CASE WrongSize
  BY <1>7, FailStep DEF WrongSize
<1>8. CASE BuildIndex \/ BuildFails \/ Rebuild \/ RebuildFails
  BY <1>8, IndexStep
<1>9. CASE Aborts
  BY <1>9, FailStep DEF Aborts
<1>10. CASE Crash
  BY <1>10, CrashStep
<1>11. CASE Deploy
  BY <1>11, DeployStep
<1>12. CASE UNCHANGED vars
  BY <1>12, StutterStep
<1> QED
  BY <1>1, <1>2, <1>3, <1>4, <1>5, <1>6, <1>7, <1>8, <1>9, <1>10, <1>11, <1>12
     DEF Next, RunStep

\* The invariant holds from the first state on.
LEMMA Invariance == Spec => []IInv
<1> QED
  BY InitInv, StepInv, PTL DEF Spec

-------------------------------------------------------------------------------
(* What follows *)

\* Between runs, every embedding that lags behind its product has a failure since to
\* account for it: Phases B, C and D hand on each change (sync/phases/embed.py).
THEOREM StaleIsAlwaysOwed == Spec => []StaleIsOwed
<1>1. IInv => StaleIsOwed
  BY DEF IInv, Accounted, StaleIsOwed
<1> QED
  BY <1>1, Invariance, PTL

\* Phase D over everything on sale leaves nothing stale but the batches that fail in it.
THEOREM FullRunRepairs == Spec => RepairRunRepairs
<1>1. ASSUME IInv, [Next]_vars
      PROVE  [(Collect \/ Embedded) /\ pc' = "index" /\ (full \/ list = {})
                => Stale \subseteq lost]_vars
  <2>1. ASSUME Collect, pc' = "index", full \/ list = {} PROVE Stale \subseteq lost
    BY <1>1, <2>1, ToEmbedIsStale DEF Collect
  <2>2. ASSUME Embedded, full \/ list = {} PROVE Stale \subseteq lost
    BY <1>1, <2>2 DEF Embedded, IInv, Repairing, InHand
  <2> QED
    BY <2>1, <2>2
<1> QED
  BY <1>1, Invariance, PTL DEF Spec, RepairRunRepairs

-------------------------------------------------------------------------------
(* The sizes of rounds and batches *)

\* At most Parallel requests at a time, each for one to BatchSize products.  A set of
\* batches has a number of members only when it is finite, so that is part of it.
RoundIsSmall ==
  /\ IsFiniteSet(flight)
  /\ Cardinality(flight) <= Parallel
  /\ \A b \in flight : Cardinality(b.of) \in 1 .. BatchSize

\* No batch is in flight.
LEMMA EmptyRoundIsSmall == ASSUME flight' = {} PROVE RoundIsSmall'
<1>1. IsFiniteSet({}) /\ Cardinality({}) = 0
  BY FS_EmptySet
<1> QED
  BY <1>1 DEF RoundIsSmall

\* There are no more requests than batches drawn from the queue.
LEMMA NextRoundIsSmall == ASSUME IInv, NextRound PROVE RoundIsSmall'
<1>1. PICK r \in Rounds :
        flight' = {[of |-> b, tries |-> 0, got |-> "nothing"] : b \in r}
  BY DEF NextRound
<1>2. /\ r \in SUBSET (SUBSET todo)
      /\ Cardinality(r) \in 1 .. Parallel
      /\ \A b \in r : Cardinality(b) \in 1 .. BatchSize
  BY DEF Rounds
<1>3. todo \in SUBSET Products
  BY DEF IInv, Types
<1>4. IsFiniteSet(todo)
  BY <1>3, ProductsAssumption, FS_Subset
<1>5. IsFiniteSet(SUBSET todo)
  BY <1>4, FS_SUBSET
<1>6. IsFiniteSet(r)
  BY <1>2, <1>5, FS_Subset
<1>7. IsFiniteSet(flight') /\ Cardinality(flight') <= Cardinality(r)
  <2> DEFINE Sent == [b \in r |-> [of |-> b, tries |-> 0, got |-> "nothing"]]
  <2>1. flight' = {Sent[b] : b \in r}
    BY <1>1
  <2>2. Sent \in [r -> flight'] /\ \A c \in flight' : \E b \in r : Sent[b] = c
    BY <2>1
  <2> HIDE DEF Sent
  <2>3. Sent \in Surjection(r, flight')
    BY <2>2, Fun_IsSurj
  <2> QED
    BY <1>6, <2>3, FS_Surjection
<1>8. Cardinality(flight') <= Parallel
  <2>1. Cardinality(flight') \in Nat /\ Cardinality(r) \in Nat
    BY <1>6, <1>7, FS_CardinalityType
  <2> QED
    BY <1>2, <1>7, <2>1
<1>9. ASSUME NEW c \in flight' PROVE Cardinality(c.of) \in 1 .. BatchSize
  <2>1. PICK b \in r : c = [of |-> b, tries |-> 0, got |-> "nothing"]
    BY <1>1
  <2>2. c.of = b
    BY <2>1
  <2> QED
    BY <1>2, <2>2
<1> QED
  BY <1>7, <1>8, <1>9 DEF RoundIsSmall

\* A batch that goes on takes its own place.
LEMMA BecomesKeepsSmall ==
  ASSUME IInv, RoundIsSmall, NEW b \in flight, NEW new, new.of = b.of, Becomes(b, new)
  PROVE  RoundIsSmall'
<1>1. IsFiniteSet(flight \ {b}) /\ Cardinality(flight \ {b}) = Cardinality(flight) - 1
  BY FS_RemoveElement DEF RoundIsSmall
<1>2. /\ IsFiniteSet((flight \ {b}) \cup {new})
      /\ \/ Cardinality((flight \ {b}) \cup {new}) = Cardinality(flight \ {b})
         \/ Cardinality((flight \ {b}) \cup {new}) = Cardinality(flight \ {b}) + 1
  BY <1>1, FS_AddElement
<1>3. Cardinality(flight) \in Nat
  BY FS_CardinalityType DEF RoundIsSmall
<1>4. Cardinality((flight \ {b}) \cup {new}) <= Parallel
  BY <1>1, <1>2, <1>3 DEF RoundIsSmall
<1>5. flight' = (flight \ {b}) \cup {new}
  BY DEF Becomes
<1> QED
  BY <1>2, <1>4, <1>5 DEF RoundIsSmall

\* A request is answered, tried again or given up: the batch keeps its products.
LEMMA RequestKeepsSmall ==
  ASSUME IInv, RoundIsSmall, NEW b \in flight, Answered(b) \/ Retried(b) \/ Exhausted(b)
  PROVE  RoundIsSmall'
<1>1. b \in Batches
  BY DEF IInv, Types
<1>2. /\ [b EXCEPT !.got = "vectors"].of = b.of
      /\ [b EXCEPT !.got = "failed"].of = b.of
      /\ [b EXCEPT !.tries = @ + 1].of = b.of
  BY <1>1 DEF Batches
<1> QED
  BY <1>2, BecomesKeepsSmall DEF Answered, Retried, Exhausted

\* Every step keeps the sizes.
LEMMA StepIsSmall == ASSUME IInv, RoundIsSmall, [Next]_vars PROVE RoundIsSmall'
<1>1. CASE NextRound
  BY <1>1, NextRoundIsSmall
<1>2. CASE \E b \in flight : BatchStep(b)
  <2>1. PICK b \in flight : BatchStep(b)
    BY <1>2
  <2>2. CASE Escapes(b)
    BY <2>2, EmptyRoundIsSmall DEF Escapes, Drop
  <2> QED
    BY <2>1, <2>2, RequestKeepsSmall DEF BatchStep
<1>3. CASE flight' = {}
  BY <1>3, EmptyRoundIsSmall
<1>4. CASE flight' = flight
  BY <1>4 DEF RoundIsSmall
<1>5. NotReady \/ Gathered \/ WrongSize \/ Embedded \/ Aborts \/ Crash => flight' = {}
  BY DEF NotReady, Gathered, WrongSize, Embedded, Aborts, Crash, Drop
<1>6. Collect => flight' \in {flight, {}}
  BY DEF Collect, Drop
<1>7. \/ Start \/ Persist \/ Details \/ (\E p \in Products : Store(p)) \/ BuildIndex
      \/ BuildFails \/ Rebuild \/ RebuildFails \/ Deploy \/ UNCHANGED vars
      => flight' = flight
  BY DEF Start, Persist, Details, Store, BuildIndex, BuildFails, Rebuild, RebuildFails,
         Deploy, vars, run
<1> QED
  BY <1>1, <1>2, <1>3, <1>4, <1>5, <1>6, <1>7 DEF Next, RunStep

\* Every variable has its type, and Phase D never has more than Parallel requests in
\* the air or more than BatchSize products in one (embed/client.py, embed_batch).
THEOREM TypesAlways == Spec => []TypeOK
<1>1. Init => RoundIsSmall
  BY FS_EmptySet DEF Init, RoundIsSmall
<1>2. IInv /\ RoundIsSmall /\ [Next]_vars => RoundIsSmall'
  BY StepIsSmall
<1>3. IInv /\ RoundIsSmall => TypeOK
  BY DEF IInv, Types, RoundIsSmall, TypeOK
<1> QED
  BY <1>1, <1>2, <1>3, Invariance, PTL DEF Spec
===============================================================================
