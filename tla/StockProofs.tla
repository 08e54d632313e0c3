------------------------------ MODULE StockProofs ------------------------------
(***************************************************************************)
(* Proofs about Stock for any stores, subsets, products and levels, any    *)
(* number of pages and any listings: the history ends where the table      *)
(* stands, and a store that has been fetched whole is mirrored.            *)
(***************************************************************************)
EXTENDS Stock, NaturalsInduction, WellFoundedInduction, TLAPS

\* A set of numbers has a least one.
LEMMA Least ==
  ASSUME NEW T \in SUBSET Nat, T # {}
  PROVE  \E k \in T : \A j \in T : k <= j
<1> DEFINE R == {ss \in Nat \X Nat : ss[1] < ss[2]}
<1>1. IsWellFoundedOn(R, Nat)
  BY NatLessThanWellFounded DEF OpToRel
<1>2. PICK k \in T : \A j \in T : ~(<<j, k>> \in R)
  <2> HIDE DEF R
  <2> QED BY <1>1, WFMin
<1>3. \A j \in T : ~(j < k)
  BY <1>2
<1> QED BY <1>3

USE HomesAssumption, OffAssumption, NPagesAssumption, ShelvesAssumption

-------------------------------------------------------------------------------
(* The inductive invariant *)

Page(s, k) == [kind |-> "page", items |-> world[s][k]]

\* What a run has begun is given up when it ends, and pages are asked for in Phase A.
RunIsAlone ==
  /\ pc # "fetch" => left = {}
  /\ pc = "idle" => whole = {}
  /\ at # None => pc = "fetch"

\* While a store stands still, whatever run of the day has left a page, it says what
\* the store would say now.
PagesAreTrue ==
  \A s \in Stores \ moved : \A k \in Pages : archive[s][k] \in {NoPage, TornPage, Page(s, k)}

\* The pages of a store before the one that is asked for are there.
ReadUpToHere ==
  at # None /\ at.store \notin moved =>
    \A k \in Pages : k < at.page => archive[at.store][k] = Page(at.store, k)

\* Of a store that was fetched whole, all pages are there that list anything.
ReadToTheEnd ==
  \A s \in whole \ moved : \A k \in Pages :
    world[s][k] = Blank \/ archive[s][k] = Page(s, k)

IInv ==
  /\ TypeOK
  /\ RunIsAlone
  /\ PagesAreTrue
  /\ ReadUpToHere
  /\ ReadToTheEnd

-------------------------------------------------------------------------------
(* Lemmas about pages *)

\* What the constants are.
LEMMA ConstantTypes ==
  /\ Blank \in Listings
  /\ NoPage \in Files /\ NoPage.items = Blank
  /\ TornPage \in Files /\ TornPage.items = Blank
  /\ NoFiles \in [Stores -> [Pages -> Files]]
BY DEF Blank, Listings, NoPage, TornPage, Files, NoFiles

\* Every file lists something, if only nothing.
LEMMA FileItems == ASSUME NEW f \in Files PROVE f.items \in Listings
BY ConstantTypes DEF Files

\* The item that is taken comes from one of the pages that list the product.
LEMMA FirstIsListed ==
  ASSUME TypeOK, NEW s \in Stores, NEW p \in Products, Listing(s, p) # {}
  PROVE  \E k \in Listing(s, p) : First(s, p) = archive[s][k].items[p]
<1>1. Listing(s, p) \in SUBSET Nat
  BY DEF Listing, Pages
<1>2. \E k \in Listing(s, p) : \A j \in Listing(s, p) : k <= j
  BY <1>1, Least
<1> QED BY <1>2 DEF First

\* The item that is taken is a level.
LEMMA FirstType ==
  ASSUME TypeOK, NEW s \in Stores, NEW p \in Products
  PROVE  First(s, p) \in Levels \cup {Off}
<1>1. CASE Listing(s, p) = {}
  BY <1>1 DEF First
<1>2. CASE Listing(s, p) # {}
  <2>1. PICK k \in Listing(s, p) : First(s, p) = archive[s][k].items[p]
    BY <1>2, FirstIsListed
  <2>2. k \in Pages /\ archive[s][k] \in Files
    BY DEF Listing, TypeOK
  <2> QED BY <2>1, <2>2, FileItems DEF Listings
<1> QED BY <1>1, <1>2

-------------------------------------------------------------------------------
(* Types *)

\* The types, to begin with.
LEMMA TypeInit == Init => TypeOK
BY ConstantTypes DEF Init, TypeOK, Listings, Blank, NoFiles, None

\* The types, from step to step.
LEMMA TypeStep == TypeOK /\ RunIsAlone /\ [Next]_vars => TypeOK'
<1> SUFFICES ASSUME TypeOK, RunIsAlone, [Next]_vars PROVE TypeOK'
  OBVIOUS
<1> USE DEF TypeOK
<1>1. CASE UNCHANGED vars
  BY <1>1 DEF vars
<1>2. CASE Start
  BY <1>2 DEF Start
<1>3. ASSUME NEW s \in Stores, NextStore(s) PROVE TypeOK'
  BY <1>3 DEF NextStore, Pages
<1>4. CASE PageFetched
  <2>1. at.store \in home /\ at.store \in Stores /\ at.page \in Pages
    BY <1>4 DEF PageFetched
  <2>2. [kind |-> "page", items |-> world[at.store][at.page]] \in Files
    BY <2>1 DEF Files
  <2>3. archive' \in [Stores -> [Pages -> Files]]
    BY <1>4, <2>1, <2>2 DEF PageFetched
  <2>4. at' \in [store : home, page : Pages] \cup {None}
    BY <1>4, <2>1 DEF PageFetched, LastPage, Pages
  <2> QED BY <1>4, <2>1, <2>3, <2>4 DEF PageFetched
<1>5. CASE PageFails
  BY <1>5 DEF PageFails
<1>6. CASE PageTorn
  <2>1. archive' \in [Stores -> [Pages -> Files]]
    BY <1>6, ConstantTypes DEF PageTorn
  <2> QED BY <1>6, <2>1 DEF PageTorn
<1>7. CASE FetchDone
  BY <1>7 DEF FetchDone
<1>8. CASE Persist
  <2>1. stock' \in [Stores -> Listings]
    BY <1>8, FirstType DEF Persist, Upserted, Listings
  <2>2. told' \in [Stores -> [Products -> Levels \cup {Off, Sold}]]
    BY <1>8, FirstType DEF Persist, Logged
  <2> QED BY <1>8, <2>1, <2>2 DEF Persist
<1>9. CASE RunStops
  BY <1>9 DEF RunStops
<1>10. CASE NewDay
  BY <1>10, ConstantTypes DEF NewDay
<1>11. CASE Restart
  <2>1. left = {} /\ whole = {} /\ at = None
    BY <1>11 DEF Restart, RunIsAlone
  <2> QED BY <1>11, <2>1 DEF Restart
<1>12. ASSUME NEW s \in Stores, StockMoves(s) PROVE TypeOK'
  <2>1. PICK w \in Shelves[s] : world' = [world EXCEPT ![s] = w]
    BY <1>12 DEF StockMoves
  <2>2. w \in [Pages -> Listings]
    OBVIOUS
  <2> QED BY <1>12, <2>1, <2>2 DEF StockMoves
<1> QED BY <1>1, <1>2, <1>3, <1>4, <1>5, <1>6, <1>7, <1>8, <1>9, <1>10, <1>11, <1>12
        DEF Next, RunStep
-------------------------------------------------------------------------------
(* The other parts of the invariant *)

\* A run begins and ends with nothing in hand.
LEMMA AloneStep == TypeOK /\ RunIsAlone /\ [Next]_vars => RunIsAlone'
<1> SUFFICES ASSUME TypeOK, RunIsAlone, [Next]_vars PROVE RunIsAlone'
  OBVIOUS
<1> USE DEF RunIsAlone
<1>1. CASE Start
  BY <1>1 DEF Start, None
<1>2. ASSUME NEW s \in Stores, NextStore(s) PROVE RunIsAlone'
  BY <1>2 DEF NextStore, None
<1>3. CASE PageFetched \/ PageFails \/ PageTorn
  BY <1>3 DEF PageFetched, PageFails, PageTorn, None
<1>4. CASE FetchDone \/ Persist \/ RunStops
  BY <1>4 DEF FetchDone, Persist, RunStops, None
<1>5. CASE NewDay \/ Restart \/ UNCHANGED vars
  BY <1>5 DEF NewDay, Restart, vars, None
<1>6. ASSUME NEW s \in Stores, StockMoves(s) PROVE RunIsAlone'
  BY <1>6 DEF StockMoves, None
<1> QED BY <1>1, <1>2, <1>3, <1>4, <1>5, <1>6 DEF Next, RunStep

\* Only Phase A writes files, and it writes what the store says.
LEMMA TrueStep == IInv /\ [Next]_vars => PagesAreTrue'
<1> SUFFICES ASSUME IInv, [Next]_vars, NEW s \in Stores \ moved', NEW k \in Pages
             PROVE  archive'[s][k] \in {NoPage, TornPage, Page(s, k)'}
  BY DEF PagesAreTrue
<1> USE DEF IInv, TypeOK, PagesAreTrue, Page
<1>1. CASE archive' = archive /\ world'[s] = world[s] /\ s \notin moved
  BY <1>1
<1>2. CASE PageFetched
  BY <1>2 DEF PageFetched
<1>3. CASE PageTorn
  BY <1>3 DEF PageTorn
<1>4. CASE NewDay
  BY <1>4 DEF NewDay, NoFiles
<1>5. ASSUME NEW t \in Stores, StockMoves(t) 
             PROVE  archive'[s][k] \in {NoPage, TornPage, Page(s, k)'}
  BY <1>5 DEF StockMoves
<1> QED
  BY <1>1, <1>2, <1>3, <1>4, <1>5 DEF Next, RunStep, vars, Start, NextStore, PageFails,
     FetchDone, Persist, RunStops, Restart

\* The pages before the one that is asked for have been written in this run.
LEMMA HereStep == IInv /\ [Next]_vars => ReadUpToHere'
<1> DEFINE There(k) == archive'[at'.store][k] = [kind |-> "page", items |-> world'[at'.store][k]]
<1> SUFFICES ASSUME IInv, [Next]_vars, at' # None, at'.store \notin moved',
                    NEW k \in Pages, k < at'.page
             PROVE  There(k)
  BY DEF ReadUpToHere, Page, None
<1> USE DEF IInv, TypeOK, RunIsAlone
<1>1. CASE /\ at' = at /\ archive' = archive /\ at.store \notin moved
           /\ world'[at.store] = world[at.store]
  BY <1>1 DEF ReadUpToHere, Page
<1>2. ASSUME NEW s \in Stores, NextStore(s) PROVE There(k)
  BY <1>2 DEF NextStore, Pages
<1>3. CASE PageFetched
  <2>1. at.store \in Stores /\ at.page \in Pages
    BY <1>3 DEF PageFetched
  <2>2. at' = [store |-> at.store, page |-> at.page + 1] /\ at.store \notin moved
    BY <1>3 DEF PageFetched
  <2>3. k < at.page \/ k = at.page
    BY <2>1, <2>2 DEF Pages
  <2>4. archive'[at.store][at.page] = Page(at.store, at.page)
    BY <1>3, <2>1 DEF PageFetched, Page
  <2>5. k # at.page => archive'[at.store][k] = archive[at.store][k]
    BY <1>3, <2>1 DEF PageFetched
  <2>6. k < at.page => archive[at.store][k] = Page(at.store, k)
    BY <1>3, <2>2 DEF PageFetched, ReadUpToHere
  <2>7. world' = world
    BY <1>3 DEF PageFetched
  <2>8. archive'[at.store][k] = Page(at.store, k)
    BY <2>1, <2>3, <2>4, <2>5, <2>6 DEF Pages
  <2> QED BY <2>2, <2>7, <2>8 DEF Page
<1>4. CASE NewDay \/ Restart
  BY <1>4 DEF NewDay, Restart, None
<1>5. ASSUME NEW s \in Stores, StockMoves(s) PROVE There(k)
  <2>1. at' = at /\ archive' = archive /\ moved' = moved \cup {s}
    BY <1>5 DEF StockMoves
  <2>2. at.store # s /\ at.store \in Stores
    BY <2>1
  <2>3. world'[at.store] = world[at.store]
    BY <1>5, <2>2 DEF StockMoves
  <2> QED BY <1>1, <2>1, <2>2, <2>3
<1>6. CASE Start
  BY <1>6 DEF Start, None
<1>7. CASE PageFails \/ PageTorn \/ RunStops
  BY <1>7 DEF PageFails, PageTorn, RunStops
<1>8. CASE FetchDone \/ Persist \/ UNCHANGED vars
  BY <1>1, <1>8 DEF FetchDone, Persist, vars
<1> HIDE DEF There
<1> QED
  BY <1>2, <1>3, <1>4, <1>5, <1>6, <1>7, <1>8 DEF Next, RunStep

\* The answer with nothing behind it is the last one, so that a store that was read
\* to it has been read to its end.
LEMMA EndStep == IInv /\ [Next]_vars => ReadToTheEnd'
<1> SUFFICES ASSUME IInv, [Next]_vars, NEW s \in whole' \ moved', NEW k \in Pages
             PROVE  world'[s][k] = Blank \/ archive'[s][k] = Page(s, k)'
  BY DEF ReadToTheEnd
<1> USE DEF IInv, TypeOK, RunIsAlone, ReadToTheEnd, Page
<1>1. CASE s \in whole \ moved /\ archive' = archive /\ world'[s] = world[s]
  BY <1>1
<1>2. CASE PageFetched
  <2>1. at.store \in Stores /\ at.page \in Pages /\ at # None /\ s \in Stores \ moved
    BY <1>2 DEF PageFetched
  <2>2. archive'[at.store][at.page] = Page(at.store, at.page)
    BY <1>2, <2>1 DEF PageFetched
  <2>3. \A t \in Stores, j \in Pages :
          t # at.store \/ j # at.page => archive'[t][j] = archive[t][j]
    BY <1>2, <2>1 DEF PageFetched
  <2>4. world' = world
    BY <1>2 DEF PageFetched
  <2>5. CASE s \in whole
    BY <2>1, <2>2, <2>3, <2>4, <2>5
  <2>6. CASE s \notin whole
    <3>1. s = at.store /\ LastPage(s, at.page)
      BY <1>2, <2>6 DEF PageFetched
    <3>2. CASE k < at.page
      <4>1. archive[s][k] = Page(s, k)
        BY <2>1, <3>1, <3>2 DEF ReadUpToHere
      <4>2. k # at.page
        BY <2>1, <3>2 DEF Pages
      <4>3. archive'[s][k] = archive[s][k]
        BY <2>1, <2>3, <4>2
      <4> QED BY <2>4, <4>1, <4>3
    <3>3. CASE k = at.page
      BY <2>2, <2>4, <3>1, <3>3
    <3>4. CASE k > at.page
      <4>1. world[s] \in Shelves[s] /\ k \in Pages /\ at.page \in Pages /\ at.page < k
        BY <2>1, <3>4 DEF Pages
      <4>2. at.page # NPages /\ at.page + 1 \in Pages /\ (at.page + 1 < k \/ at.page + 1 = k)
        BY <4>1 DEF Pages
      <4>3. world[s][at.page] = Blank \/ world[s][at.page + 1] = Blank
        BY <3>1, <4>2 DEF LastPage
      <4> QED BY <2>1, <2>4, <4>1, <4>2, <4>3
    <3> QED BY <2>1, <3>2, <3>3, <3>4 DEF Pages
  <2> QED BY <2>5, <2>6
<1>3. ASSUME NEW t \in Stores, StockMoves(t)
      PROVE  world'[s][k] = Blank \/ archive'[s][k] = Page(s, k)'
  BY <1>3, <1>1 DEF StockMoves
<1> QED
  BY <1>1, <1>2, <1>3 DEF Next, RunStep, vars, Start, NextStore, PageFails, PageTorn,
     FetchDone, Persist, RunStops, NewDay, Restart

-------------------------------------------------------------------------------
(* Theorems *)

\* The invariant, to begin with.
LEMMA InvInit == Init => IInv
<1> SUFFICES ASSUME Init PROVE IInv
  OBVIOUS
<1>1. TypeOK
  BY TypeInit
<1>2. RunIsAlone /\ PagesAreTrue /\ ReadUpToHere /\ ReadToTheEnd
  BY DEF Init, RunIsAlone, PagesAreTrue, ReadUpToHere, ReadToTheEnd, NoFiles
<1> QED BY <1>1, <1>2 DEF IInv

\* The invariant, from step to step.
LEMMA InvStep == IInv /\ [Next]_vars => IInv'
BY TypeStep, AloneStep, TrueStep, HereStep, EndStep DEF IInv

\* The four parts hold together at all times.
THEOREM Invariant == Spec => []IInv
BY InvInit, InvStep, PTL DEF Spec

\* Every variable keeps its type.
THEOREM TypeCorrect == Spec => []TypeOK
BY Invariant, PTL DEF IInv

\* stock_history ends where stock stands, whatever pages _persist_stock reads.
THEOREM HistoryEnds == Spec => []HistoryEndsAtRow
<1>1. Init => HistoryEndsAtRow
  BY DEF Init, HistoryEndsAtRow, Blank
<1>2. TypeOK /\ HistoryEndsAtRow /\ [Next]_vars => HistoryEndsAtRow'
  <2> SUFFICES ASSUME TypeOK, HistoryEndsAtRow, [Next]_vars PROVE HistoryEndsAtRow'
    OBVIOUS
  <2>1. CASE UNCHANGED <<stock, told>>
    BY <2>1 DEF HistoryEndsAtRow
  <2>2. CASE Persist
    <3> SUFFICES ASSUME NEW s \in Stores, NEW p \in Products
                 PROVE  told'[s][p] = (IF stock'[s][p] = Off /\ told'[s][p] # Off
                                       THEN Sold ELSE stock'[s][p])
      BY DEF HistoryEndsAtRow
    <3>1. CASE p \in Removed(s)
      BY <2>2, <3>1 DEF Persist
    <3>2. CASE p \in Present(s) \ Removed(s)
      BY <2>2, <3>2 DEF Persist, Upserted, Logged
    <3>3. CASE p \notin Present(s) \cup Removed(s)
      BY <2>2, <3>3 DEF Persist, HistoryEndsAtRow
    <3> QED BY <3>1, <3>2, <3>3
  <2> QED BY <2>1, <2>2 DEF Next, RunStep, vars, Start, NextStore, PageFetched, PageFails,
          PageTorn, FetchDone, RunStops, NewDay, Restart, StockMoves
<1> QED BY <1>1, <1>2, TypeCorrect, PTL DEF Spec

\* What one Phase B does of one such store and one product.
LEMMA MirrorStep ==
  ASSUME IInv, Persist, NEW s \in (whole \cap home) \ moved, world[s][1] # Blank,
         NEW p \in Products
  PROVE  {stock'[s][p]} \ {Off} = {world[s][k][p] : k \in Pages} \ {Off}
<1> USE DEF IInv, TypeOK
<1>1. s \in Stores /\ 1 \in Pages /\ world[s] \in Shelves[s]
      /\ world[s] \in [Pages -> Listings]
  BY DEF Pages
<1>2. ASSUME NEW q \in Products, NEW k \in Pages
      PROVE  archive[s][k].items[q] # Off <=> world[s][k][q] # Off
  <2>1. CASE archive[s][k] = Page(s, k)
    BY <2>1 DEF Page
  <2>2. CASE archive[s][k] # Page(s, k)
    <3>1. world[s][k] = Blank
      BY <2>2 DEF ReadToTheEnd
    <3>2. archive[s][k] \in {NoPage, TornPage}
      BY <1>1, <2>2 DEF PagesAreTrue
    <3> QED BY <3>1, <3>2, ConstantTypes DEF Blank
  <2> QED BY <2>1, <2>2
<1>3. \A q \in Products : Listing(s, q) = {k \in Pages : world[s][k][q] # Off}
  BY <1>2 DEF Listing
<1>4. Present(s) # {}
  <2>1. PICK q \in Products : world[s][1][q] # Off
    BY <1>1 DEF Listings, Blank
  <2> QED BY <1>1, <1>3, <2>1 DEF Present
<1>5. stock'[s][p] = IF p \in Removed(s) THEN Off
                     ELSE IF p \in Present(s) THEN First(s, p) ELSE stock[s][p]
  BY <1>1 DEF Persist, Upserted
<1>6. CASE Listing(s, p) = {}
  <2>1. stock'[s][p] = Off
    BY <1>4, <1>5, <1>6 DEF Present, Removed
  <2>2. \A k \in Pages : world[s][k][p] = Off
    BY <1>3, <1>6
  <2> QED BY <2>1, <2>2
<1>7. CASE Listing(s, p) # {}
  <2>1. PICK k \in Listing(s, p) : First(s, p) = archive[s][k].items[p]
    BY <1>1, <1>7, FirstIsListed
  <2>2. k \in Pages /\ world[s][k][p] # Off
    BY <1>3, <2>1
  <2>3. archive[s][k] = Page(s, k)
    BY <2>2 DEF ReadToTheEnd, Blank
  <2>4. stock'[s][p] = world[s][k][p]
    BY <1>5, <1>7, <2>1, <2>3 DEF Present, Removed, Page
  <2>5. \A j \in Pages : j # k => world[s][j][p] = Off
    BY <1>1, <2>2
  <2> QED BY <2>2, <2>4, <2>5
<1> QED BY <1>6, <1>7

\* A store that stands still since the day began and was fetched to its last page is
\* what the table says after Phase B (fetch.py's loop, the archive, _persist_stock).
THEOREM StoresMirrored == Spec => WholeStoreIsMirrored
<1>1. IInv /\ [Next]_vars =>
        [Persist => \A s \in (whole \cap home) \ moved :
           \/ world[s][1] = Blank
           \/ \A p \in Products :
                {stock'[s][p]} \ {Off} = {world[s][k][p] : k \in Pages} \ {Off}]_vars
  BY MirrorStep
<1> QED BY <1>1, Invariant, PTL DEF Spec, WholeStoreIsMirrored
===============================================================================
