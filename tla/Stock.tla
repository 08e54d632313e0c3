-------------------------------- MODULE Stock ---------------------------------
(***************************************************************************)
(* The stock of the home stores, one sync run after another: Phase A asks  *)
(* for it page by page, store by store, and archives the answers; Phase B  *)
(* reads back whatever today's directory holds and brings the tables stock *)
(* and stock_history up to date (sync/phases/fetch.py and persist.py,      *)
(* raw_archive/).                                                          *)
(*                                                                         *)
(* The catalogue is Catalog.tla's business: a run gets past it or stops.   *)
(* Runs do not overlap (SyncLock.tla) and may stop anywhere.  A page is    *)
(* written in place, so that a run that dies while it writes leaves a file *)
(* nobody can read.                                                        *)
(***************************************************************************)
EXTENDS Integers

CONSTANTS
  Stores,
  HomeChoices,  \* what SB_STORE_SUBSET may say: sets of stores
  Products,
  Levels,       \* what an item says: stock, shelf and is_in_assortment
  Off,          \* not listed, no row
  Sold,         \* the history row of a deleted row: 0, NULL, FALSE
  NPages,       \* bound: pages of a store; the code's PAGE_CAP is above it
  Shelves,      \* what each store may list: pages, each a function of products
  MaxTears      \* bound: files that a dying run leaves half-written

ASSUME HomesAssumption  == HomeChoices # {} /\ HomeChoices \subseteq SUBSET Stores
ASSUME OffAssumption    == Off \notin Levels /\ Sold \notin Levels /\ Off # Sold
ASSUME NPagesAssumption == NPages \in Nat \ {0} /\ MaxTears \in Nat

VARIABLES
  world,   \* what the API would answer for each store
  moved,   \* history: stores whose listing has changed since today's directory began
  archive, \* today's directory: an answer, Absent or Torn for each store and page
  home,    \* settings.store_subset of the running process
  pc,      \* where the run is
  left,    \* home stores Phase A has not begun
  at,      \* the store and page it asks for next, None when it does not ask
  whole,   \* history: stores that this run has fetched to the last page
  stock,   \* the table: a level for each store and product, or Off
  told,    \* the last row of stock_history for each store and product, or Off
  tears    \* history: how many files were left torn

vars == <<world, moved, archive, home, pc, left, at, whole, stock, told, tears>>

Pages    == 1 .. NPages
Listings == [Products -> Levels \cup {Off}]
Blank    == [p \in Products |-> Off]
NoPage   == [kind |-> "absent", items |-> Blank]
TornPage == [kind |-> "torn", items |-> Blank]
Files    == [kind : {"page"}, items : Listings] \cup {NoPage, TornPage}
None     == [store |-> Off, page |-> 0]
NoFiles  == [s \in Stores |-> [k \in Pages |-> NoPage]]

\* A listing fills its pages from the first on, and has a product on one of them.
ASSUME ShelvesAssumption ==
  /\ Shelves \in [Stores -> SUBSET [Pages -> Listings]]
  /\ \A s \in Stores : \A w \in Shelves[s] : \A j, k \in Pages :
       /\ j < k /\ w[j] = Blank => w[k] = Blank
       /\ j # k => \A p \in Products : Off \in {w[j][p], w[k][p]}

TypeOK ==
  /\ world \in [Stores -> [Pages -> Listings]]
  /\ \A s \in Stores : world[s] \in Shelves[s]
  /\ moved \in SUBSET Stores
  /\ archive \in [Stores -> [Pages -> Files]]
  /\ home \in HomeChoices
  /\ pc \in {"idle", "fetch", "persist"}
  /\ left \in SUBSET home
  /\ at \in [store : home, page : Pages] \cup {None}
  /\ whole \in SUBSET home
  /\ stock \in [Stores -> Listings]
  /\ told \in [Stores -> [Products -> Levels \cup {Off, Sold}]]
  /\ tears \in 0 .. MaxTears

Init ==
  /\ world \in {w \in [Stores -> UNION {Shelves[s] : s \in Stores}] :
                 \A s \in Stores : w[s] \in Shelves[s]}
  /\ moved = {}
  /\ archive = NoFiles
  /\ home \in HomeChoices
  /\ pc = "idle"
  /\ left = {}
  /\ at = None
  /\ whole = {}
  /\ stock = [s \in Stores |-> Blank]
  /\ told = [s \in Stores |-> Blank]
  /\ tears = 0

-------------------------------------------------------------------------------
(* Phase A: step 4, the stock *)

\* The run is past stores, taxonomy and catalogue.
Start ==
  /\ pc = "idle"
  /\ pc' = "fetch"
  /\ left' = home
  /\ whole' = {}
  /\ UNCHANGED <<world, moved, archive, home, at, stock, told, tears>>

NextStore(s) ==
  /\ pc = "fetch"
  /\ at = None
  /\ s \in left
  /\ left' = left \ {s}
  /\ at' = [store |-> s, page |-> 1]
  /\ UNCHANGED <<world, moved, archive, home, pc, whole, stock, told, tears>>

\* nextPage is -1, or the page is empty.
LastPage(s, k) ==
  \/ world[s][k] = Blank
  \/ k = NPages
  \/ world[s][k + 1] = Blank

\* One answer, archived over what an earlier run of the day has left under its name.
PageFetched ==
  /\ at # None
  /\ LET s == at.store
         k == at.page
     IN  /\ archive' = [archive EXCEPT ![s][k] = [kind |-> "page", items |-> world[s][k]]]
         /\ IF LastPage(s, k)
            THEN at' = None /\ whole' = whole \cup {s}
            ELSE at' = [store |-> s, page |-> k + 1] /\ UNCHANGED whole
  /\ UNCHANGED <<world, moved, home, pc, left, stock, told, tears>>

\* An API error ends this store; the phase is partial.
PageFails ==
  /\ at # None
  /\ at' = None
  /\ UNCHANGED <<world, moved, archive, home, pc, left, whole, stock, told, tears>>

\* The process dies, or the disk is full, while a page is written.
PageTorn ==
  /\ at # None
  /\ tears < MaxTears
  /\ archive' = [archive EXCEPT ![at.store][at.page] = TornPage]
  /\ tears' = tears + 1
  /\ pc' = "idle"
  /\ left' = {}
  /\ at' = None
  /\ whole' = {}
  /\ UNCHANGED <<world, moved, home, stock, told>>

FetchDone ==
  /\ pc = "fetch"
  /\ at = None
  /\ left = {}
  /\ pc' = "persist"
  /\ UNCHANGED <<world, moved, archive, home, left, at, whole, stock, told, tears>>

-------------------------------------------------------------------------------
(* Phase B: _persist_stock *)

\* The pages of today's directory that list a product at a store.
Listing(s, p) == {k \in Pages : archive[s][k].items[p] # Off}

\* Items are taken in the order of the pages' names; "seen" skips the later ones.
First(s, p) ==
  IF Listing(s, p) = {} THEN Off
  ELSE archive[s][CHOOSE k \in Listing(s, p) : \A j \in Listing(s, p) : k <= j].items[p]

Last(s, p) ==
  IF Listing(s, p) = {} THEN Off
  ELSE archive[s][CHOOSE k \in Listing(s, p) : \A j \in Listing(s, p) : j <= k].items[p]

\* Mutant: without "seen", the row is overwritten by the next page that lists it.
UpsertedUnseen(s, p) == Last(s, p)

\* What the row becomes.
Upserted(s, p) == First(s, p)

\* INSERT OR IGNORE, and one time for the whole run: the first item is what stays.
Logged(s, p) == First(s, p)

Present(s) == {p \in Products : Listing(s, p) # {}}

\* Mutant: what is not on the first page is not there.
RemovedByFirstPage(s) ==
  IF s \notin home \/ Present(s) = {} THEN {}
  ELSE {p \in Products : stock[s][p] # Off /\ 1 \notin Listing(s, p)}

\* The rows of a home store that no page of today has.  A store without any item
\* is taken for a store that was not fetched.
Removed(s) ==
  IF s \notin home \/ Present(s) = {} THEN {}
  ELSE {p \in Products \ Present(s) : stock[s][p] # Off}

Readable == \A s \in Stores : \A k \in Pages : archive[s][k] # TornPage

\* One transaction.  It reads the answers of stores that were home when they came.
Persist ==
  /\ pc = "persist"
  /\ Readable
  /\ stock' = [s \in Stores |-> [p \in Products |->
                 IF p \in Removed(s) THEN Off
                 ELSE IF p \in Present(s) THEN Upserted(s, p) ELSE stock[s][p]]]
  /\ told' = [s \in Stores |-> [p \in Products |->
                IF p \in Removed(s) THEN Sold
                ELSE IF p \in Present(s) THEN Logged(s, p) ELSE told[s][p]]]
  /\ pc' = "idle"
  /\ whole' = {}
  /\ UNCHANGED <<world, moved, archive, home, left, at, tears>>

-------------------------------------------------------------------------------
(* The run is cut short, the day ends, shops sell *)

\* A crash, an abort or an escaping exception; a page Phase B cannot read is one.
RunStops ==
  /\ pc # "idle"
  /\ pc' = "idle"
  /\ left' = {}
  /\ at' = None
  /\ whole' = {}
  /\ UNCHANGED <<world, moved, archive, home, stock, told, tears>>

\* A new day has a directory of its own.
NewDay ==
  /\ pc = "idle"
  /\ archive' = NoFiles
  /\ moved' = {}
  /\ UNCHANGED <<world, home, pc, left, at, whole, stock, told, tears>>

\* The process is started again with other settings.
Restart ==
  /\ pc = "idle"
  /\ home' \in HomeChoices
  /\ UNCHANGED <<world, moved, archive, pc, left, at, whole, stock, told, tears>>

\* A store's listing changes, at any time.
StockMoves(s) ==
  /\ world' \in {[world EXCEPT ![s] = w] : w \in Shelves[s]}
  /\ moved' = moved \cup {s}
  /\ UNCHANGED <<archive, home, pc, left, at, whole, stock, told, tears>>

RunStep ==
  \/ \E s \in Stores : NextStore(s)
  \/ PageFetched \/ PageFails \/ PageTorn \/ FetchDone \/ Persist \/ RunStops

Next == Start \/ RunStep \/ NewDay \/ Restart \/ \E s \in Stores : StockMoves(s)

Spec == Init /\ [][Next]_vars

-------------------------------------------------------------------------------
(* Properties *)

\* stock_history ends where stock stands: the last row for a store and a product
\* is the row itself, or says that it was deleted.  Neither a product on two pages
\* (the list has moved while it was read, or an older page of the day is left) nor
\* a store that leaves the subset and comes back makes them differ.
HistoryEndsAtRow ==
  \A s \in Stores : \A p \in Products :
    told[s][p] = (IF stock[s][p] = Off /\ told[s][p] # Off THEN Sold ELSE stock[s][p])

\* A run that has fetched a home store to its last page, and whose stock has not
\* moved since the day began, leaves the table an image of the store: no row too
\* many, none missing, none old, whatever earlier runs of the day left behind.
\* Only of a store without a single item it keeps everything.
WholeStoreIsMirrored ==
  [][Persist =>
       \A s \in (whole \cap home) \ moved :
         \/ world[s][1] = Blank
         \/ \A p \in Products :
              {stock'[s][p]} \ {Off} = {world[s][k][p] : k \in Pages} \ {Off}]_vars
===============================================================================
