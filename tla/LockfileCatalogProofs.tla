------------------------ MODULE LockfileCatalogProofs -------------------------
(***************************************************************************)
(* Proofs about Lockfile and about Catalog, one after the other.  They     *)
(* stand together because the second takes for granted what the first      *)
(* shows: that sync runs do not overlap.                                   *)
(*                                                                         *)
(* Lockfile, for any set of processes, any staleness threshold and any     *)
(* number of crashes: under the two conditions of OrderlySpec the lockfile *)
(* does keep sync runs apart.                                              *)
(*                                                                         *)
(* Catalog, for any products, values and number of pages: what Phase B     *)
(* makes of the pages it reads, that product_history explains the table,   *)
(* and that only a dropped product is marked as discontinued.              *)
(***************************************************************************)
EXTENDS Lockfile, Catalog, FiniteSetTheorems, TLAPS

USE NoPidAssumption, StaleAfterAssumption, MaxCrashesAssumption

-------------------------------------------------------------------------------
(* Lockfile: the inductive invariant *)

\* At most one process is on its way through acquire.
OneAcquirer ==
  \A p, q \in Procs : pc[p] \in Acquiring /\ pc[q] \in Acquiring => p = q

\* A process that has decided to write finds no run in progress.
WriterIsAlone ==
  \A p, q \in Procs : pc[p] \in {"open", "write"} => pc[q] \notin Inside

\* A process about to decide holds the record of the run in progress, if any.
DeciderSawRunner ==
  \A p, q \in Procs :
    pc[p] = "decide" /\ pc[q] \in Inside => seen[p].pid = q /\ seen[p].age = mine[q]

\* No run in progress is old enough to be taken over.
RunnersAreYoung ==
  \A p \in Procs : pc[p] \in {"write"} \cup Inside => mine[p] < StaleAfter

IInv ==
  /\ TypeOK
  /\ MutualExclusion
  /\ RunnerOwnsFile
  /\ OneAcquirer
  /\ WriterIsAlone
  /\ DeciderSawRunner
  /\ RunnersAreYoung

-------------------------------------------------------------------------------
(* Lockfile: types *)

\* Ageing stays within the range of ages.
LEMMA OlderType == ASSUME NEW a \in Ages PROVE Older(a) \in Ages
BY DEF Ages, Older

LEMMA ConstantContents ==
  /\ Absent \in Contents
  /\ Empty \in Contents
  /\ \A p \in Procs, a \in Ages : Held(p, a) \in Contents
BY DEF Absent, Empty, Held, Contents, Ages

\* Every step, orderly or not, keeps the variables within their types.
LEMMA TypeStep == TypeOK /\ [Next]_vars => TypeOK'
<1> SUFFICES ASSUME TypeOK, [Next]_vars PROVE TypeOK'
  OBVIOUS
<1> USE DEF TypeOK
<1>1. CASE UNCHANGED vars
  BY <1>1 DEF vars
<1>2. CASE Tick
  <2>1. file' \in Contents
    <3>1. file.age \in Ages /\ file.state \in {"absent", "empty", "held"}
          /\ file.pid \in Procs \cup {NoPid}
      BY DEF Contents
    <3>2. (IF file.state = "held" THEN Older(file.age) ELSE file.age) \in Ages
      BY <3>1, OlderType
    <3> QED BY <1>2, <3>1, <3>2 DEF Tick, Contents
  <2>2. \A p \in Procs : [seen[p] EXCEPT !.age = Older(@)] \in Contents
    <3> SUFFICES ASSUME NEW p \in Procs
                 PROVE  [seen[p] EXCEPT !.age = Older(@)] \in Contents
      OBVIOUS
    <3>1. seen[p] \in Contents /\ seen[p].age \in Ages
      BY DEF Contents
    <3>2. Older(seen[p].age) \in Ages
      BY <3>1, OlderType
    <3> QED BY <3>1, <3>2 DEF Contents
  <2>3. seen' \in [Procs -> Contents]
    BY <1>2, <2>2 DEF Tick
  <2>4. mine' \in [Procs -> Ages]
    BY <1>2, OlderType DEF Tick
  <2> QED BY <1>2, <2>1, <2>3, <2>4 DEF Tick
<1>3. ASSUME NEW p \in Procs, Step(p) PROVE TypeOK'
  <2>1. 0 \in Ages
    BY DEF Ages
  <2> USE DEF Goto, Forget, PCs, Acquiring, Inside, Releasing
  <2>2. CASE AcqExists(p)  BY <2>2 DEF AcqExists
  <2>3. CASE AcqRead(p)    BY <2>3, ConstantContents DEF AcqRead
  <2>4. CASE AcqDecide(p)  BY <2>1, <2>4, ConstantContents DEF AcqDecide
  <2>5. CASE AcqOpen(p)    BY <2>1, <2>5, ConstantContents DEF AcqOpen
  <2>6. CASE AcqWrite(p)   BY <2>6, ConstantContents DEF AcqWrite
  <2>7. CASE RunEnds(p)    BY <2>7 DEF RunEnds
  <2>8. CASE RelExists(p)  BY <2>1, <2>8, ConstantContents DEF RelExists
  <2>9. CASE RelRead(p)    BY <2>1, <2>9, ConstantContents DEF RelRead
  <2>10. CASE RelUnlink(p) BY <2>1, <2>10, ConstantContents DEF RelUnlink
  <2>11. CASE Crash(p)     BY <2>1, <2>11, ConstantContents DEF Crash
  <2>12. CASE Restart(p)   BY <2>12 DEF Restart
  <2> QED
    BY <1>3, <2>2, <2>3, <2>4, <2>5, <2>6, <2>7, <2>8, <2>9, <2>10, <2>11, <2>12
       DEF Step, Acquire, Release
<1> QED BY <1>1, <1>2, <1>3 DEF Next

\* Dropping the two conditions only adds behaviours.
LEMMA OrderlyIsNext == [OrderlyNext]_vars => [Next]_vars
BY DEF OrderlyNext, OrderlyTick, OrderlyStep, Next

LEMMA InitType == Init => TypeOK
BY ConstantContents DEF Init, TypeOK, PCs, Ages

-------------------------------------------------------------------------------
(* Lockfile: the invariant is inductive *)

\* Time passing: the record in the file, the copy a decider holds and the
\* runner's own age grow together, and no runner gets too old.
LEMMA TickStep == ASSUME IInv, TypeOK', OrderlyTick PROVE IInv'
<1> USE DEF IInv, OrderlyTick, Tick
<1>1. UNCHANGED pc
  OBVIOUS
<1>2. \A p \in Procs : pc[p] \in {"write"} \cup Inside =>
         mine'[p] = Older(mine[p]) /\ mine'[p] < StaleAfter
  BY DEF TypeOK, RunsAreShort, Older, Ages
<1>3. MutualExclusion' /\ OneAcquirer' /\ WriterIsAlone'
  BY <1>1 DEF MutualExclusion, OneAcquirer, WriterIsAlone
<1>4. RunnersAreYoung'
  BY <1>1, <1>2 DEF RunnersAreYoung
<1>5. RunnerOwnsFile'
  <2> SUFFICES ASSUME NEW p \in Procs, pc[p] \in Inside
               PROVE  file'.state = "held" /\ file'.pid = p /\ file'.age = mine'[p]
    BY <1>1 DEF RunnerOwnsFile
  <2>1. file.state = "held" /\ file.pid = p /\ file.age = mine[p]
    BY DEF RunnerOwnsFile
  <2> QED BY <1>2, <2>1 DEF TypeOK, Contents
<1>6. DeciderSawRunner'
  <2> SUFFICES ASSUME NEW p \in Procs, NEW q \in Procs,
                      pc[p] = "decide", pc[q] \in Inside
               PROVE  seen'[p].pid = q /\ seen'[p].age = mine'[q]
    BY <1>1 DEF DeciderSawRunner
  <2>1. seen[p].pid = q /\ seen[p].age = mine[q] /\ seen[p] \in Contents
    BY DEF DeciderSawRunner, TypeOK
  <2>2. seen'[p] = [seen[p] EXCEPT !.age = Older(@)]
    OBVIOUS
  <2> QED BY <1>2, <2>1, <2>2 DEF Contents
<1> QED BY <1>3, <1>4, <1>5, <1>6

\* The steps of acquire.
LEMMA AcquireStep ==
  ASSUME IInv, TypeOK', NEW p \in Procs, Acquire(p),
         AcqExists(p) => AlonePastExists(p)
  PROVE  IInv'
<1> USE DEF IInv, TypeOK, Goto, Acquiring, Inside, Releasing, MutualExclusion,
            RunnerOwnsFile, OneAcquirer, WriterIsAlone, DeciderSawRunner,
            RunnersAreYoung
<1>1. CASE AcqExists(p)
  <2>1. file.state = "absent" => \A q \in Procs : pc[q] \notin Inside
    OBVIOUS
  <2> QED BY <1>1, <2>1 DEF AcqExists, AlonePastExists
<1>2. CASE AcqRead(p)
  <2>1. file.state # "held" => \A q \in Procs : pc[q] \notin Inside
    OBVIOUS
  <2> QED BY <1>2, <2>1 DEF AcqRead
<1>3. CASE AcqDecide(p)
  <2>1. ASSUME NEW q \in Procs, pc[q] \in Inside PROVE Busy(seen[p])
    BY <1>3, <2>1 DEF AcqDecide, Busy, PidAlive
  <2> QED BY <1>3, <2>1 DEF AcqDecide, Forget
<1>4. CASE AcqOpen(p)
  BY <1>4 DEF AcqOpen
<1>5. CASE AcqWrite(p)
  BY <1>5 DEF AcqWrite, Held
<1> QED BY <1>1, <1>2, <1>3, <1>4, <1>5 DEF Acquire

\* The end of a run, the steps of release, and a process dying or returning.
LEMMA ReleaseStep ==
  ASSUME IInv, TypeOK', NEW p \in Procs, Release(p) \/ Crash(p) \/ Restart(p)
  PROVE  IInv'
<1> USE DEF IInv, TypeOK, Goto, Forget, Acquiring, Inside, Releasing,
            MutualExclusion, RunnerOwnsFile, OneAcquirer, WriterIsAlone,
            DeciderSawRunner, RunnersAreYoung
<1>1. CASE RunEnds(p)   BY <1>1 DEF RunEnds
<1>2. CASE RelExists(p) BY <1>2 DEF RelExists
<1>3. CASE RelRead(p)   BY <1>3 DEF RelRead
<1>4. CASE RelUnlink(p) BY <1>4 DEF RelUnlink
<1>5. CASE Crash(p)     BY <1>5 DEF Crash
<1>6. CASE Restart(p)   BY <1>6 DEF Restart
<1> QED BY <1>1, <1>2, <1>3, <1>4, <1>5, <1>6 DEF Release

\* IInv holds initially and every orderly step keeps it.
LEMMA IInvInit == Init => IInv
BY InitType
   DEF Init, IInv, MutualExclusion, RunnerOwnsFile, OneAcquirer, WriterIsAlone,
       DeciderSawRunner, RunnersAreYoung, Acquiring, Inside, Releasing

LEMMA IInvStep == IInv /\ [OrderlyNext]_vars => IInv'
<1> SUFFICES ASSUME IInv, [OrderlyNext]_vars PROVE IInv'
  OBVIOUS
<1>1. TypeOK'
  BY TypeStep, OrderlyIsNext DEF IInv
<1>2. CASE UNCHANGED vars
  BY <1>2 DEF vars, IInv, TypeOK, MutualExclusion, RunnerOwnsFile, OneAcquirer,
              WriterIsAlone, DeciderSawRunner, RunnersAreYoung
<1>3. CASE OrderlyTick
  BY <1>1, <1>3, TickStep
<1>4. ASSUME NEW p \in Procs, OrderlyStep(p) PROVE IInv'
  BY <1>1, <1>4, AcquireStep, ReleaseStep DEF OrderlyStep, Step
<1> QED BY <1>2, <1>3, <1>4 DEF OrderlyNext

-------------------------------------------------------------------------------
(* Lockfile: the theorems *)

\* With no condition at all the variables keep their types.
THEOREM TypeCorrect == Spec => []TypeOK
BY InitType, TypeStep, PTL DEF Spec

\* The inductive invariant holds throughout.
THEOREM OrderlyInvariant == OrderlySpec => []IInv
BY IInvInit, IInvStep, PTL DEF OrderlySpec

\* Two sync runs never overlap, as long as acquires do not overlap and no run
\* lasts StaleAfter.
THEOREM OrderlyMutualExclusion == OrderlySpec => []MutualExclusion
<1>1. IInv => MutualExclusion
  BY DEF IInv
<1> QED BY <1>1, OrderlyInvariant, PTL

\* The file names the run in progress from its first to its last step.
THEOREM OrderlyOwnership == OrderlySpec => []RunnerOwnsFile
<1>1. IInv => RunnerOwnsFile
  BY DEF IInv
<1> QED BY <1>1, OrderlyInvariant, PTL

\* release removes no lock but its own.
THEOREM OrderlyUnlink == OrderlySpec => UnlinksOnlyItsOwn
<1>1. IInv /\ [OrderlyNext]_vars =>
        [\A p \in Procs : RelUnlink(p) /\ file.state # "absent" => file.pid = p]_vars
  BY DEF IInv, RunnerOwnsFile, RelUnlink, Inside, Releasing
<1>2. OrderlySpec => [][OrderlyNext]_vars
  BY PTL DEF OrderlySpec
<1> QED BY <1>1, <1>2, OrderlyInvariant, PTL DEF UnlinksOnlyItsOwn

-------------------------------------------------------------------------------
(* Lockfile: the file implements the lock *)

\* The processes in the locked region.
InRegion == {p \in Procs : pc[p] \in Inside}

\* A process changing only its own place moves at most itself in or out.
LEMMA OneMoves ==
  ASSUME TypeOK, NEW p \in Procs, NEW to, Goto(p, to)
  PROVE  /\ to \in Inside => InRegion' = InRegion \cup {p}
         /\ to \notin Inside => InRegion' = InRegion \ {p}
BY DEF TypeOK, Goto, InRegion, Inside, Releasing

\* Every orderly step is a step of the abstract lock or leaves it alone: only
\* the write lets a process in, and it finds nobody there.
LEMMA LockStep ==
  ASSUME IInv, [OrderlyNext]_vars
  PROVE  [\E p \in Procs : \/ InRegion = {} /\ InRegion' = {p}
                           \/ p \in InRegion /\ InRegion' = InRegion \ {p}]_InRegion
<1> DEFINE Moves(p) == \/ InRegion = {} /\ InRegion' = {p}
                       \/ p \in InRegion /\ InRegion' = InRegion \ {p}
<1> USE DEF IInv
<1>1. CASE UNCHANGED vars
  BY <1>1 DEF vars, InRegion
<1>2. CASE OrderlyTick
  BY <1>2 DEF OrderlyTick, Tick, InRegion
<1>3. ASSUME NEW p \in Procs, Step(p) PROVE Moves(p) \/ InRegion' = InRegion
  <2>1. p \in InRegion <=> pc[p] \in Inside
    BY DEF InRegion
  <2>2. CASE AcqWrite(p)
    <3>1. InRegion = {}
      BY <2>2 DEF AcqWrite, WriterIsAlone, InRegion
    <3>2. InRegion' = InRegion \cup {p}
      BY <2>2, OneMoves DEF AcqWrite, Inside
    <3> QED BY <3>1, <3>2
  <2>3. ASSUME NEW to, Goto(p, to), to \notin Inside \/ pc[p] \in Inside
        PROVE  Moves(p) \/ InRegion' = InRegion
    BY <2>1, <2>3, OneMoves
  <2> USE DEF Inside, Releasing
  <2>4. CASE AcqExists(p)  BY <2>3, <2>4 DEF AcqExists
  <2>5. CASE AcqRead(p)    BY <2>3, <2>5 DEF AcqRead
  <2>6. CASE AcqDecide(p)  BY <2>3, <2>6 DEF AcqDecide
  <2>7. CASE AcqOpen(p)    BY <2>3, <2>7 DEF AcqOpen
  <2>8. CASE RunEnds(p)    BY <2>3, <2>8 DEF RunEnds
  <2>9. CASE RelExists(p)  BY <2>3, <2>9 DEF RelExists
  <2>10. CASE RelRead(p)   BY <2>3, <2>10 DEF RelRead
  <2>11. CASE RelUnlink(p) BY <2>3, <2>11 DEF RelUnlink
  <2>12. CASE Crash(p)     BY <2>3, <2>12 DEF Crash
  <2>13. CASE Restart(p)   BY <2>3, <2>13 DEF Restart
  <2> QED
    BY <1>3, <2>2, <2>4, <2>5, <2>6, <2>7, <2>8, <2>9, <2>10, <2>11, <2>12, <2>13
       DEF Step, Acquire, Release
<1> QED
  BY <1>1, <1>2, <1>3 DEF OrderlyNext, OrderlyStep

\* Under the two conditions the file behaves as the lock run_sync relies on.
THEOREM OrderlyImplementsLock == OrderlySpec => ImplementsSyncLock
<1>1. Init => Lock!Init
  BY DEF Init, Lock!Init, Inside, Releasing
<1>2. IInv /\ [OrderlyNext]_vars => [Lock!Next]_({p \in Procs : pc[p] \in Inside})
  BY LockStep DEF InRegion, Lock!Next, Lock!Enter, Lock!Leave
<1>3. OrderlySpec => Init /\ [][OrderlyNext]_vars
  BY PTL DEF OrderlySpec
<1> QED BY <1>1, <1>2, <1>3, OrderlyInvariant, PTL DEF ImplementsSyncLock, Lock!Spec

-------------------------------------------------------------------------------
(* Catalog: the least and the greatest of a set of page numbers *)

\* A set of numbers that is not empty has a least member.  The intervals 0 .. n are
\* finite sets, so the library's well-founded order on these does for an induction
\* over numbers.
LEMMA Least ==
  ASSUME NEW T \in SUBSET Nat, T # {}
  PROVE  \E m \in T : \A k \in T : m <= k
<1> DEFINE F == {0 .. n : n \in T}
           R == StrictSubsetOrdering(Nat)
<1>1. \A n \in T : 0 .. n \in FiniteSubsetsOf(Nat)
  BY FS_Interval DEF FiniteSubsetsOf
<1>2. F \subseteq FiniteSubsetsOf(Nat) /\ F # {}
  BY <1>1
<1>3. \E x \in F : \A y \in F : ~ (<<y, x>> \in R)
  BY <1>2, FS_StrictSubsetOrderingWellFounded, WFMin
<1>4. PICK m \in T : \A k \in T : ~ (<<0 .. k, 0 .. m>> \in R)
  BY <1>3
<1>5. ASSUME NEW k \in T, k < m PROVE FALSE
  <2>1. 0 .. k \in SUBSET Nat /\ 0 .. m \in SUBSET Nat
    OBVIOUS
  <2>2. 0 .. k \subseteq 0 .. m /\ m \in 0 .. m /\ m \notin 0 .. k
    BY <1>5
  <2>3. <<0 .. k, 0 .. m>> \in R
    BY <2>1, <2>2, Zenon DEF StrictSubsetOrdering
  <2> QED BY <1>4, <2>3
<1> QED BY <1>5

\* A set of numbers up to n that is not empty has a greatest member.
LEMMA Greatest ==
  ASSUME NEW n \in Nat, NEW T \in SUBSET (1 .. n), T # {}
  PROVE  \E m \in T : \A k \in T : k <= m
<1> DEFINE U == {i \in Nat : i <= n /\ n - i \in T}
<1>1. U # {}
  <2>1. PICK k \in T : TRUE
    OBVIOUS
  <2>2. n - k \in U
    BY <2>1
  <2> QED BY <2>2
<1>2. PICK m \in U : \A i \in U : m <= i
  BY <1>1, Least
<1>3. \A k \in T : n - k \in U
  OBVIOUS
<1>4. ASSUME NEW k \in T PROVE k <= n - m
  <2>1. m <= n - k
    BY <1>2, <1>3
  <2> QED BY <2>1
<1>5. n - m \in T
  OBVIOUS
<1> QED BY <1>4, <1>5

-------------------------------------------------------------------------------
(* Catalog: what the pages say of a product *)

\* What the pages say of a product is what the last page that lists it says: later
\* pages override (_persist_products reads them in the order of their names).
LEMMA WorthOfPages ==
  ASSUME NEW pages \in [Pages -> Listings], NEW p \in Products
  PROVE  \/ Worth(pages, p) = Off /\ \A k \in Pages : pages[k][p] = Off
         \/ \E m \in Pages : /\ pages[m][p] # Off
                            /\ Worth(pages, p) = pages[m][p]
                            /\ \A k \in Pages : k > m => pages[k][p] = Off
<1> DEFINE on == {k \in Pages : pages[k][p] # Off}
<1>1. CASE on = {}
  BY <1>1 DEF Worth
<1>2. CASE on # {}
  <2>1. \E m \in on : \A k \in on : k <= m
    BY <1>2, Greatest, NPagesAssumption DEF Pages
  <2> DEFINE m == CHOOSE k \in on : \A j \in on : j <= k
  <2>2. m \in on /\ \A k \in on : k <= m
    BY <2>1, Zenon
  <2>3. Worth(pages, p) = pages[m][p]
    BY <1>2, Zenon DEF Worth
  <2> HIDE DEF m
  <2> QED BY <2>2, <2>3 DEF Pages
<1> QED BY <1>1, <1>2

\* f reads the pages 1 to n of the archive for product p, one after the other.
Through(f, p, n) ==
  f = [k \in 0 .. n |-> IF k = 0 THEN Unread(db[p])
                        ELSE IF archive[k][p] = Off THEN f[k - 1]
                        ELSE Upsert(f[k - 1], archive[k][p])]

\* However many pages there are, they can be read one after the other.
LEMMA ReadingExists ==
  ASSUME NEW p \in Products, NEW n \in Nat
  PROVE  \E f : Through(f, p, n)
<1> DEFINE T == {k \in Nat : ~ \E f : Through(f, p, k)}
<1> SUFFICES ASSUME T # {} PROVE FALSE
  OBVIOUS
<1>1. PICK m \in T : \A k \in T : m <= k
  BY Least
<1>2. m # 0
  <2> DEFINE g == [k \in 0 .. 0 |-> Unread(db[p])]
  <2>1. Through(g, p, 0)
    BY DEF Through
  <2> QED BY <2>1
<1>3. m - 1 \in Nat /\ m - 1 \notin T
  BY <1>1, <1>2
<1>4. PICK g : Through(g, p, m - 1)
  BY <1>3
<1> DEFINE next == IF archive[m][p] = Off THEN g[m - 1] ELSE Upsert(g[m - 1], archive[m][p])
           f == [k \in 0 .. m |-> IF k = m THEN next ELSE g[k]]
<1>5. Through(f, p, m)
  <2> DEFINE h == [k \in 0 .. m |-> IF k = 0 THEN Unread(db[p])
                        ELSE IF archive[k][p] = Off THEN f[k - 1]
                        ELSE Upsert(f[k - 1], archive[k][p])]
  <2>1. \A k \in 0 .. m - 1 : g[k] = IF k = 0 THEN Unread(db[p])
                        ELSE IF archive[k][p] = Off THEN g[k - 1]
                        ELSE Upsert(g[k - 1], archive[k][p])
    BY <1>4, Zenon DEF Through
  <2>2. ASSUME NEW k \in 0 .. m PROVE f[k] = h[k]
    <3>1. CASE k = 0
      BY <3>1, <2>1, <1>2
    <3>2. CASE k = m
      BY <3>2, <1>2, <1>3
    <3>3. CASE k # 0 /\ k # m
      <4>1. k \in 0 .. m - 1 /\ k - 1 \in 0 .. m - 1 /\ k - 1 \in 0 .. m /\ k - 1 # m
        BY <3>3
      <4>2. f[k] = g[k] /\ f[k - 1] = g[k - 1]
        BY <3>3, <4>1
      <4> QED BY <2>1, <4>1, <4>2, <3>3
    <3> QED BY <3>1, <3>2, <3>3
  <2>3. f = h
    BY <2>2, Zenon
  <2> QED BY <2>3, Zenon DEF Through
<1> QED BY <1>5, <1>1

\* So Read, the loop of _persist_products, is what its recursion says.
LEMMA ReadUnfolds ==
  ASSUME NEW p \in Products
  PROVE  \E f : Through(f, p, NPages) /\ Read(p) = f[NPages]
<1>1. PICK g : Through(g, p, NPages)
  BY ReadingExists, NPagesAssumption
<1> DEFINE f == CHOOSE h : Through(h, p, NPages)
<1>2. Through(f, p, NPages)
  BY <1>1, Zenon
<1>3. Read(p) = f[NPages]
  BY Zenon DEF Read, Through
<1> QED BY <1>2, <1>3

-------------------------------------------------------------------------------
(* Catalog: reading one product, page by page *)

\* What there is of a product while its pages are read.
Parts == [row : Rows \cup {NoRow}, logged : SUBSET {"val", "gone"}, changed : BOOLEAN, lost : BOOLEAN]

\* The hash of a row is that of its value.
Settled(r) == r.here => r.val = r.hash

\* A row is explained by its history.
Tells(r)   == r.here => r.told = [val |-> r.val, gone |-> r.gone]

\* A product that is in the table has a row.
LEMMA HereIsARow ==
  ASSUME NEW b \in Parts, b.row.here
  PROVE  b.row \in Rows
<1>1. b.row \in Rows \cup {NoRow}
  BY DEF Parts
<1>2. b.row # NoRow
  BY DEF NoRow
<1> QED BY <1>1, <1>2

\* One field is logged: either the history then tells the new value, or, where the
\* key of product_history is taken already, a change is lost and noted as such.
LEMMA LogFacts ==
  ASSUME NEW b \in Parts, b.row.here, NEW field \in {"val", "gone"},
         NEW new, field = "val" => new \in Values, field = "gone" => new = FALSE
  PROVE  LET c == Log(b, field, new)
         IN  /\ c \in Parts
             /\ c.row.here /\ c.row.hash = b.row.hash /\ c.row.val = b.row.val /\ c.row.gone = b.row.gone
             /\ b.lost => c.lost
             /\ c.lost \/ (c.row.told[field] = new \/ (b.row[field] = new /\ c.row.told = b.row.told))
             /\ field = "val" => c.row.told.gone = b.row.told.gone
             /\ field = "gone" => c.row.told.val = b.row.told.val
<1>1. b.row \in Rows
  BY HereIsARow
<1> QED BY <1>1 DEF Log, Parts, Rows, NoRow

\* One page upserts the product: the hash is that of the payload, and neither the
\* hash's meaning nor the history is hurt unless a change is noted as lost.
LEMMA UpsertFacts ==
  ASSUME NEW b \in Parts, b.changed => b.row.here, NEW v \in Values
  PROVE  LET c == Upsert(b, v)
         IN  /\ c \in Parts
             /\ c.row.here /\ c.row.hash = v
             /\ Settled(b.row) => Settled(c.row)
             /\ c.row.gone => b.row.gone
             /\ b.lost => c.lost
             /\ Tells(b.row) => c.lost \/ Tells(c.row)
<1>1. CASE ~b.row.here
  BY <1>1 DEF Upsert, Parts, Rows, NoRow, Settled, Tells
<1>2. CASE b.row.here /\ b.row.hash = v
  BY <1>2 DEF Upsert, Parts, Rows, NoRow, Settled, Tells
<1>3. CASE b.row.here /\ b.row.hash # v
  <2> DEFINE c == Log(b, "val", v)
             d == Log(c, "gone", FALSE)
  <2>1. /\ c \in Parts
        /\ c.row.here /\ c.row.hash = b.row.hash /\ c.row.val = b.row.val /\ c.row.gone = b.row.gone
        /\ b.lost => c.lost
        /\ c.lost \/ (c.row.told.val = v \/ (b.row.val = v /\ c.row.told = b.row.told))
        /\ c.row.told.gone = b.row.told.gone
    BY <1>3, LogFacts
  <2> HIDE DEF c
  <2>2. /\ d \in Parts
        /\ d.row.here /\ d.row.hash = c.row.hash /\ d.row.val = c.row.val /\ d.row.gone = c.row.gone
        /\ c.lost => d.lost
        /\ d.lost \/ (d.row.told.gone = FALSE \/ (c.row.gone = FALSE /\ d.row.told = c.row.told))
        /\ d.row.told.val = c.row.told.val
    BY <2>1, LogFacts
  <2>3. Upsert(b, v) = [d EXCEPT !.row.val = v, !.row.hash = v, !.row.gone = FALSE, !.changed = TRUE]
    BY <1>3 DEF Upsert, c
  <2> HIDE DEF d
  <2> DEFINE e == Upsert(b, v)
  <2>4. b.row \in Rows /\ c.row \in Rows /\ d.row \in Rows
    BY <1>3, <2>1, <2>2, HereIsARow
  <2>5. /\ e.row = [d.row EXCEPT !.val = v, !.hash = v, !.gone = FALSE]
        /\ e.changed = TRUE /\ e.lost = d.lost /\ e.logged = d.logged
        /\ e = [row |-> e.row, logged |-> e.logged, changed |-> e.changed, lost |-> e.lost]
    BY <2>2, <2>3 DEF Parts
  <2>6. e \in Parts
    BY <2>2, <2>4, <2>5 DEF Parts, Rows
  <2>7. e.row.here /\ e.row.hash = v /\ e.row.val = v /\ e.row.gone = FALSE /\ e.row.told = d.row.told
    BY <2>4, <2>5 DEF Rows
  <2>8. ASSUME Tells(b.row), ~e.lost PROVE Tells(e.row)
    <3>1. b.row.told.val = b.row.val /\ b.row.told.gone = b.row.gone
      BY <1>3, <2>8 DEF Tells
    <3>2. ~c.lost /\ ~d.lost
      BY <2>2, <2>5, <2>8
    <3>3. c.row.told.val = v
      BY <2>1, <3>1, <3>2
    <3>4. d.row.told.val = v /\ d.row.told.gone = FALSE
      BY <2>1, <2>2, <3>1, <3>2, <3>3
    <3> QED BY <2>4, <2>7, <3>4 DEF Tells, Rows
  <2> QED BY <2>1, <2>2, <2>5, <2>6, <2>7, <2>8 DEF Settled
<1> QED BY <1>1, <1>2, <1>3

\* What holds of a product after its first k pages: the last page that lists it has
\* set the hash, and whatever was right of the row before is right still.
ReadsRight(p, b, k) ==
  /\ b \in Parts
  /\ b.changed => b.row.here
  /\ db[p].here => b.row.here
  /\ b.row.gone => db[p].gone
  /\ Settled(db[p]) => Settled(b.row)
  /\ Tells(db[p]) => b.lost \/ Tells(b.row)
  /\ \A m \in 1 .. k : archive[m][p] # Off =>
       \/ b.row.here /\ b.row.hash = archive[m][p]
       \/ \E j \in m + 1 .. k : archive[j][p] # Off
  /\ (\A j \in 1 .. k : archive[j][p] = Off) => b = Unread(db[p])

\* It holds after the last page, by induction over the pages: there is no first page
\* after which it does not hold.
LEMMA ReadFacts ==
  ASSUME NEW p \in Products,
         db[p] \in Rows \cup {NoRow}, archive \in [Pages -> Listings]
  PROVE  ReadsRight(p, Read(p), NPages)
<1>1. PICK f : Through(f, p, NPages) /\ Read(p) = f[NPages]
  BY ReadUnfolds
<1>2. \A k \in 0 .. NPages : f[k] = IF k = 0 THEN Unread(db[p])
                        ELSE IF archive[k][p] = Off THEN f[k - 1]
                        ELSE Upsert(f[k - 1], archive[k][p])
  BY <1>1, Zenon DEF Through
<1> DEFINE T == {k \in 0 .. NPages : ~ReadsRight(p, f[k], k)}
<1>3. NPages \in Nat /\ NPages \in 0 .. NPages
  BY NPagesAssumption
<1> SUFFICES ASSUME T # {} PROVE FALSE
  BY <1>1, <1>3
<1>t. T \in SUBSET Nat
  BY <1>3
<1>4. PICK k \in T : \A j \in T : k <= j
  BY <1>t, Least
<1>5. CASE k = 0
  <2>1. f[k] = Unread(db[p])
    BY <1>2, <1>5
  <2>2. Unread(db[p]) \in Parts
    BY DEF Unread, Parts
  <2>3. ReadsRight(p, Unread(db[p]), 0)
    BY <2>2 DEF ReadsRight, Unread
  <2> QED BY <2>1, <2>3, <1>5
<1>6. CASE k # 0
  <2>a. k \in 0 .. NPages
    BY <1>4
  <2>b. k - 1 \in 0 .. NPages /\ k \in Pages /\ ~(k <= k - 1)
    BY <1>3, <1>6, <2>a DEF Pages
  <2>1. k - 1 \in 0 .. NPages /\ k - 1 \notin T /\ k \in Pages
    BY <1>4, <2>b, Zenon
  <2> DEFINE b == f[k - 1]
  <2>2. ReadsRight(p, b, k - 1)
    BY <2>1
  <2>3. f[k] = IF archive[k][p] = Off THEN b ELSE Upsert(b, archive[k][p])
    BY <1>2, <1>6
  <2> HIDE DEF b
  <2>4. CASE archive[k][p] = Off
    <3>1. ReadsRight(p, b, k)
      <4>1. ASSUME NEW m \in 1 .. k, archive[m][p] # Off
            PROVE  \/ b.row.here /\ b.row.hash = archive[m][p]
                   \/ \E j \in m + 1 .. k : archive[j][p] # Off
        <5>1. m \in 1 .. k - 1
          BY <4>1, <2>4
        <5>2. \A j \in m + 1 .. k - 1 : j \in m + 1 .. k
          OBVIOUS
        <5> QED BY <2>2, <4>1, <5>1, <5>2, Zenon DEF ReadsRight
      <4>2. \A j \in 1 .. k - 1 : j \in 1 .. k
        OBVIOUS
      <4> QED BY <2>2, <4>1, <4>2, Zenon DEF ReadsRight
    <3> QED BY <2>3, <2>4, <3>1
  <2>5. CASE archive[k][p] # Off
    <3>1. archive[k][p] \in Values
      BY <2>1, <2>5 DEF Listings
    <3> DEFINE c == Upsert(b, archive[k][p])
    <3>2. /\ c \in Parts
          /\ c.row.here /\ c.row.hash = archive[k][p]
          /\ Settled(b.row) => Settled(c.row)
          /\ c.row.gone => b.row.gone
          /\ b.lost => c.lost
          /\ Tells(b.row) => c.lost \/ Tells(c.row)
      BY <2>2, <3>1, UpsertFacts DEF ReadsRight
    <3> HIDE DEF c
    <3>3. ASSUME NEW m \in 1 .. k, archive[m][p] # Off, m # k
          PROVE  \E j \in m + 1 .. k : archive[j][p] # Off
      BY <2>5, <3>3
    <3>4. k \in 1 .. k
      BY <1>6
    <3>5. ReadsRight(p, c, k)
      BY <2>2, <2>5, <3>2, <3>3, <3>4, Zenon DEF ReadsRight
    <3> QED BY <2>3, <2>5, <3>5 DEF c
  <2> QED BY <2>4, <2>5
<1> QED BY <1>5, <1>6

\* A product on some page has a row with the hash of the last such page; a product on
\* none is left as it was.
LEMMA SeenFacts ==
  ASSUME NEW p \in Products,
         db[p] \in Rows \cup {NoRow}, archive \in [Pages -> Listings]
  PROVE  /\ Worth(archive, p) \in Values \cup {Off}
         /\ p \in Seen => Read(p).row.here /\ Read(p).row.hash = Worth(archive, p)
         /\ p \notin Seen => Read(p) = Unread(db[p])
<1>1. ReadsRight(p, Read(p), NPages)
  BY ReadFacts
<1>2. CASE Worth(archive, p) = Off /\ \A k \in Pages : archive[k][p] = Off
  BY <1>1, <1>2, Zenon DEF Seen, ReadsRight, Pages
<1>3. ASSUME NEW m \in Pages, archive[m][p] # Off, Worth(archive, p) = archive[m][p],
             \A k \in Pages : k > m => archive[k][p] = Off
      PROVE  /\ Worth(archive, p) \in Values \cup {Off}
             /\ p \in Seen /\ Read(p).row.here /\ Read(p).row.hash = Worth(archive, p)
  <2>1. archive[m][p] \in Values
    BY <1>3 DEF Listings
  <2>2. \A j \in m + 1 .. NPages : archive[j][p] = Off
    BY <1>3, NPagesAssumption DEF Pages
  <2>3. p \in Seen
    BY <1>3 DEF Seen
  <2>4. m \in 1 .. NPages
    BY DEF Pages
  <2> QED BY <1>1, <1>3, <2>1, <2>2, <2>3, <2>4, Zenon DEF ReadsRight
<1> QED BY <1>2, <1>3, WorthOfPages

-------------------------------------------------------------------------------
(* Catalog: the inductive invariant *)

\* The API lists a product once and leaves no page empty before the last.
CatalogIsOne == world \in Catalogs

\* Phase A asks for later pages only while it fetches.
PageIsFirst == phase # "fetch" => page = 1

\* Phase C is asked for details of rows only.
TodoIsStored == \A p \in todo : db[p].here

\* The hash is that of the value, unless a detail payload has come in between.
HashIsOfValue == \A p \in Products \ blurred : Settled(db[p])

\* While the catalogue stands still and nothing has failed, the pages fetched are those
\* the API has; a page of an earlier run of the day can be left only where the API has
\* none any more.
ArchiveIsOfToday ==
  ~moved /\ clean =>
    /\ phase = "fetch" => \A k \in Pages : k < page => archive[k] = world[k]
    /\ phase \in {"rest", "persist"} =>
         \A k \in Pages : archive[k] = world[k] \/ world[k] = Blank

\* All of it, with the properties that are its consequences and its parts.
CatIInv ==
  /\ CatTypeOK
  /\ CatalogIsOne
  /\ PageIsFirst
  /\ TodoIsStored
  /\ HashIsOfValue
  /\ HistoryExplainsRow
  /\ ListedValueIsStored
  /\ ArchiveIsOfToday

-------------------------------------------------------------------------------
(* Catalog: the steps *)

\* A page without a successor is the last: PageFetched stops at the right place.
LEMMA NothingAfterTheLast ==
  ASSUME NEW w \in Catalogs, NEW n \in Pages, n = NPages \/ w[n + 1] = Blank
  PROVE  \A k \in Pages : k > n => w[k] = Blank
<1> DEFINE T == {k \in Pages : k > n /\ w[k] # Blank}
<1> SUFFICES ASSUME T # {} PROVE FALSE
  OBVIOUS
<1>1. T \in SUBSET Nat
  BY NPagesAssumption DEF Pages
<1>2. PICK m \in T : \A k \in T : m <= k
  BY <1>1, Least
<1>3. m \in Pages /\ m > n /\ w[m] # Blank
  BY <1>2
<1>4. m # n + 1
  BY <1>3, NPagesAssumption DEF Pages
<1>5. m \in Pages \ {1} /\ m - 1 \in Pages /\ m - 1 > n /\ ~(m <= m - 1)
  BY <1>3, <1>4, NPagesAssumption DEF Pages
<1>6. w[m - 1] # Blank
  BY <1>3, <1>5, Zenon DEF Catalogs
<1> QED BY <1>2, <1>5, <1>6

\* Pages of nothing, and the pages of a catalogue, are pages.
LEMMA TypesOfListings ==
  /\ Blank \in Listings
  /\ NoPages \in [Pages -> Listings]
  /\ Catalogs \subseteq [Pages -> Listings]
BY DEF Blank, Listings, NoPages, Catalogs

\* The history of a dropped product keeps the value and tells the flag.
LEMMA GoneAsTold ==
  ASSUME NEW s \in [val : Values, gone : BOOLEAN]
  PROVE  /\ [s EXCEPT !.gone = TRUE] = [val |-> s.val, gone |-> TRUE]
         /\ [s EXCEPT !.gone = TRUE] \in [val : Values, gone : BOOLEAN]
<1> DEFINE t == [s EXCEPT !.gone = TRUE]
<1>1. t \in [val : Values, gone : BOOLEAN]
  OBVIOUS
<1>2. t.val = s.val /\ t.gone = TRUE
  OBVIOUS
<1>3. ASSUME NEW r \in [val : Values, gone : BOOLEAN] PROVE r = [val |-> r.val, gone |-> r.gone]
  OBVIOUS
<1> QED BY <1>1, <1>2, <1>3

\* What Phase B makes of one product.
LEMMA PersistFacts ==
  ASSUME CatTypeOK, Persist, NEW p \in Products
  PROVE  /\ db'[p] \in Rows \cup {NoRow}
         /\ p \in todo' => db'[p].here
         /\ db'[p].gone /\ ~db[p].gone => p \in Missing
         /\ Settled(db[p]) => Settled(db'[p])
         /\ p \notin blurred' /\ Tells(db[p]) => Tells(db'[p])
         /\ p \in Seen => db'[p].here /\ db'[p].hash = Worth(archive, p)
<1>1. db[p] \in Rows \cup {NoRow} /\ archive \in [Pages -> Listings]
  BY DEF CatTypeOK
<1>2. ReadsRight(p, Read(p), NPages)
  BY <1>1, ReadFacts
<1>3. p \in todo' <=> Read(p).changed
  BY DEF Persist
<1>4. p \notin blurred' => ~Read(p).lost
  BY DEF Persist
<1>5. CASE p \in Missing
  <2>1. p \notin Seen /\ db[p].here
    BY <1>5 DEF Missing
  <2>2. Read(p) = Unread(db[p])
    BY <1>1, <2>1, SeenFacts
  <2>3. ~Read(p).changed
    BY <2>2 DEF Unread
  <2>4. db'[p] = [db[p] EXCEPT !.gone = TRUE, !.told.gone = TRUE]
    BY <1>5 DEF Persist
  <2>5. db[p] \in Rows
    <3>1. db[p] # NoRow
      BY <2>1 DEF NoRow
    <3> QED BY <1>1, <3>1
  <2>6. /\ db'[p] \in Rows
        /\ db'[p].val = db[p].val /\ db'[p].hash = db[p].hash /\ db'[p].gone = TRUE
        /\ db'[p].told = [val |-> db[p].told.val, gone |-> TRUE]
    <3> DEFINE r == db[p]
               t == [r.told EXCEPT !.gone = TRUE]
    <3>1. db'[p] = [r EXCEPT !.gone = TRUE, !.told = t]
      BY <2>4, <2>5 DEF Rows
    <3>2. r \in Rows /\ r.told \in [val : Values, gone : BOOLEAN]
      BY <2>5 DEF Rows
    <3>3. t = [val |-> r.told.val, gone |-> TRUE] /\ t \in [val : Values, gone : BOOLEAN]
      BY <3>2, GoneAsTold
    <3> HIDE DEF t, r
    <3>4. /\ db'[p] \in Rows
          /\ db'[p].val = r.val /\ db'[p].hash = r.hash /\ db'[p].gone = TRUE
          /\ db'[p].told = t
      BY <3>1, <3>2, <3>3 DEF Rows
    <3> QED BY <3>3, <3>4 DEF r
  <2>7. Tells(db[p]) => Tells(db'[p])
    <3>1. Tells(db[p]) => db[p].told.val = db[p].val
      BY <2>1 DEF Tells
    <3> QED BY <2>6, <3>1 DEF Tells
  <2>8. Settled(db[p]) => Settled(db'[p])
    BY <2>1, <2>6 DEF Settled
  <2>9. db'[p].here
    BY <2>6 DEF Rows
  <2> QED BY <1>3, <1>5, <2>1, <2>3, <2>6, <2>7, <2>8, <2>9, Zenon
<1>6. CASE p \notin Missing
  <2>1. db'[p] = Read(p).row
    BY <1>6 DEF Persist
  <2>2. Read(p).row \in Rows \cup {NoRow}
    BY <1>2 DEF ReadsRight, Parts
  <2>3. p \in Seen => Read(p).row.here /\ Read(p).row.hash = Worth(archive, p)
    BY <1>1, SeenFacts
  <2> QED BY <1>2, <1>3, <1>4, <2>1, <2>2, <2>3, Zenon DEF ReadsRight
<1> QED BY <1>5, <1>6

\* What a detail payload makes of the rows: it changes one, and tells no one.
LEMMA DetailFacts ==
  ASSUME CatTypeOK, TodoIsStored, NEW p \in Products, DetailFetched(p), NEW q \in Products
  PROVE  /\ db'[q] \in Rows \cup {NoRow}
         /\ db'[q].here = db[q].here
         /\ db'[q].gone => db[q].gone
         /\ q \notin blurred' /\ Settled(db[q]) => Settled(db'[q])
         /\ q \notin blurred' /\ Tells(db[q]) => Tells(db'[q])
<1>1. CASE q # p
  BY <1>1 DEF DetailFetched, CatTypeOK
<1>2. CASE q = p
  <2>1. db[p].here /\ db[p] \in Rows \cup {NoRow}
    BY DEF DetailFetched, TodoIsStored, CatTypeOK
  <2>2. db[p] # NoRow
    BY <2>1 DEF NoRow
  <2>3. db[p] \in Rows
    BY <2>1, <2>2
  <2>4. Worth(world, p) \in Values
    <3>1. world \in [Pages -> Listings] /\ Worth(world, p) # Off
      BY DEF CatTypeOK, DetailFetched
    <3>2. PICK m \in Pages : world[m][p] # Off /\ Worth(world, p) = world[m][p]
      BY <3>1, WorthOfPages
    <3>3. world[m][p] \in Values \cup {Off}
      BY <3>1 DEF Listings
    <3> QED BY <3>2, <3>3
  <2> DEFINE v == Worth(world, p)
  <2>5. db'[p] = [db[p] EXCEPT !.val = v, !.gone = FALSE, !.stamped = TRUE]
    BY DEF DetailFetched, CatTypeOK
  <2> HIDE DEF v
  <2>6. /\ db'[p] \in Rows
        /\ db'[p].val = v /\ db'[p].hash = db[p].hash /\ db'[p].gone = FALSE
        /\ db'[p].told = db[p].told /\ db'[p].here = db[p].here
    BY <2>3, <2>4, <2>5 DEF Rows, v
  <2>7. p \notin blurred' => db[p].val = v /\ ~db[p].gone
    BY DEF DetailFetched, v
  <2>8. p \notin blurred' => db[p].val = v /\ db[p].gone = FALSE
    BY <2>3, <2>7 DEF Rows
  <2> QED BY <1>2, <2>6, <2>8 DEF Settled, Tells
<1> QED BY <1>1, <1>2

\* The first state.
LEMMA CatInitStep == CatInit => CatIInv
<1> SUFFICES ASSUME CatInit PROVE CatIInv
  OBVIOUS
<1> USE DEF CatInit
<1>1. 1 \in Pages
  BY NPagesAssumption DEF Pages
<1>2. CatTypeOK
  BY <1>1, TypesOfListings DEF CatTypeOK
<1>3. \A p \in Products : ~db[p].here
  BY DEF NoRow
<1>4. CatalogIsOne /\ PageIsFirst /\ TodoIsStored /\ ListedValueIsStored /\ ArchiveIsOfToday
  BY DEF CatalogIsOne, PageIsFirst, TodoIsStored, ListedValueIsStored, ArchiveIsOfToday
<1>5. HashIsOfValue /\ HistoryExplainsRow
  BY <1>3 DEF HashIsOfValue, HistoryExplainsRow, Settled
<1> QED BY <1>2, <1>4, <1>5 DEF CatIInv

\* Phase A, the queue and the day: no row changes.
LEMMA RowsStand ==
  ASSUME CatIInv, UNCHANGED <<db, blurred>>, todo' \subseteq {p \in Products : db[p].here},
         phase' = "select" => phase = "select" /\ UNCHANGED archive
  PROVE  TodoIsStored' /\ HashIsOfValue' /\ HistoryExplainsRow' /\ ListedValueIsStored'
<1>1. TodoIsStored'
  BY DEF TodoIsStored
<1>2. HashIsOfValue' /\ HistoryExplainsRow'
  BY DEF CatIInv, HashIsOfValue, HistoryExplainsRow
<1>3. ASSUME phase' = "select" PROVE ListedValueIsStored'
  <2>1. Seen' = Seen /\ \A p \in Products : Worth(archive, p)' = Worth(archive, p)
    BY <1>3 DEF Seen, Worth, Pages
  <2> QED BY <1>3, <2>1, Zenon DEF CatIInv, ListedValueIsStored, Seen
<1>4. phase' # "select" => ListedValueIsStored'
  BY DEF ListedValueIsStored
<1> QED BY <1>1, <1>2, <1>3, <1>4

\* A page is archived: the pages so far, or all of them, are today's.
LEMMA PageFetchedStep == CatIInv /\ PageFetched => CatIInv'
<1> SUFFICES ASSUME CatIInv, PageFetched PROVE CatIInv'
  OBVIOUS
<1> USE DEF PageFetched, CatIInv
<1>1. CatTypeOK'
  <2>1. world[page] \in Listings
    BY DEF CatTypeOK
  <2>2. page' \in Pages
    BY NPagesAssumption DEF CatTypeOK, Pages
  <2> QED BY <2>1, <2>2 DEF CatTypeOK
<1>2. TodoIsStored' /\ HashIsOfValue' /\ HistoryExplainsRow' /\ ListedValueIsStored'
  BY RowsStand DEF TodoIsStored, CatTypeOK
<1>3. CatalogIsOne' /\ PageIsFirst'
  BY DEF CatalogIsOne, PageIsFirst
<1>4. ASSUME ~moved, clean PROVE ArchiveIsOfToday'
  <2>1. \A k \in Pages : k <= page => archive'[k] = world[k]
    BY <1>4 DEF ArchiveIsOfToday, CatTypeOK, Pages
  <2>2. CASE page < NPages /\ world[page + 1] # Blank
    <3>1. page' = page + 1 /\ phase' = "fetch"
      BY <2>2
    <3>2. page \in Int /\ \A k \in Pages : k < page + 1 => k <= page
      BY NPagesAssumption DEF CatTypeOK, Pages
    <3> QED BY <2>1, <3>1, <3>2 DEF ArchiveIsOfToday
  <2>3. CASE ~(page < NPages /\ world[page + 1] # Blank)
    <3>1. page \in Pages /\ (page = NPages \/ world[page + 1] = Blank)
      BY <2>3, NPagesAssumption DEF CatTypeOK, Pages
    <3>2. \A k \in Pages : k > page => world[k] = Blank
      BY <3>1, NothingAfterTheLast DEF CatalogIsOne
    <3>3. \A k \in Pages : k <= page \/ k > page
      BY <3>1, NPagesAssumption DEF Pages
    <3>4. phase' = "rest" /\ world' = world
      BY <2>3
    <3> QED BY <2>1, <3>2, <3>3, <3>4 DEF ArchiveIsOfToday
  <2> QED BY <2>2, <2>3
<1>5. moved \/ ~clean => ArchiveIsOfToday'
  BY DEF ArchiveIsOfToday
<1> QED BY <1>1, <1>2, <1>3, <1>4, <1>5

\* Phase B commits: every row is right because each product's reading is.
LEMMA PersistStep == CatIInv /\ Persist => CatIInv'
<1> SUFFICES ASSUME CatIInv, Persist PROVE CatIInv'
  OBVIOUS
<1> USE DEF CatIInv
<1>1. \A p \in Products :
        /\ db'[p] \in Rows \cup {NoRow}
        /\ p \in todo' => db'[p].here
        /\ Settled(db[p]) => Settled(db'[p])
        /\ p \notin blurred' /\ Tells(db[p]) => Tells(db'[p])
        /\ p \in Seen => db'[p].here /\ db'[p].hash = Worth(archive, p)
  BY PersistFacts
<1>2. todo' \subseteq Products /\ blurred \subseteq blurred' /\ blurred' \subseteq Products
  BY DEF Persist, CatTypeOK
<1>3. CatTypeOK'
  <2>1. db' \in [Products -> Rows \cup {NoRow}]
    <3>1. db' = [p \in Products |-> db'[p]]
      BY DEF Persist
    <3> QED BY <1>1, <3>1, Zenon
  <2>2. texted' \in SUBSET Products
    <3>1. PICK rich \in SUBSET Textable : texted' = (texted \ Textable) \cup rich
      BY DEF Persist
    <3> QED BY <3>1 DEF Textable, CatTypeOK
  <2> QED BY <1>2, <2>1, <2>2 DEF Persist, CatTypeOK
<1>4. CatalogIsOne' /\ PageIsFirst'
  BY DEF Persist, CatalogIsOne, PageIsFirst
<1>5. TodoIsStored'
  BY <1>1, <1>2 DEF TodoIsStored
<1>6. HashIsOfValue'
  BY <1>1, <1>2 DEF HashIsOfValue
<1>7. HistoryExplainsRow'
  BY <1>1, <1>2 DEF HistoryExplainsRow, Tells
<1>8. ListedValueIsStored'
  <2>0. archive' = archive
    BY DEF Persist
  <2>1. Seen' = Seen /\ \A p \in Products : Worth(archive, p)' = Worth(archive, p)
    BY <2>0 DEF Seen, Worth, Pages
  <2>2. ASSUME NEW p \in Seen \ blurred' PROVE db'[p].here /\ db'[p].val = Worth(archive, p)
    <3>1. p \in Products
      BY DEF Seen
    <3> QED BY <1>1, <1>6, <3>1 DEF HashIsOfValue, Settled
  <2> QED BY <2>1, <2>2, Zenon DEF ListedValueIsStored, Seen
<1>9. ArchiveIsOfToday'
  BY DEF Persist, ArchiveIsOfToday
<1> QED BY <1>3, <1>4, <1>5, <1>6, <1>7, <1>8, <1>9

\* A detail payload blurs the row it changes in a tracked column, and no other.
LEMMA DetailFetchedStep ==
  ASSUME CatIInv, NEW p \in Products, DetailFetched(p) PROVE CatIInv'
<1> USE DEF CatIInv
<1>1. \A q \in Products :
        /\ db'[q] \in Rows \cup {NoRow}
        /\ db'[q].here = db[q].here
        /\ q \notin blurred' /\ Settled(db[q]) => Settled(db'[q])
        /\ q \notin blurred' /\ Tells(db[q]) => Tells(db'[q])
  BY DetailFacts
<1>2. todo' \subseteq todo /\ blurred \subseteq blurred' /\ blurred' \subseteq Products
  BY DEF DetailFetched, CatTypeOK
<1>3. CatTypeOK'
  <2>1. db' \in [Products -> Rows \cup {NoRow}]
    <3>1. db' = [q \in Products |-> db'[q]]
      BY DEF DetailFetched, CatTypeOK
    <3> QED BY <1>1, <3>1, Zenon
  <2> QED BY <1>2, <2>1 DEF DetailFetched, CatTypeOK
<1>4. CatalogIsOne' /\ PageIsFirst' /\ ListedValueIsStored' /\ ArchiveIsOfToday'
  BY DEF DetailFetched, CatalogIsOne, PageIsFirst, ListedValueIsStored, ArchiveIsOfToday
<1>5. TodoIsStored'
  BY <1>1, <1>2 DEF TodoIsStored, CatTypeOK
<1>6. HashIsOfValue'
  BY <1>1, <1>2 DEF HashIsOfValue
<1>7. HistoryExplainsRow'
  BY <1>1, <1>2 DEF HistoryExplainsRow, Tells
<1> QED BY <1>3, <1>4, <1>5, <1>6, <1>7

\* Every step keeps the invariant.
LEMMA CatStep == CatIInv /\ [CatNext]_catVars => CatIInv'
<1> SUFFICES ASSUME CatIInv, [CatNext]_catVars PROVE CatIInv'
  OBVIOUS
<1>0. 1 \in Pages
  BY NPagesAssumption DEF Pages
<1>1. CASE UNCHANGED catVars
  BY <1>1 DEF catVars, CatIInv, CatTypeOK, CatalogIsOne, PageIsFirst, TodoIsStored, HashIsOfValue,
     HistoryExplainsRow, ListedValueIsStored, ArchiveIsOfToday, Seen, Worth
<1>2. ASSUME /\ UNCHANGED <<db, blurred>>
             /\ todo' \subseteq {p \in Products : db[p].here}
             /\ phase' = "select" => phase = "select" /\ UNCHANGED archive,
             CatTypeOK', CatalogIsOne', PageIsFirst', ArchiveIsOfToday'
      PROVE  CatIInv'
  BY <1>2, RowsStand DEF CatIInv
<1>3. todo \subseteq {p \in Products : db[p].here}
  BY DEF CatIInv, CatTypeOK, TodoIsStored
<1> USE DEF CatIInv, CatTypeOK, CatalogIsOne, PageIsFirst, ArchiveIsOfToday
<1>4. CASE Start
  BY <1>2, <1>3, <1>4, NPagesAssumption DEF Start, Pages
<1>5. CASE PageFetched
  BY <1>5, PageFetchedStep
<1>6. CASE PageFails
  BY <1>0, <1>2, <1>3, <1>6 DEF PageFails
<1>7. CASE RestFetched
  BY <1>2, <1>3, <1>7 DEF RestFetched
<1>8. CASE RestFails
  BY <1>2, <1>3, <1>8 DEF RestFails
<1>9. CASE Persist
  BY <1>9, PersistStep
<1>10. CASE Select
  <2>1. todo' \subseteq {p \in Products : db[p].here}
    BY <1>3, <1>10 DEF Select, Reheal
  <2> QED BY <1>2, <1>10, <2>1 DEF Select
<1>11. CASE DetailsDone
  BY <1>2, <1>3, <1>11 DEF DetailsDone
<1>12. CASE RunStops
  BY <1>0, <1>2, <1>12 DEF RunStops
<1>13. ASSUME NEW p \in Products, DetailFetched(p) PROVE CatIInv'
  BY <1>13, DetailFetchedStep
<1>14. ASSUME NEW p \in Products, DetailFails(p) PROVE CatIInv'
  BY <1>2, <1>3, <1>14 DEF DetailFails
<1>15. CASE NewDay
  BY <1>2, <1>3, <1>15, TypesOfListings DEF NewDay
<1>16. CASE WorldMoves
  BY <1>2, <1>3, <1>16, TypesOfListings DEF WorldMoves
<1> QED
  BY <1>1, <1>4, <1>5, <1>6, <1>7, <1>8, <1>9, <1>10, <1>11, <1>12, <1>13, <1>14, <1>15, <1>16
     DEF CatNext, RunStep

-------------------------------------------------------------------------------
(* Catalog: what follows *)

\* The invariant holds from the first state on.
THEOREM CatInvariant == CatSpec => []CatIInv
BY CatInitStep, CatStep, PTL DEF CatSpec

\* Every variable has its type; above all, the rows that Phase B and Phase C write are
\* rows (sync/phases/persist.py, details.py).
THEOREM CatTypes == CatSpec => []CatTypeOK
BY CatInvariant, PTL DEF CatIInv

\* product_history, applied to a row as first inserted, yields the row, but for the two
\* known leaks (sync/phases/persist.py, _persist_one_product).
THEOREM HistoryIsComplete == CatSpec => []HistoryExplainsRow
BY CatInvariant, PTL DEF CatIInv

\* Once Phase B has committed, each listed product has the value of the last page that
\* lists it: field_hash hides no change from the update (sync/phases/persist.py).
THEOREM ListedValues == CatSpec => []ListedValueIsStored
BY CatInvariant, PTL DEF CatIInv

\* A step that marks a product while the catalogue stands still finds it dropped: the
\* run was clean, so its pages are all there are, and the product is on none.
LEMMA DroppedStep ==
  ASSUME CatIInv, [CatNext]_catVars, NEW p \in Products, ~db[p].gone, db'[p].gone, ~moved
  PROVE  Worth(world, p) = Off
<1> USE DEF CatIInv
<1>1. CASE Persist
  <2>1. p \in Missing
    BY <1>1, PersistFacts
  <2>2. clean /\ Worth(archive, p) = Off /\ phase = "persist"
    BY <1>1, <2>1 DEF Missing, Seen, Persist
  <2>3. archive \in [Pages -> Listings] /\ world \in [Pages -> Listings]
    BY DEF CatTypeOK
  <2>4. \A k \in Pages : archive[k][p] = Off
    BY <2>2, <2>3, WorthOfPages
  <2>5. \A k \in Pages : archive[k] = world[k] \/ world[k] = Blank
    BY <2>2 DEF ArchiveIsOfToday
  <2>6. \A k \in Pages : world[k][p] = Off
    BY <2>4, <2>5 DEF Blank
  <2> QED BY <2>3, <2>6, WorthOfPages
<1>2. ASSUME NEW q \in Products, DetailFetched(q) PROVE FALSE
  BY <1>2, DetailFacts
<1>3. CASE UNCHANGED db
  BY <1>3
<1> QED
  BY <1>1, <1>2, <1>3 DEF CatNext, RunStep, catVars, Start, PageFetched, PageFails, RestFetched,
     RestFails, Select, DetailsDone, RunStops, DetailFails, NewDay, WorldMoves

\* On a day on which the catalogue stands still, only what it has dropped is marked as
\* discontinued (sync/phases/persist.py, _mark_missing_as_discontinued): never because
\* a page failed or an earlier run was cut short.
THEOREM DroppedOnly == CatSpec => OnlyDroppedIsDiscontinued
<1> DEFINE Act == \A p \in Products :
                    ~db[p].gone /\ db'[p].gone /\ ~moved => Worth(world, p) = Off
<1>1. CatIInv /\ [CatNext]_catVars => [Act]_catVars
  BY DroppedStep
<1> QED BY <1>1, CatInvariant, PTL DEF CatSpec, OnlyDroppedIsDiscontinued
===============================================================================
