---------------------------- MODULE DetailsProofs -----------------------------
(***************************************************************************)
(* Proofs about Details for any products, runs, versions and concurrency:  *)
(* what the tasks of Phase C do to the rows, and what they do when their   *)
(* run is over.                                                            *)
(***************************************************************************)
EXTENDS Details, TLAPS

USE BoundsAssumption DEF None

-------------------------------------------------------------------------------
(* The inductive invariant *)

\* An earlier run was left by its gather.
Earlier == \E r \in left : r < run

\* Runs that are to come have left nothing.
ToCome ==
  /\ \A r \in left : r <= run
  /\ run \in left => pc \in {"close", "idle"}
  /\ pc # "idle" => run \in Runs
  /\ \A r \in Runs : r > run => task[r] = [p \in Products |-> NoTask]

\* A task lives on only if its phase is not over, or was left.
Minded ==
  \A r \in Runs \ left : \A p \in Products :
    task[r][p].at \in Alive => r = run /\ pc = "details"

\* Nothing is newer than what the API would answer.
NotAhead ==
  \A p \in Products :
    /\ row[p].val <= now[p] /\ seen[p] <= now[p]
    /\ \A r \in Runs : task[r][p].got <= now[p]

\* What the run has in hand is no older than the row, or than Phase A.
InHandIsNewer ==
  ~Earlier =>
    \A p \in Products :
      /\ pc = "persist" => seen[p] = None \/ row[p].val <= seen[p]
      /\ run \in Runs /\ task[run][p].at = "write" =>
           /\ row[p].val <= task[run][p].got
           /\ pc = "details" => seen[p] <= task[run][p].got
      /\ pc \in {"details", "rest"} /\ task[run][p].at = "merged" => seen[p] <= row[p].val

\* Details that were merged are in the row.
MergedIsStamped ==
  pc \in {"details", "rest"} =>
    \A p \in Products : task[run][p].at = "merged" => row[p].stamped

\* Phase C returns when its tasks have, and none was cancelled.
RestIsEnded ==
  /\ pc = "rest" => \A p \in Products : task[run][p].at \in {"none", "merged", "failed"}
  /\ pc = "details" => \A p \in Products : task[run][p].at # "gone"

IInv ==
  /\ TypeOK
  /\ ToCome
  /\ Minded
  /\ NotAhead
  /\ InHandIsNewer
  /\ MergedIsStamped
  /\ RestIsEnded
-------------------------------------------------------------------------------
(* Types *)

\* Versions are numbers, and so are runs.
LEMMA Numbers ==
  /\ Versions \subseteq Nat \ {0} /\ Runs \subseteq Nat \ {0} /\ 1 \in Versions
  /\ \A n \in Versions : n < NVersions => n + 1 \in Versions
  /\ \A r \in Runs \cup {0} : r < NRuns => r + 1 \in Runs
BY DEF Versions, Runs

\* A place is where a task is alive, or where it has ended.
LEMMA Places ==
  /\ NoTask \in Tasks /\ NoTask.at = "none" /\ NoTask.got = None
  /\ \A to \in Alive \cup Ended : \A v \in Versions \cup {None} :
       /\ [at |-> to, got |-> v] \in Tasks
       /\ [at |-> to, got |-> v].at = to /\ [at |-> to, got |-> v].got = v
BY DEF Tasks, NoTask, Alive, Ended

\* None is a number, too.
LEMMA VersionNumbers == ASSUME NEW n \in Versions \cup {0} PROVE n \in Nat
BY DEF Versions

\* The answer of a task is a number.
LEMMA TaskNumbers == ASSUME NEW t \in Tasks PROVE t.got \in Nat
<1>1. t.got \in Versions \cup {0}
  BY DEF Tasks
<1> QED
  BY <1>1, VersionNumbers

\* The tasks of a run that is given up.
LEMMA GoneType ==
  ASSUME TypeOK, NEW r \in Runs
  PROVE  /\ Gone(r) \in [Products -> Tasks]
         /\ \A p \in Products :
              /\ Gone(r)[p].at \notin Alive
              /\ Gone(r)[p].at = "merged" => task[r][p].at = "merged"
              /\ Gone(r)[p].got <= task[r][p].got
         /\ task[r] = [p \in Products |-> NoTask] => Gone(r) = task[r]
<1>1. \A p \in Products :
        /\ task[r][p] \in Tasks
        /\ Gone(r)[p] = IF task[r][p].at \in Alive THEN [at |-> "gone", got |-> None]
                        ELSE task[r][p]
  BY DEF TypeOK, Gone
<1>2. /\ [at |-> "gone", got |-> None] \in Tasks
      /\ [at |-> "gone", got |-> None].at = "gone" /\ [at |-> "gone", got |-> None].got = 0
  BY Places DEF Ended
<1>3. \A p \in Products : task[r][p].got \in Nat
  BY <1>1, TaskNumbers
<1>4. Gone(r) \in [Products -> Tasks]
  BY <1>1, <1>2 DEF Gone
<1>5. ASSUME task[r] = [p \in Products |-> NoTask] PROVE Gone(r) = task[r]
  BY <1>5, Places DEF Gone, Alive
<1>6. ASSUME NEW p \in Products
      PROVE  /\ Gone(r)[p].at \notin Alive
             /\ Gone(r)[p].at = "merged" => task[r][p].at = "merged"
             /\ Gone(r)[p].got <= task[r][p].got
  BY <1>1, <1>2, <1>3 DEF Alive
<1> QED
  BY <1>4, <1>5, <1>6

\* The first state has the right types.
LEMMA InitInv == ASSUME Init PROVE IInv
<1>1. TypeOK
  BY Numbers, Places DEF Init, TypeOK, Rows
<1>2. \A r \in Runs : \A p \in Products : task[r][p] = NoTask
  BY DEF Init
<1>3. ToCome /\ Minded
  BY <1>2, Places DEF Init, ToCome, Minded, Alive
<1>4. NotAhead
  BY <1>2, Places DEF Init, NotAhead
<1>5. InHandIsNewer /\ MergedIsStamped /\ RestIsEnded
  BY <1>2, Places DEF Init, InHandIsNewer, MergedIsStamped, RestIsEnded
<1> QED
  BY <1>1, <1>3, <1>4, <1>5 DEF IInv

-------------------------------------------------------------------------------
(* The steps of the run *)

\* A run begins: what earlier runs have left, if anything, is an earlier run's.
LEMMA BeginStep == ASSUME IInv, Begin PROVE IInv'
<1>1. run + 1 \in Runs /\ run \in Nat
  BY Numbers DEF IInv, TypeOK, Begin
<1>2. PICK who \in {"scheduler", "command"} : caller' = [caller EXCEPT ![run + 1] = who]
  BY DEF Begin
<1>3. TypeOK'
  BY <1>1, <1>2 DEF IInv, TypeOK, Begin
<1>4. ToCome'
  BY <1>1, Numbers DEF IInv, TypeOK, ToCome, Begin
<1>5. task[run + 1] = [p \in Products |-> NoTask]
  BY <1>1 DEF IInv, ToCome
<1>6. \A p \in Products : task[run + 1][p].at = "none"
  BY <1>5, Places
<1>7. Minded'
  BY DEF IInv, Minded, Begin
<1>8. NotAhead'
  BY DEF IInv, NotAhead, Begin
<1>9. InHandIsNewer'
  BY <1>6 DEF InHandIsNewer, Begin
<1> QED
  BY <1>3, <1>4, <1>7, <1>8, <1>9 DEF IInv, MergedIsStamped, RestIsEnded, Begin

\* Phase A sees what the API would answer.
LEMMA PhaseAStep == ASSUME IInv, PhaseA PROVE IInv'
<1>1. PICK listed \in SUBSET Products :
        seen' = [p \in Products |-> IF p \in listed THEN now[p] ELSE None]
  BY DEF PhaseA
<1>2. TypeOK'
  BY <1>1 DEF IInv, TypeOK, PhaseA
<1>3. ToCome' /\ Minded'
  BY DEF IInv, ToCome, Minded, PhaseA
<1>4. \A p \in Products : now[p] \in Nat /\ (seen'[p] = now[p] \/ seen'[p] = 0)
  BY <1>1, Numbers DEF IInv, TypeOK
<1>5. NotAhead'
  BY <1>4 DEF IInv, NotAhead, PhaseA
<1>6. InHandIsNewer'
  BY <1>4 DEF IInv, NotAhead, InHandIsNewer, Earlier, PhaseA
<1> QED
  BY <1>2, <1>3, <1>5, <1>6 DEF IInv, MergedIsStamped, RestIsEnded, PhaseA

\* What Phase B makes of the rows.
LEMMA RowsOfPhaseB ==
  ASSUME IInv, PhaseB, NEW p \in Products
  PROVE  /\ row'[p] \in Rows
         /\ row'[p].val = row[p].val \/ (row'[p].val = seen[p] /\ seen[p] # None)
         /\ row'[p].stamped = row[p].stamped
<1>1. row[p] \in Rows /\ seen[p] \in Versions \cup {None}
  BY DEF IInv, TypeOK
<1>2. row'[p] = IF p \in Changed THEN [row[p] EXCEPT !.val = seen[p], !.hash = seen[p]]
                ELSE row[p]
  BY DEF PhaseB
<1> QED
  <2>1. CASE p \in Changed
    <3>1. seen[p] # None
      BY <2>1 DEF Changed
    <3>2. [row[p] EXCEPT !.val = seen[p], !.hash = seen[p]] \in Rows
          /\ [row[p] EXCEPT !.val = seen[p], !.hash = seen[p]].val = seen[p]
          /\ [row[p] EXCEPT !.val = seen[p], !.hash = seen[p]].stamped = row[p].stamped
      BY <1>1 DEF Rows
    <3> QED
      BY <1>2, <2>1, <3>1, <3>2
  <2>2. CASE p \notin Changed
    <3>1. row'[p] = row[p]
      BY <1>2, <2>2
    <3> QED
      BY <1>1, <3>1
  <2> QED
    BY <2>1, <2>2

\* A run has no tasks before its Phase C, or none that has an answer.
LEMMA PhaseBStep == ASSUME IInv, PhaseB PROVE IInv'
<1>1. \A p \in Products :
        /\ row'[p] \in Rows
        /\ row'[p].val = row[p].val \/ (row'[p].val = seen[p] /\ seen[p] # None)
  BY RowsOfPhaseB
<1>2. TypeOK'
  <2>1. row' \in [Products -> Rows]
    BY <1>1 DEF PhaseB
  <2> QED
    BY <2>1 DEF IInv, TypeOK, PhaseB, Changed
<1>3. ToCome' /\ Minded'
  BY DEF IInv, ToCome, Minded, PhaseB
<1>4. NotAhead'
  BY <1>1 DEF IInv, NotAhead, PhaseB
<1>5. ASSUME NEW p \in Products, run \in Runs PROVE task[run][p].at # "write"
  <2>1. run \notin left /\ pc # "details"
    BY DEF IInv, ToCome, PhaseB
  <2> QED
    BY <1>5, <2>1 DEF IInv, Minded, Alive
<1>6. InHandIsNewer'
  BY <1>5 DEF InHandIsNewer, PhaseB
<1> QED
  BY <1>2, <1>3, <1>4, <1>6 DEF IInv, MergedIsStamped, RestIsEnded, PhaseB

\* The tasks are there, and have no answer yet.
LEMMA SelectStep == ASSUME IInv, Select PROVE IInv'
<1>1. PICK list \in {queue \cup heal : heal \in SUBSET Bare} \cup {Stored} :
        /\ task' = [task EXCEPT ![run] = [p \in Products |->
                      IF p \in list THEN [at |-> "waiting", got |-> None] ELSE NoTask]]
        /\ pc' = IF list = {} THEN "rest" ELSE "details"
  BY DEF Select
<1>2. run \in Runs /\ run \notin left /\ pc # "details"
  BY DEF IInv, ToCome, Select
<1>3. \A p \in Products :
        task'[run][p] = IF p \in list THEN [at |-> "waiting", got |-> None] ELSE NoTask
  BY <1>1, <1>2 DEF IInv, TypeOK
<1>4. \A r \in Runs \ {run} : task'[r] = task[r]
  BY <1>1, <1>2 DEF IInv, TypeOK
<1>5. /\ [at |-> "waiting", got |-> None] \in Tasks
      /\ [at |-> "waiting", got |-> None].at = "waiting"
      /\ [at |-> "waiting", got |-> None].got = 0
  BY Places DEF Alive
<1>6. TypeOK'
  BY <1>1, <1>5, Places DEF IInv, TypeOK, Select
<1>7. ToCome'
  BY <1>1, <1>2, <1>4, Numbers DEF IInv, ToCome, Select
<1>8. list = {} => \A p \in Products : task'[run][p].at = "none"
  BY <1>3, Places
<1>9. Minded'
  <2> SUFFICES ASSUME NEW r \in Runs \ left, NEW p \in Products, task'[r][p].at \in Alive
               PROVE  r = run /\ pc' = "details"
    BY DEF Minded, Select
  <2>1. r = run
    BY <1>2, <1>4 DEF IInv, Minded
  <2> QED
    BY <2>1, <1>1, <1>8 DEF Alive
<1>10. \A p \in Products : task'[run][p].at \in {"waiting", "none"} /\ task'[run][p].got = 0
  BY <1>3, <1>5, Places
<1>11. NotAhead'
  <2>1. \A p \in Products : now[p] \in Nat
    BY Numbers DEF IInv, TypeOK
  <2>2. ASSUME NEW p \in Products, NEW r \in Runs PROVE task'[r][p].got <= now[p]
    BY <1>4, <1>10, <2>1 DEF IInv, NotAhead
  <2> QED
    BY <2>2 DEF IInv, NotAhead, Select
<1>12. InHandIsNewer' /\ MergedIsStamped' /\ RestIsEnded'
  BY <1>1, <1>8, <1>10 DEF InHandIsNewer, MergedIsStamped, RestIsEnded, Select
<1> QED
  BY <1>6, <1>7, <1>9, <1>11, <1>12 DEF IInv

\* gather returns, or raises and leaves its tasks alone.
LEMMA GatherStep == ASSUME IInv, GatherReturns \/ GatherRaises PROVE IInv'
<1>1. run \in Runs /\ pc = "details"
  BY DEF IInv, ToCome, GatherReturns, GatherRaises
<1>2. CASE GatherReturns
  <2>1. \A p \in Products : task[run][p].at \in {"none", "merged", "failed"}
    <3> SUFFICES ASSUME NEW p \in Products
                 PROVE  task[run][p].at \in {"none", "merged", "failed"}
      OBVIOUS
    <3>1. task[run][p].at \notin Alive \cup {"fetch_raised", "write_raised"}
      BY <1>2 DEF GatherReturns, Of
    <3>2. task[run][p].at \in Alive \cup Ended
      BY <1>1 DEF IInv, TypeOK, Tasks
    <3> QED
      BY <1>1, <3>1, <3>2 DEF IInv, RestIsEnded, Ended
  <2>2. TypeOK' /\ NotAhead'
    BY <1>2 DEF IInv, TypeOK, NotAhead, GatherReturns
  <2>3. ToCome'
    BY <1>2 DEF IInv, ToCome, GatherReturns
  <2>4. Minded'
    BY <1>2, <2>1 DEF IInv, Minded, Alive, GatherReturns
  <2>5. InHandIsNewer'
    BY <1>2 DEF IInv, InHandIsNewer, Earlier, GatherReturns
  <2>6. MergedIsStamped' /\ RestIsEnded'
    BY <1>2, <2>1 DEF IInv, MergedIsStamped, RestIsEnded, GatherReturns
  <2> QED
    BY <2>2, <2>3, <2>4, <2>5, <2>6 DEF IInv
<1>3. CASE GatherRaises
  <2>1. TypeOK' /\ NotAhead'
    BY <1>1, <1>3 DEF IInv, TypeOK, NotAhead, GatherRaises
  <2>2. ToCome' /\ Minded'
    BY <1>1, <1>3, Numbers DEF IInv, ToCome, Minded, GatherRaises
  <2>3. InHandIsNewer'
    BY <1>3 DEF IInv, InHandIsNewer, Earlier, GatherRaises
  <2> QED
    BY <1>3, <2>1, <2>2, <2>3 DEF IInv, MergedIsStamped, RestIsEnded, GatherRaises
<1> QED
  BY <1>2, <1>3

\* The run is cancelled, and its tasks with it.
LEMMA CancelledStep == ASSUME IInv, Cancelled PROVE IInv'
<1>1. run \in Runs /\ run \notin left
  BY DEF IInv, ToCome, Cancelled
<1>2. task'[run] = Gone(run) /\ \A r \in Runs \ {run} : task'[r] = task[r]
  BY <1>1 DEF IInv, TypeOK, Cancelled
<1>3. TypeOK'
  BY <1>1, GoneType DEF IInv, TypeOK, Cancelled
<1>4. ToCome'
  BY <1>1, <1>2, Numbers DEF IInv, ToCome, Cancelled
<1>5. Minded'
  BY <1>1, <1>2, GoneType DEF IInv, Minded, Cancelled
<1>6. NotAhead'
  <2>1. ASSUME NEW p \in Products, NEW r \in Runs PROVE task'[r][p].got <= now[p]
    <3>1. task'[r][p].got <= task[r][p].got \/ task'[r] = task[r]
      BY <1>2, GoneType DEF IInv
    <3>2. task[r][p] \in Tasks /\ task'[r][p] \in Tasks
      BY <1>3 DEF IInv, TypeOK
    <3>3. task[r][p].got \in Nat /\ task'[r][p].got \in Nat
      BY <3>2, TaskNumbers
    <3>4. now[p] \in Nat /\ task[r][p].got <= now[p]
      BY Numbers DEF IInv, TypeOK, NotAhead
    <3> QED
      BY <3>1, <3>3, <3>4
  <2> QED
    BY <2>1 DEF IInv, NotAhead, Cancelled
<1>7. \A p \in Products : task'[run][p].at # "write"
  BY <1>1, <1>2, GoneType DEF IInv, Alive
<1> QED
  BY <1>3, <1>4, <1>5, <1>6, <1>7
     DEF IInv, InHandIsNewer, MergedIsStamped, RestIsEnded, Cancelled

\* Other phases end, well or badly.
LEMMA PhaseEndsStep == ASSUME IInv, Aborts \/ Rest PROVE IInv'
<1>1. TypeOK' /\ NotAhead'
  BY DEF IInv, TypeOK, NotAhead, Aborts, Rest
<1>2. ToCome' /\ Minded'
  BY DEF IInv, ToCome, Minded, Aborts, Rest
<1>3. InHandIsNewer'
  BY DEF IInv, InHandIsNewer, Earlier, Aborts, Rest
<1> QED
  BY <1>1, <1>2, <1>3 DEF IInv, MergedIsStamped, RestIsEnded, Aborts, Rest

\* The run closes; tasks that are alive are alive.
LEMMA CloseStep == ASSUME IInv, Close PROVE IInv'
<1>1. run \in Runs
  BY DEF IInv, ToCome, Close
<1>2. \A p \in Products :
        task'[run][p] = IF task[run][p].at \in Alive THEN task[run][p] ELSE NoTask
  BY <1>1 DEF IInv, TypeOK, Close, LivingOn
<1>3. \A r \in Runs \ {run} : task'[r] = task[r]
  BY <1>1 DEF IInv, TypeOK, Close
<1>4. LivingOn \in [Products -> Tasks]
  BY <1>1, Places DEF IInv, TypeOK, LivingOn
<1>5. TypeOK'
  BY <1>1, <1>4 DEF IInv, TypeOK, Close
<1>6. ToCome'
  BY <1>1, <1>3, Numbers DEF IInv, ToCome, Close
<1>7. Minded'
  BY <1>1, <1>2, <1>3, Places DEF IInv, Minded, Alive, Close
<1>8. NotAhead'
  <2>1. \A p \in Products : now[p] \in Nat /\ seen'[p] = 0
    BY Numbers DEF IInv, TypeOK, Close
  <2>2. ASSUME NEW p \in Products, NEW r \in Runs PROVE task'[r][p].got <= now[p]
    BY <1>2, <1>3, <2>1, Places DEF IInv, NotAhead
  <2> QED
    BY <2>1, <2>2 DEF IInv, NotAhead, Close
<1>9. InHandIsNewer'
  BY <1>1, <1>2, Places DEF IInv, InHandIsNewer, Earlier, Close
<1> QED
  BY <1>5, <1>6, <1>7, <1>8, <1>9 DEF IInv, MergedIsStamped, RestIsEnded, Close

\* A process is gone with its tasks, and with the run if it is its.
LEMMA ProcessEndsStep ==
  ASSUME IInv, NEW r \in Runs, ProcessEnds(r) PROVE IInv'
<1>1. \A s \in Runs : task'[s] = IF s \in Beside(r) THEN Gone(s) ELSE task[s]
  BY DEF ProcessEnds
<1>2. task' \in [Runs -> [Products -> Tasks]]
  BY GoneType DEF IInv, TypeOK, ProcessEnds
<1>3. TypeOK'
  BY <1>2 DEF IInv, TypeOK, ProcessEnds
<1>4. ToCome'
  BY <1>1, GoneType DEF IInv, ToCome, ProcessEnds
<1>5. \A s \in Runs : \A p \in Products :
        /\ task'[s][p].at \in Alive => task'[s] = task[s] /\ s \notin Beside(r)
        /\ task'[s][p].got <= task[s][p].got
  <2> SUFFICES ASSUME NEW s \in Runs, NEW p \in Products
               PROVE  /\ task'[s][p].at \in Alive => task'[s] = task[s] /\ s \notin Beside(r)
                      /\ task'[s][p].got <= task[s][p].got
    OBVIOUS
  <2>1. task[s][p].got \in Nat
    BY TaskNumbers DEF IInv, TypeOK
  <2> QED
    BY <1>1, <2>1, GoneType DEF IInv
<1>6. Minded'
  BY <1>5 DEF IInv, Minded, ProcessEnds
<1>7. NotAhead'
  <2>1. ASSUME NEW p \in Products, NEW s \in Runs PROVE task'[s][p].got <= now[p]
    <3>1. task[s][p] \in Tasks /\ task'[s][p] \in Tasks
      BY <1>3 DEF IInv, TypeOK
    <3>2. task[s][p].got \in Nat /\ task'[s][p].got \in Nat
      BY <3>1, TaskNumbers
    <3>3. now[p] \in Nat /\ task[s][p].got <= now[p]
      BY Numbers DEF IInv, TypeOK, NotAhead
    <3> QED
      BY <1>5, <3>2, <3>3
  <2>2. \A p \in Products : now[p] \in Nat /\ seen'[p] \in {seen[p], 0}
    BY Numbers DEF IInv, TypeOK, ProcessEnds
  <2> QED
    BY <2>1, <2>2 DEF IInv, NotAhead, ProcessEnds
<1>8. CASE run \in Beside(r)
  <2>1. \A p \in Products : run \in Runs => task'[run][p].at # "write"
    BY <1>5, <1>8 DEF Alive
  <2> QED
    BY <1>3, <1>4, <1>6, <1>7, <1>8, <2>1
       DEF IInv, InHandIsNewer, MergedIsStamped, RestIsEnded, ProcessEnds
<1>9. CASE run \notin Beside(r)
  <2>1. run \in Runs => task'[run] = task[run]
    BY <1>1, <1>9
  <2>2. pc # "idle" => run \in Runs
    BY DEF IInv, ToCome
  <2>3. InHandIsNewer'
    BY <1>9, <2>1, <2>2 DEF IInv, InHandIsNewer, Earlier, ProcessEnds
  <2>4. MergedIsStamped' /\ RestIsEnded'
    BY <1>9, <2>1, <2>2 DEF IInv, MergedIsStamped, RestIsEnded, ProcessEnds
  <2> QED
    BY <1>3, <1>4, <1>6, <1>7, <2>3, <2>4 DEF IInv
<1> QED
  BY <1>8, <1>9
-------------------------------------------------------------------------------
(* The steps of the tasks *)

\* Only a task of this run, or one that was left behind, is alive.
LEMMA AliveIsMinded ==
  ASSUME IInv, NEW r \in Runs, NEW p \in Products, task[r][p].at \in Alive
  PROVE  /\ r <= run /\ run \in Nat
         /\ r \in left \/ (r = run /\ pc = "details")
         /\ ~Earlier => r = run
         /\ pc = "rest" => r # run
<1>1. run \in Nat /\ r \in Nat
  BY Numbers DEF IInv, TypeOK
<1>2. r <= run
  <2>1. CASE r > run
    <3>1. task[r][p].at = "none"
      BY <2>1, Places DEF IInv, ToCome
    <3> QED
      BY <3>1 DEF Alive
  <2> QED
    BY <1>1, <2>1
<1>3. r \in left \/ (r = run /\ pc = "details")
  BY DEF IInv, Minded
<1>4. pc = "rest" => r # run
  BY DEF IInv, RestIsEnded, Alive
<1> QED
  BY <1>1, <1>2, <1>3, <1>4 DEF Earlier

\* A task moves, and drops its answer.
LEMMA MovesStep ==
  ASSUME IInv, NEW r \in Runs, NEW p \in Products, task[r][p].at \in Alive,
         NEW to \in {"fetch", "failed", "fetch_raised", "write_raised"},
         Moves(r, p, to), row' = row
  PROVE  IInv'
<1>1. task'[r][p] = [at |-> to, got |-> None]
  BY DEF IInv, TypeOK, Moves
<1>2. \A s \in Runs : \A q \in Products : s # r \/ q # p => task'[s][q] = task[s][q]
  BY DEF IInv, TypeOK, Moves
<1>3. /\ [at |-> to, got |-> None] \in Tasks
      /\ [at |-> to, got |-> None].at = to /\ [at |-> to, got |-> None].got = 0
  BY Places DEF Alive, Ended
<1>4. TypeOK'
  BY <1>3 DEF IInv, TypeOK, Moves
<1>5. r <= run /\ run \in Nat /\ (r \in left \/ (r = run /\ pc = "details"))
      /\ (pc = "rest" => r # run)
  BY AliveIsMinded
<1>6. ToCome'
  <2>1. \A s \in Runs : s > run => task'[s] = task[s]
    BY <1>5, Numbers DEF IInv, TypeOK, Moves
  <2> QED
    BY <2>1 DEF IInv, ToCome, Moves
<1>7. Minded'
  BY <1>2, <1>5 DEF IInv, Minded, Moves
<1>8. NotAhead'
  <2>1. \A q \in Products : now[q] \in Nat
    BY Numbers DEF IInv, TypeOK
  <2>2. ASSUME NEW q \in Products, NEW s \in Runs PROVE task'[s][q].got <= now[q]
    BY <1>1, <1>2, <1>3, <2>1 DEF IInv, NotAhead
  <2> QED
    BY <2>2 DEF IInv, NotAhead, Moves
<1>9. InHandIsNewer'
  BY <1>1, <1>2, <1>3 DEF IInv, ToCome, InHandIsNewer, Earlier, Moves
<1>10. pc \in {"details", "rest"} => run \in Runs
  BY DEF IInv, ToCome
<1>11. MergedIsStamped'
  BY <1>1, <1>2, <1>3, <1>10 DEF IInv, MergedIsStamped, Moves
<1>12. RestIsEnded'
  BY <1>1, <1>2, <1>3, <1>5, <1>10 DEF IInv, RestIsEnded, Moves
<1> QED
  BY <1>4, <1>6, <1>7, <1>8, <1>9, <1>11, <1>12 DEF IInv

\* The answer is what the API says now: nothing is newer.
LEMMA AnsweredStep ==
  ASSUME IInv, NEW r \in Runs, NEW p \in Products, Answered(r, p)
  PROVE  IInv'
<1>1. task'[r][p] = [at |-> "write", got |-> now[p]]
  BY DEF IInv, TypeOK, Answered
<1>2. \A s \in Runs : \A q \in Products : s # r \/ q # p => task'[s][q] = task[s][q]
  BY DEF IInv, TypeOK, Answered
<1>3. now[p] \in Versions
  BY DEF IInv, TypeOK
<1>4. /\ [at |-> "write", got |-> now[p]] \in Tasks
      /\ [at |-> "write", got |-> now[p]].at = "write"
      /\ [at |-> "write", got |-> now[p]].got = now[p]
  BY <1>3, Places DEF Alive
<1>5. TypeOK'
  BY <1>4 DEF IInv, TypeOK, Answered
<1>6. r <= run /\ run \in Nat /\ (r \in left \/ (r = run /\ pc = "details"))
      /\ (pc = "rest" => r # run)
  BY AliveIsMinded DEF Answered, Alive
<1>7. ToCome'
  <2>1. \A s \in Runs : s > run => task'[s] = task[s]
    BY <1>6, Numbers DEF IInv, TypeOK, Answered
  <2> QED
    BY <2>1 DEF IInv, ToCome, Answered
<1>8. Minded'
  BY <1>2, <1>6 DEF IInv, Minded, Answered
<1>9. NotAhead'
  <2>1. now[p] \in Nat
    BY <1>3, Numbers
  <2>2. ASSUME NEW q \in Products, NEW s \in Runs PROVE task'[s][q].got <= now[q]
    BY <1>1, <1>2, <1>4, <2>1 DEF IInv, NotAhead
  <2> QED
    BY <2>2 DEF IInv, NotAhead, Answered
<1>10. row[p].val <= now[p] /\ seen[p] <= now[p]
  BY DEF IInv, NotAhead
<1>11. InHandIsNewer'
  BY <1>1, <1>2, <1>4, <1>10 DEF IInv, ToCome, InHandIsNewer, Earlier, Answered
<1>12. pc \in {"details", "rest"} => run \in Runs
  BY DEF IInv, ToCome
<1>13. MergedIsStamped'
  BY <1>1, <1>2, <1>4, <1>12 DEF IInv, MergedIsStamped, Answered
<1>14. RestIsEnded'
  BY <1>1, <1>2, <1>4, <1>6, <1>12 DEF IInv, RestIsEnded, Answered
<1> QED
  BY <1>5, <1>7, <1>8, <1>9, <1>11, <1>13, <1>14 DEF IInv

\* The answer goes into the row.
LEMMA MergeStep ==
  ASSUME IInv, NEW r \in Runs, NEW p \in Products, Merge(r, p)
  PROVE  IInv'
<1>0. PICK end \in {"merged", "failed"} : Moves(r, p, end)
  BY DEF Merge
<1>1. task'[r][p] = [at |-> end, got |-> None]
  BY <1>0 DEF IInv, TypeOK, Moves
<1>2. \A s \in Runs : \A q \in Products : s # r \/ q # p => task'[s][q] = task[s][q]
  BY <1>0 DEF IInv, TypeOK, Moves
<1>3. /\ [at |-> end, got |-> None] \in Tasks
      /\ [at |-> end, got |-> None].at = end /\ [at |-> end, got |-> None].got = 0
  BY Places DEF Ended
<1>4. task[r][p] \in Tasks /\ task[r][p].got \in Versions \cup {None} /\ row[p] \in Rows
  BY DEF IInv, TypeOK, Tasks
<1>5. /\ row'[p] \in Rows /\ row'[p].val = task[r][p].got /\ row'[p].stamped
      /\ \A q \in Products \ {p} : row'[q] = row[q]
  <2>1. row'[p] = [row[p] EXCEPT !.val = task[r][p].got, !.stamped = TRUE]
        /\ \A q \in Products \ {p} : row'[q] = row[q]
    BY DEF IInv, TypeOK, Merge
  <2> QED
    BY <1>4, <2>1 DEF Rows
<1>6. TypeOK'
  <2>1. row' \in [Products -> Rows]
    BY <1>5 DEF IInv, TypeOK, Merge
  <2> QED
    BY <1>0, <1>3, <2>1 DEF IInv, TypeOK, Moves
<1>7. /\ r <= run /\ run \in Nat /\ (r \in left \/ (r = run /\ pc = "details"))
      /\ (~Earlier => r = run) /\ (pc = "rest" => r # run)
  BY AliveIsMinded DEF Merge, Alive
<1>8. ToCome'
  <2>1. \A s \in Runs : s > run => task'[s] = task[s]
    BY <1>0, <1>7, Numbers DEF IInv, TypeOK, Moves
  <2> QED
    BY <1>0, <2>1 DEF IInv, ToCome, Moves
<1>9. Minded'
  BY <1>0, <1>1, <1>2, <1>3, <1>7 DEF IInv, Minded, Moves, Alive
<1>10. NotAhead'
  <2>1. \A q \in Products : now[q] \in Nat
    BY Numbers DEF IInv, TypeOK
  <2>2. ASSUME NEW q \in Products, NEW s \in Runs PROVE task'[s][q].got <= now[q]
    BY <1>1, <1>2, <1>3, <2>1 DEF IInv, NotAhead
  <2>3. ASSUME NEW q \in Products PROVE row'[q].val <= now[q]
    BY <1>5 DEF IInv, NotAhead
  <2> QED
    BY <1>0, <2>2, <2>3 DEF IInv, NotAhead, Moves
<1>11. InHandIsNewer'
  <2> SUFFICES ASSUME ~Earlier, NEW q \in Products
               PROVE  /\ pc = "persist" => seen[q] = None \/ row'[q].val <= seen[q]
                      /\ run \in Runs /\ task'[run][q].at = "write" =>
                           /\ row'[q].val <= task'[run][q].got
                           /\ pc = "details" => seen[q] <= task'[run][q].got
                      /\ pc \in {"details", "rest"} /\ task'[run][q].at = "merged" =>
                           seen[q] <= row'[q].val
    BY <1>0 DEF InHandIsNewer, Earlier, Moves
  <2>1. r = run /\ pc # "persist" /\ pc # "rest"
    BY <1>7 DEF IInv, ToCome
  <2>2. CASE q = p
    BY <1>1, <1>3, <1>5, <2>1, <2>2 DEF IInv, InHandIsNewer, Merge
  <2>3. CASE q # p
    <3>1. task'[run][q] = task[run][q] /\ row'[q] = row[q]
      BY <1>2, <1>5, <2>1, <2>3
    <3> QED
      BY <3>1 DEF IInv, InHandIsNewer
  <2> QED
    BY <2>2, <2>3
<1>12. pc \in {"details", "rest"} => run \in Runs
  BY DEF IInv, ToCome
<1>13. MergedIsStamped'
  <2> SUFFICES ASSUME pc \in {"details", "rest"}, NEW q \in Products,
                      task'[run][q].at = "merged"
               PROVE  row'[q].stamped
    BY <1>0 DEF MergedIsStamped, Moves
  <2>1. CASE q = p
    BY <1>5, <2>1
  <2>2. CASE q # p
    <3>1. task'[run][q] = task[run][q] /\ row'[q] = row[q]
      BY <1>2, <1>5, <1>12, <2>2
    <3>2. task[run][q].at = "merged"
      BY <3>1
    <3>3. row[q].stamped
      BY <3>2 DEF IInv, MergedIsStamped
    <3> QED
      BY <3>1, <3>3
  <2> QED
    BY <2>1, <2>2
<1>14. RestIsEnded'
  BY <1>0, <1>1, <1>2, <1>3, <1>7, <1>12 DEF IInv, RestIsEnded, Moves
<1> QED
  BY <1>6, <1>8, <1>9, <1>10, <1>11, <1>13, <1>14 DEF IInv

\* The API moves on: what was not ahead is not.
LEMMA WorldStep == ASSUME IInv, WorldMoves PROVE IInv'
<1>1. PICK p \in Products : now[p] < NVersions /\ now' = [now EXCEPT ![p] = @ + 1]
  BY DEF WorldMoves
<1>2. now[p] + 1 \in Versions
  BY <1>1, Numbers DEF IInv, TypeOK
<1>3. TypeOK'
  BY <1>1, <1>2 DEF IInv, TypeOK, WorldMoves
<1>4. ASSUME NEW q \in Products
      PROVE  now[q] \in Nat /\ now'[q] \in Nat /\ now[q] <= now'[q]
  <2>1. now[q] \in Nat /\ now[p] \in Nat
    BY Numbers DEF IInv, TypeOK
  <2>2. now'[q] = IF q = p THEN now[p] + 1 ELSE now[q]
    BY <1>1 DEF IInv, TypeOK
  <2> QED
    BY <2>1, <2>2
<1>5. NotAhead'
  <2>1. ASSUME NEW q \in Products
        PROVE  /\ row[q].val \in Nat /\ seen[q] \in Nat
               /\ \A r \in Runs : task[r][q].got \in Nat
    <3>1. row[q].val \in Versions \cup {0} /\ seen[q] \in Versions \cup {0}
      BY DEF IInv, TypeOK, Rows
    <3>2. \A r \in Runs : task[r][q] \in Tasks
      BY DEF IInv, TypeOK
    <3> QED
      BY <3>1, <3>2, VersionNumbers, TaskNumbers
  <2> QED
    BY <1>4, <2>1 DEF IInv, NotAhead, WorldMoves
<1> QED
  BY <1>3, <1>5
     DEF IInv, ToCome, Minded, InHandIsNewer, Earlier, MergedIsStamped, RestIsEnded, WorldMoves

\* Nothing happens.
LEMMA StutterStep == ASSUME IInv, UNCHANGED vars PROVE IInv'
BY DEF IInv, TypeOK, ToCome, Minded, NotAhead, InHandIsNewer, Earlier, MergedIsStamped,
       RestIsEnded, vars

\* A task takes a step.
LEMMA TaskStepInv ==
  ASSUME IInv, NEW r \in Runs, NEW p \in Products, TaskStep(r, p) PROVE IInv'
<1>1. CASE Answered(r, p)
  BY <1>1, AnsweredStep
<1>2. CASE Merge(r, p)
  BY <1>2, MergeStep
<1>3. CASE Acquire(r, p)
  BY <1>3, MovesStep DEF Acquire, Alive
<1>4. CASE FetchFails(r, p) \/ FetchRaises(r, p)
  BY <1>4, MovesStep DEF FetchFails, FetchRaises, Alive
<1>5. CASE WriteRaises(r, p) \/ MergeFails(r, p)
  BY <1>5, MovesStep DEF WriteRaises, MergeFails, Alive
<1> QED
  BY <1>1, <1>2, <1>3, <1>4, <1>5 DEF TaskStep

\* Every step keeps the invariant.
LEMMA StepInv == ASSUME IInv, [Next]_vars PROVE IInv'
<1>1. CASE Begin
  BY <1>1, BeginStep
<1>2. CASE PhaseA \/ PhaseB \/ Select
  BY <1>2, PhaseAStep, PhaseBStep, SelectStep
<1>3. CASE GatherReturns \/ GatherRaises \/ Cancelled
  BY <1>3, GatherStep, CancelledStep
<1>4. CASE Aborts \/ Rest \/ Close
  BY <1>4, PhaseEndsStep, CloseStep
<1>5. CASE WorldMoves
  BY <1>5, WorldStep
<1>6. CASE \E r \in Runs : ProcessEnds(r) \/ \E p \in Products : TaskStep(r, p)
  BY <1>6, ProcessEndsStep, TaskStepInv
<1>7. CASE UNCHANGED vars
  BY <1>7, StutterStep
<1> QED
  BY <1>1, <1>2, <1>3, <1>4, <1>5, <1>6, <1>7 DEF Next, RunStep

\* The invariant holds from the first state on.
LEMMA Invariance == Spec => []IInv
<1> QED
  BY InitInv, StepInv, PTL DEF Spec

-------------------------------------------------------------------------------
(* What follows *)

\* The row is written by Phase B, and by tasks that have an answer.
LEMMA WhoWrites ==
  ASSUME IInv, [Next]_vars, row' # row
  PROVE  PhaseB \/ \E r \in Runs : \E p \in Products : Merge(r, p)
BY DEF vars, Next, RunStep, Begin, PhaseA, Select, GatherReturns, GatherRaises, Cancelled,
       Aborts, Rest, Close, WorldMoves, ProcessEnds, TaskStep, Acquire, Answered, FetchFails,
       FetchRaises, WriteRaises, MergeFails, Moves

\* The state of runs, rows and tasks (sync/phases/details.py) has the right types.
THEOREM TypeCorrect == Spec => []TypeOK
<1>1. IInv => TypeOK
  BY DEF IInv
<1> QED
  BY <1>1, Invariance, PTL

\* When run_phase_c has returned, each product of its list has its details, no older than
\* Phase A's, or is among the errors.
THEOREM ListIsWorkedOff == Spec => []ListIsAccountedFor
<1>1. ASSUME IInv, pc = "rest", NEW p \in Products
      PROVE  \/ task[run][p].at \in {"none", "failed"}
             \/ /\ task[run][p].at = "merged"
                /\ row[p].stamped
                /\ row[p].val >= seen[p] \/ \E r \in left : r < run
  <2>1. row[p].val \in Nat /\ seen[p] \in Nat
    <3>1. row[p].val \in Versions \cup {0} /\ seen[p] \in Versions \cup {0}
      BY <1>1 DEF IInv, TypeOK, Rows
    <3> QED
      BY <3>1, VersionNumbers
  <2> QED
    BY <1>1, <2>1 DEF IInv, RestIsEnded, MergedIsStamped, InHandIsNewer, Earlier
<1>2. IInv => ListIsAccountedFor
  BY <1>1 DEF ListIsAccountedFor
<1> QED
  BY <1>2, Invariance, PTL

\* No row goes back to an older answer, unless a task of an earlier run was left behind
\* by its gather.
THEOREM NewestAnswerStands == Spec => RowsMoveForward
<1>1. ASSUME IInv, [Next]_vars, ~Earlier, NEW p \in Products PROVE row[p].val <= row'[p].val
  <2>1. row[p].val \in Nat
    <3>1. row[p].val \in Versions \cup {0}
      BY <1>1 DEF IInv, TypeOK, Rows
    <3> QED
      BY <3>1, VersionNumbers
  <2>2. CASE row' = row
    BY <2>1, <2>2
  <2>3. CASE PhaseB
    <3>1. row'[p].val = row[p].val \/ (row'[p].val = seen[p] /\ seen[p] # None)
      BY <1>1, <2>3, RowsOfPhaseB
    <3>2. seen[p] = None \/ row[p].val <= seen[p]
      BY <1>1, <2>3 DEF IInv, InHandIsNewer, PhaseB
    <3>3. CASE row'[p].val = row[p].val
      BY <2>1, <3>3
    <3>4. CASE row'[p].val = seen[p] /\ seen[p] # None
      BY <3>2, <3>4
    <3> QED
      BY <3>1, <3>3, <3>4
  <2>4. ASSUME NEW r \in Runs, NEW q \in Products, Merge(r, q)
        PROVE  row[p].val <= row'[p].val
    <3>1. r = run
      BY <1>1, <2>4, AliveIsMinded DEF Merge, Alive
    <3>2. CASE p = q
      <4>1. row'[p].val = task[r][p].got
        BY <1>1, <2>4, <3>2 DEF IInv, TypeOK, Rows, Merge
      <4> QED
        BY <1>1, <2>4, <3>1, <3>2, <4>1 DEF IInv, InHandIsNewer, Merge
    <3>3. CASE p # q
      <4>1. row'[p] = row[p]
        BY <1>1, <2>4, <3>3 DEF IInv, TypeOK, Merge
      <4> QED
        BY <2>1, <4>1
    <3> QED
      BY <3>2, <3>3
  <2> QED
    BY <1>1, <2>2, <2>3, <2>4, WhoWrites
<1>2. ASSUME IInv, [Next]_vars
      PROVE  [\A p \in Products : row'[p].val < row[p].val => \E r \in left : r < run]_vars
  <2>1. ASSUME [Next]_vars, IInv, NEW p \in Products, ~Earlier
        PROVE  ~(row'[p].val < row[p].val)
    <3>1. row[p].val \in Versions \cup {0} /\ row'[p].val \in Versions \cup {0}
      BY <1>2, StepInv DEF IInv, TypeOK, Rows
    <3>2. row[p].val <= row'[p].val
      BY <1>1, <2>1
    <3> QED
      BY <3>1, <3>2, VersionNumbers
  <2> QED
    BY <1>2, <2>1 DEF Earlier
<1> QED
  BY <1>2, Invariance, PTL DEF Spec, RowsMoveForward

\* A run that is over writes to no row, unless its gather has raised.
THEOREM ClosedRunsStayQuiet == Spec => ClosedRunsAreQuiet
<1>1. ASSUME IInv, [Next]_vars
      PROVE  [row' # row => pc \in {"persist", "details"} \/ left # {} ]_vars
  <2>1. ASSUME PhaseB PROVE pc = "persist"
    BY <2>1 DEF PhaseB
  <2>2. ASSUME NEW r \in Runs, NEW p \in Products, Merge(r, p)
        PROVE  pc = "details" \/ left # {}
    BY <1>1, <2>2, AliveIsMinded DEF Merge, Alive
  <2> QED
    BY <1>1, <2>1, <2>2, WhoWrites
<1> QED
  BY <1>1, Invariance, PTL DEF Spec, ClosedRunsAreQuiet
===============================================================================
