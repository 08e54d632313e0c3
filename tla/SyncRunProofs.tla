---------------------------- MODULE SyncRunProofs -----------------------------
(***************************************************************************)
(* Proofs about SyncRun for any set of callers, any number of runs and any *)
(* number of crashes.  The lock is the whole of the argument: whoever is   *)
(* past acquire is alone there, so that its row and its id are the newest, *)
(* and every other row is closed or abandoned for good.                    *)
(***************************************************************************)
EXTENDS SyncRun, TLAPS

USE SchedulerAssumption, MaxRunsAssumption, MaxCrashesAssumption

-------------------------------------------------------------------------------
(* The inductive invariant *)

Outside == {"down", "boot", "idle", "lock"}
Working == {"archive"} \cup InPhases
Ending  == InFinal \cup {"alert"}
Shut    == {"record", "config", "alert"}

\* The lock is held by the callers past acquire, and they are at most one.
LockInv ==
  /\ \A c \in Callers : c \in inside <=> pc[c] \in InLock
  /\ \A c, d \in Callers : pc[c] \in InLock /\ pc[d] \in InLock => c = d

\* Ids that the sequence has not given out are unused.
FreshInv ==
  \A r \in RunIds : r >= nextId =>
    row[r] = NoRow /\ fate[r] = "none" /\ told[r] = "none"

\* A caller has no run until it inserts its row, and then the newest.
IdOK(c) ==
  /\ pc[c] \in Outside \cup {"insert"} => run[c] = 0 /\ out[c] = NoResults
  /\ pc[c] \in Outside \cup {"insert"} \cup Working => ~pending[c]
  /\ pc[c] \in Working \cup Ending =>
       run[c] \in RunIds /\ run[c] = nextId - 1 /\ told[run[c]] = "none"
  /\ pc[c] \in Working \cup InFinal => lastRun < run[c]

\* What the phases have left in phase_results by the time they are past.
ResultsOK(c) ==
  /\ pc[c] \in {"archive", "fetch"} => out[c] = NoResults
  /\ pc[c] \in InPhases => out[c]["abort"] = "none"
  /\ pc[c] \in InPhases \ {"fetch"} => out[c]["fetch"] # "none"
  /\ pc[c] \in {"select", "details", "embed", "fts"} => out[c]["persist"] # "none"
  /\ pc[c] \in {"embed", "fts"} => out[c]["details"] # "none"
  /\ pc[c] = "fts" => out[c]["embed"] # "none"
  /\ \A s \in Phases : out[c][s] # "fatal"

\* The row of a run is untouched until Phase F.
OpenRow == [status |-> "running", recorded |-> {}, verdict |-> "success"]

OpenOK(c) ==
  /\ pc[c] \in Working \cup {"close"} =>
       row[run[c]] = OpenRow
  /\ pc[c] \in Working => fate[run[c]] = "going"

\* How the run has ended when Phase F begins.
EndOK(c) ==
  /\ pc[c] \in Ending =>
       \/ /\ fate[run[c]] = "completed" /\ ~pending[c] /\ out[c]["abort"] = "none"
          /\ \A s \in Phases : out[c][s] # "none"
       \/ fate[run[c]] = "aborted" /\ ~pending[c] /\ out[c]["abort"] = "fatal"
       \/ fate[run[c]] = "escaped" /\ pending[c] /\ out[c]["abort"] = "none"
  /\ pc[c] = "alert" => ~pending[c]

\* The results of a run that are in a set of slots.
Present(res) == {s \in Slots : res[s] # "none"}
Part(res, S) == [s \in Slots |-> IF s \in S THEN res[s] ELSE "none"]

\* What Phase F has written so far.
ShutOK(c) ==
  /\ pc[c] \in Shut =>
       /\ row[run[c]].status = Overall(out[c])
       /\ row[run[c]].recorded \subseteq Present(out[c])
       /\ row[run[c]].verdict = Overall(Part(out[c], row[run[c]].recorded))
  /\ pc[c] \in {"config", "alert"} => row[run[c]].recorded = Present(out[c])

CallerOK(c) == IdOK(c) /\ ResultsOK(c) /\ OpenOK(c) /\ EndOK(c) /\ ShutOK(c)

\* A row that says "running" is the row of a caller before Phase F's first write,
\* or it is lost.
OwnerInv ==
  \A r \in RunIds : row[r].status = "running" /\ fate[r] # "lost" =>
    \E c \in Callers : pc[c] \in Working \cup {"close"} /\ run[c] = r

\* Closed rows, and what the notifier was told of them.
ClosedInv ==
  \A r \in RunIds :
    /\ row[r].status \in Closed =>
         /\ fate[r] \in {"completed", "aborted", "escaped"}
         /\ row[r].status = "failed" <=> fate[r] = "aborted"
         /\ row[r].status = "success" => row[r].verdict = "success"
    /\ row[r].status = "absent" => fate[r] = "none"
    /\ told[r] # "none" => told[r] = row[r].status /\ fate[r] \in {"completed", "aborted"}

LastInv ==
  /\ lastRun < nextId
  /\ LastRunIsWhole

\* The parts that speak of all runs, and the whole.
RunsInv == FreshInv /\ OwnerInv /\ ClosedInv /\ LastInv

IInv == TypeOK /\ LockInv /\ (\A c \in Callers : CallerOK(c)) /\ RunsInv

-------------------------------------------------------------------------------
(* Types *)

\* The operators of the model stay within their types.
LEMMA ConstantTypes ==
  /\ NoResults \in Results
  /\ NoRow \in Rows
  /\ NoWork \in Works
  /\ \A res \in Results : Overall(res) \in Closed
  /\ \A status, grade : AddTo(status, grade) \in Closed
BY DEF NoResults, Results, Grades, NoRow, Rows, Closed, NoWork, Works, Overall, AddTo

\* A result, an end or an abandonment put the variables they change within types.
LEMMA CommonTypes ==
  ASSUME TypeOK, NEW c \in Callers
  PROVE  /\ \A s \in Slots, g \in Grades : [out EXCEPT ![c][s] = g] \in [Callers -> Results]
         /\ \A r \in RunIds \cup {0}, how \in Fates :
              [fate EXCEPT ![r] = how] \in [RunIds -> Fates]
         /\ \A t \in BOOLEAN : [pending EXCEPT ![c] = t] \in [Callers -> BOOLEAN]
         /\ \A to \in PCs : [pc EXCEPT ![c] = to] \in [Callers -> PCs]
         /\ \A w \in Works : [work EXCEPT ![c] = w] \in [Callers -> Works]
         /\ \A t \in BOOLEAN :
              /\ [work EXCEPT ![c].todo = t] \in [Callers -> Works]
              /\ [work EXCEPT ![c].touched = t] \in [Callers -> Works]
              /\ [work EXCEPT ![c] = [todo |-> FALSE, touched |-> @.touched \/ t]]
                   \in [Callers -> Works]
         /\ (Abandons(c) => fate' \in [RunIds -> Fates])
BY DEF TypeOK, Results, Abandons, Fates, Works

\* Every step keeps the variables within their types.
LEMMA TypeStep == TypeOK /\ [Next]_vars => TypeOK'
<1> SUFFICES ASSUME TypeOK, [Next]_vars PROVE TypeOK'
  OBVIOUS
<1> USE DEF TypeOK, localVars, dbVars, lockVars
<1>1. CASE UNCHANGED vars
  BY <1>1 DEF vars
<1>2. ASSUME NEW c \in Callers, Step(c) PROVE TypeOK'
  <2> USE DEF Goto, Forget, PCs, InLock, Running, InPhases, InFinal
  <2>1. CASE Boot(c) \/ Start(c) \/ Restart(c)
    BY <2>1 DEF Boot, Start, Restart
  <2>2. CASE Acquire(c)
    BY <2>2 DEF Acquire, Take, Lock!Enter
  <2>3. CASE Busy(c)
    BY <2>3, ConstantTypes DEF Busy
  <2>4. CASE InsertRow(c)
    <3>1. nextId \in RunIds /\ nextId + 1 \in 1 .. MaxRuns + 1
      BY <2>4 DEF InsertRow, RunIds
    <3>2. row' \in [RunIds -> Rows]
      BY <2>4, <3>1 DEF InsertRow, Rows
    <3> QED BY <2>4, <3>1, <3>2 DEF InsertRow, Ends, Fates, RunIds
  <2>5. CASE InsertFails(c)
    BY <2>5 DEF InsertFails
  <2>6. run[c] \in RunIds \cup {0}
    BY DEF RunIds
  <2>7. ASSUME Abort(c) PROVE TypeOK'
    BY <2>6, <2>7, CommonTypes, ConstantTypes DEF Abort, Ends, Slots, Grades, Fates
  <2>8. ASSUME Escape(c) PROVE TypeOK'
    BY <2>6, <2>8, CommonTypes, ConstantTypes DEF Escape, Ends, Fates
  <2>9. ASSUME GiveUp(c) PROVE TypeOK'
    BY <2>9, CommonTypes DEF GiveUp
  <2>10. ASSUME NEW s \in Phases, NEW g \in {"clean", "short"}, NEW to \in PCs,
                Finish(c, s, g, to),
                work' \in [Callers -> Works],
                fate' \in [RunIds -> Fates]
         PROVE  TypeOK'
    BY <2>10, CommonTypes DEF Finish, Slots, Grades
  <2>11. CASE OpenArchive(c)
    BY <2>9, <2>11 DEF OpenArchive
  <2>12. CASE Fetch(c)
    <3>1. CASE \E g \in {"clean", "short"} :
                 Finish(c, "fetch", g, "persist") /\ UNCHANGED <<work, fate>>
      BY <2>10, <3>1 DEF Phases
    <3>2. CASE \/ Abort(c) \/ Escape(c)
      BY <2>7, <2>8, <3>2
    <3>3. CASE CancelledAfterFetch(c)
      BY <2>6, <3>3, CommonTypes DEF CancelledAfterFetch, Ends, Slots, Phases, Grades, Fates
    <3> QED BY <2>12, <3>1, <3>2, <3>3 DEF Fetch
  <2>13. CASE Persist(c)
    <3>1. "persist" \in Phases
      BY DEF Phases
    <3>2. ASSUME NEW t \in BOOLEAN, work' = [work EXCEPT ![c].touched = t],
                 Finish(c, "persist", "clean", "select"), fate' = fate
          PROVE  TypeOK'
      <4>1. work' \in [Callers -> Works]
        BY <3>2, CommonTypes
      <4> QED BY <2>10, <3>1, <3>2, <4>1
    <3> QED BY <2>7, <2>13, <3>2 DEF Persist
  <2>14. CASE Select(c)
    <3>1. ASSUME NEW t \in BOOLEAN, work' = [work EXCEPT ![c].todo = t],
                 Goto(c, "details"),
                 UNCHANGED <<run, out, pending, lockVars, dbVars, told, fate, crashes>>
          PROVE  TypeOK'
      <4>1. work' \in [Callers -> Works]
        BY <3>1, CommonTypes
      <4> QED BY <3>1, <4>1
    <3> QED BY <2>8, <2>14, <3>1 DEF Select
  <2>15. CASE Details(c)
    <3>1. work[c].todo \in BOOLEAN /\ "details" \in Phases
      BY DEF Works, Phases
    <3>2. CASE /\ Finish(c, "details", "clean", "embed")
               /\ work' = [work EXCEPT ![c] = [todo |-> FALSE,
                                              touched |-> @.touched \/ @.todo]]
               /\ UNCHANGED fate
      BY <2>10, <3>1, <3>2, CommonTypes
    <3>3. CASE /\ Finish(c, "details", "short", "embed")
               /\ \E t \in BOOLEAN :
                    work' = [work EXCEPT ![c] = [todo |-> FALSE,
                                                 touched |-> @.touched \/ t]]
               /\ UNCHANGED fate
      <4>1. PICK t \in BOOLEAN :
              work' = [work EXCEPT ![c] = [todo |-> FALSE, touched |-> work[c].touched \/ t]]
        BY <3>3
      <4>2. work[c].touched \in BOOLEAN
        BY DEF Works
      <4>3. [todo |-> FALSE, touched |-> work[c].touched \/ t] \in Works
        BY <4>2 DEF Works
      <4>4. work' \in [Callers -> Works]
        BY <4>1, <4>3
      <4> QED BY <2>10, <3>1, <3>3, <4>4
    <3> QED BY <2>8, <2>15, <3>2, <3>3 DEF Details
  <2>16. CASE Embed(c)
    BY <2>7, <2>8, <2>10, <2>16 DEF Embed, Phases
  <2>17. CASE Index(c)
    <3>1. ASSUME NEW g \in {"clean", "short"}, Finish(c, "fts", g, "close"),
                 Ends(run[c], "completed"), work' = [work EXCEPT ![c] = NoWork]
          PROVE  TypeOK'
      <4>1. "fts" \in Phases /\ "completed" \in Fates
        BY DEF Phases, Fates
      <4>2. fate' \in [RunIds -> Fates]
        BY <2>6, <3>1, <4>1, CommonTypes DEF Ends
      <4>3. work' \in [Callers -> Works]
        BY <3>1, CommonTypes, ConstantTypes
      <4> QED BY <2>10, <3>1, <4>1, <4>2, <4>3
    <3> QED BY <2>8, <2>17, <3>1 DEF Index
  <2>18. CASE CloseRow(c)
    <3>1. Overall(out[c]) \in Closed
      BY ConstantTypes
    <3> QED BY <2>18, <3>1 DEF CloseRow, Rows
  <2>19. CASE RecordPhase(c)
    <3>1. PICK s \in Slots :
            row' = [row EXCEPT ![run[c]].recorded = @ \cup {s},
                               ![run[c]].verdict  = AddTo(@, out[c][s])]
      BY <2>19 DEF RecordPhase, Unwritten
    <3>2. row' \in [RunIds -> Rows]
      BY <3>1, ConstantTypes DEF Rows
    <3> QED BY <2>19, <3>2 DEF RecordPhase
  <2>20. CASE PhasesRecorded(c)
    BY <2>20 DEF PhasesRecorded
  <2>21. CASE WriteConfig(c)
    BY <2>21 DEF WriteConfig
  <2>22. CASE FinalFails(c)
    BY <2>9, <2>22 DEF FinalFails
  <2>23. CASE Alert(c)
    BY <2>23, ConstantTypes DEF Alert
  <2>24. CASE Release(c)
    BY <2>24, ConstantTypes DEF Release, Lock!Leave
  <2>25. CASE Crash(c)
    <3>1. inside' \in SUBSET Callers /\ leftover' \in BOOLEAN
      BY <2>25 DEF Crash, Lock!Leave
    <3> QED BY <2>25, <3>1, CommonTypes, ConstantTypes DEF Crash
  <2> QED
    BY <1>2, <2>1, <2>2, <2>3, <2>4, <2>5, <2>11, <2>12, <2>13, <2>14, <2>15, <2>16,
       <2>17, <2>18, <2>19, <2>20, <2>21, <2>22, <2>23, <2>24, <2>25
       DEF Step, RunStep, PhaseStep, FinalStep
<1> QED BY <1>1, <1>2 DEF Next

-------------------------------------------------------------------------------
(* The status of a run, result after result *)

\* AddTo computes overall_status one recorded result at a time.
LEMMA OverallByResult ==
  ASSUME NEW res \in Results, NEW S \in SUBSET Slots, NEW s \in Slots
  PROVE  AddTo(Overall(Part(res, S)), res[s]) = Overall(Part(res, S \cup {s}))
<1> DEFINE T == S \cup {s}
<1>1. \A t \in Slots : Part(res, T)[t] = IF t = s THEN res[s] ELSE Part(res, S)[t]
  BY DEF Part
<1>2. (\E t \in Slots : Part(res, T)[t] = "fatal")
        <=> (\E t \in Slots : Part(res, S)[t] = "fatal") \/ res[s] = "fatal"
  BY <1>1 DEF Part
<1>3. (\E t \in Slots : Part(res, T)[t] = "short")
        <=> (\E t \in Slots : Part(res, S)[t] = "short") \/ res[s] = "short"
  BY <1>1 DEF Part
<1> HIDE DEF T
<1>4. AddTo(Overall(Part(res, S)), res[s]) = Overall(Part(res, T))
  BY <1>2, <1>3 DEF AddTo, Overall
<1> QED BY <1>4 DEF T

\* All results together give the status, no results give "success", and some of the
\* results of a successful run never give anything else.
LEMMA OverallOfParts ==
  ASSUME NEW res \in Results
  PROVE  /\ Overall(Part(res, Present(res))) = Overall(res)
         /\ Overall(Part(res, {})) = "success"
         /\ \A S : Overall(res) = "success" => Overall(Part(res, S)) = "success"
<1>1. \A t \in Slots : Part(res, Present(res))[t] = res[t]
  BY DEF Part, Present
<1>2. \A S : \A t \in Slots : Part(res, S)[t] \in {"none", res[t]}
  BY DEF Part
<1>3. \A t \in Slots : Part(res, {})[t] = "none"
  BY DEF Part
<1> QED BY <1>1, <1>2, <1>3 DEF Overall

-------------------------------------------------------------------------------
(* The lock *)

\* Whoever is past acquire is alone there, and a run that is open is its run.
LEMMA Alone ==
  ASSUME IInv, NEW c \in Callers, pc[c] \in InLock
  PROVE  /\ \A d \in Callers \ {c} : pc[d] \in Outside
         /\ \A r \in RunIds : row[r].status = "running" /\ fate[r] # "lost" =>
              pc[c] \in Working \cup {"close"} /\ run[c] = r
<1> USE DEF IInv, LockInv
<1>1. \A d \in Callers : pc[d] \in InLock \/ pc[d] \in Outside
  BY DEF TypeOK, PCs, Outside
<1>2. Working \cup {"close"} \subseteq InLock
  BY DEF Working, InLock, Running, InFinal
<1> QED BY <1>1, <1>2 DEF RunsInv, OwnerInv

\* A step of the lock's holder leaves the other callers' parts alone.
LEMMA Holder ==
  ASSUME IInv, TypeOK', NEW c \in Callers, pc[c] \in InLock,
         NEW to \in PCs, Goto(c, to),
         inside' = (IF to \in InLock THEN inside ELSE inside \ {c}),
         \A d \in Callers \ {c} :
           run'[d] = run[d] /\ out'[d] = out[d] /\ pending'[d] = pending[d]
  PROVE  /\ LockInv'
         /\ \A d \in Callers \ {c} : CallerOK(d)'
<1>1. \A d \in Callers : pc'[d] = IF d = c THEN to ELSE pc[d]
  BY DEF IInv, TypeOK, Goto
<1>2. \A d \in Callers \ {c} : pc'[d] \in Outside
  BY <1>1, Alone
<1>3. Outside \cap InLock = {}
  BY DEF Outside, InLock, Running, InPhases, InFinal
<1>4. LockInv'
  BY <1>1, <1>2, <1>3 DEF IInv, LockInv
<1>5. ASSUME NEW d \in Callers \ {c} PROVE CallerOK(d)'
  <2>1. pc[d] \in Outside /\ pc'[d] \in Outside
    BY <1>1, <1>2, Alone
  <2>2. run'[d] = 0 /\ out'[d] = NoResults /\ ~pending'[d]
    BY <2>1 DEF IInv, CallerOK, IdOK
  <2>3. \A s \in Slots : out'[d][s] = "none"
    BY <2>2 DEF NoResults
  <2> QED BY <2>1, <2>2, <2>3
          DEF CallerOK, IdOK, ResultsOK, OpenOK, EndOK, ShutOK, Outside, Working,
              InPhases, InFinal, Ending, Shut, Slots
<1> QED BY <1>4, <1>5

-------------------------------------------------------------------------------
(* The steps of a run, by what they may change *)

\* A step from one phase to the next adds a result to phase_results.
LEMMA PhaseEnds ==
  ASSUME IInv, TypeOK', NEW c \in Callers, pc[c] \in Working,
         NEW to \in InPhases, Goto(c, to), ResultsOK(c)',
         UNCHANGED <<run, pending, lockVars, dbVars, told, fate>>,
         \A d \in Callers \ {c} : out'[d] = out[d]
  PROVE  IInv'
<1> USE DEF IInv, lockVars, dbVars
<1>1. pc[c] \in InLock /\ to \in InLock /\ to \in PCs
  BY DEF Working, InLock, Running, PCs
<1>2. LockInv' /\ \A d \in Callers \ {c} : CallerOK(d)'
  BY <1>1, Holder
<1>3. pc'[c] = to
  BY DEF TypeOK, Goto
<1>4. CallerOK(c)'
  <2>1. CallerOK(c)
    OBVIOUS
  <2> QED BY <1>3, <2>1 DEF CallerOK, IdOK, OpenOK, EndOK, ShutOK, Working, Outside,
                            Ending, InPhases, InFinal, Shut
<1>5. OwnerInv'
  BY <1>1, <1>3, Alone DEF OwnerInv, Working
<1>6. FreshInv' /\ ClosedInv' /\ LastInv'
  BY DEF RunsInv, FreshInv, ClosedInv, LastInv, LastRunIsWhole
<1> QED BY <1>2, <1>4, <1>5, <1>6 DEF RunsInv

\* A step into Phase F settles how the run has ended.
LEMMA RunEnds ==
  ASSUME IInv, TypeOK', NEW c \in Callers, pc[c] \in Working, Goto(c, "close"),
         NEW how \in {"completed", "aborted", "escaped"}, Ends(run[c], how),
         ResultsOK(c)',
         \/ /\ how = "completed" /\ ~pending'[c] /\ out'[c]["abort"] = "none"
            /\ \A s \in Phases : out'[c][s] # "none"
         \/ how = "aborted" /\ ~pending'[c] /\ out'[c]["abort"] = "fatal"
         \/ how = "escaped" /\ pending'[c] /\ out'[c]["abort"] = "none",
         UNCHANGED <<run, lockVars, dbVars, told>>,
         \A d \in Callers \ {c} : out'[d] = out[d] /\ pending'[d] = pending[d]
  PROVE  IInv'
<1> USE DEF IInv, lockVars, dbVars
<1>1. pc[c] \in InLock /\ "close" \in InLock /\ "close" \in PCs
  BY DEF Working, InLock, Running, PCs, InFinal
<1>2. LockInv' /\ \A d \in Callers \ {c} : CallerOK(d)'
  BY <1>1, Holder
<1>3. pc'[c] = "close"
  BY DEF TypeOK, Goto
<1>4. /\ run[c] \in RunIds /\ run[c] = nextId - 1 /\ told[run[c]] = "none"
      /\ lastRun < run[c]
      /\ row[run[c]] = OpenRow
  BY DEF CallerOK, IdOK, OpenOK, Working
<1>5. \A r \in RunIds : fate'[r] = IF r = run[c] THEN how ELSE fate[r]
  BY DEF Ends, TypeOK
<1>6. CallerOK(c)'
  <2>1. CallerOK(c)
    OBVIOUS
  <2> QED BY <1>3, <1>4, <1>5, <2>1
          DEF CallerOK, IdOK, OpenOK, EndOK, ShutOK, Working, Outside, Ending,
              InPhases, InFinal, Shut
<1>7. OwnerInv'
  BY <1>1, <1>3, <1>5, Alone DEF OwnerInv
<1>8. FreshInv'
  BY <1>4, <1>5 DEF RunsInv, FreshInv, TypeOK, RunIds
<1>9. ClosedInv'
  BY <1>4, <1>5 DEF RunsInv, ClosedInv, OpenRow, Closed
<1>10. LastInv'
  BY <1>4, <1>5 DEF RunsInv, LastInv, LastRunIsWhole, TypeOK, RunIds
<1> QED BY <1>2, <1>6, <1>7, <1>8, <1>9, <1>10 DEF RunsInv

\* A step that leaves the run to its finally clause loses an open row.
LEMMA RunGivesUp ==
  ASSUME IInv, TypeOK', NEW c \in Callers, pc[c] \in {"archive"} \cup InFinal, GiveUp(c)
  PROVE  IInv'
<1> USE DEF IInv, lockVars, dbVars, GiveUp
<1>1. pc[c] \in InLock /\ "release" \in InLock /\ "release" \in PCs
  BY DEF InLock, Running, PCs, InFinal
<1>2. LockInv' /\ \A d \in Callers \ {c} : CallerOK(d)'
  <2>1. \A d \in Callers \ {c} : pending'[d] = pending[d]
    BY DEF TypeOK
  <2> QED BY <1>1, <2>1, Holder
<1>3. pc'[c] = "release"
  BY DEF TypeOK, Goto
<1>4. CallerOK(c)'
  <2>1. CallerOK(c)
    OBVIOUS
  <2> QED BY <1>3, <2>1
          DEF CallerOK, IdOK, ResultsOK, OpenOK, EndOK, ShutOK, Working, Outside, Ending,
              InPhases, InFinal, Shut
<1>5. \A r \in RunIds :
        fate'[r] = IF r = run[c] /\ row[r].status = "running" THEN "lost" ELSE fate[r]
  BY DEF Abandons
<1>6. OwnerInv'
  BY <1>1, <1>5, Alone DEF OwnerInv
<1>7. FreshInv' /\ ClosedInv'
  <2>1. \A r \in RunIds : row[r].status = "running" => told[r] = "none"
    BY DEF RunsInv, ClosedInv, TypeOK, Closed
  <2> QED BY <1>5, <2>1 DEF RunsInv, FreshInv, ClosedInv, NoRow, Closed
<1>8. LastInv'
  BY <1>5 DEF RunsInv, LastInv, LastRunIsWhole, TypeOK, RunIds, Closed
<1> QED BY <1>2, <1>4, <1>6, <1>7, <1>8 DEF RunsInv

-------------------------------------------------------------------------------
(* Every step *)

\* The phases.
LEMMA PhaseKeeps ==
  ASSUME IInv, TypeOK', NEW c \in Callers, PhaseStep(c)
  PROVE  IInv'
<1> USE DEF IInv, lockVars, dbVars
<1>1. \A g, s : \A d \in Callers \ {c} : [out EXCEPT ![c][s] = g][d] = out[d]
  BY DEF TypeOK
<1>2. \A d \in Callers \ {c} : [pending EXCEPT ![c] = TRUE][d] = pending[d]
  BY DEF TypeOK
<1>3. CallerOK(c) /\ pc[c] \in InPhases /\ pc[c] \in Working
  BY DEF PhaseStep, Fetch, Persist, Select, Details, Embed, Index, InPhases, Working
<1>4. ~pending[c] /\ out[c]["abort"] = "none" /\ out[c] \in Results
  BY <1>3 DEF CallerOK, IdOK, ResultsOK, TypeOK, Outside
<1>5. ASSUME Abort(c) PROVE IInv'
  <2>1. out'[c]["abort"] = "fatal" /\ \A s \in Phases : out'[c][s] = out[c][s]
    BY <1>5 DEF Abort, TypeOK, Results, Slots, Phases
  <2>2. pc'[c] = "close"
    BY <1>5 DEF Abort, Goto, TypeOK
  <2>3. ResultsOK(c)'
    BY <1>3, <2>1, <2>2 DEF CallerOK, ResultsOK, InPhases
  <2>4. \A d \in Callers \ {c} : out'[d] = out[d] /\ pending'[d] = pending[d]
    BY <1>1, <1>5 DEF Abort
  <2> QED BY <1>3, <1>4, <1>5, <2>1, <2>3, <2>4, RunEnds DEF Abort
<1>6. ASSUME Escape(c) PROVE IInv'
  <2>1. pending'[c]
    BY <1>6 DEF Escape, TypeOK
  <2>2. pc'[c] = "close"
    BY <1>6 DEF Escape, Goto, TypeOK
  <2>3. ResultsOK(c)'
    BY <1>3, <1>6, <2>2 DEF CallerOK, ResultsOK, InPhases, Escape
  <2>4. \A d \in Callers \ {c} : out'[d] = out[d] /\ pending'[d] = pending[d]
    BY <1>2, <1>6 DEF Escape
  <2> QED BY <1>3, <1>4, <1>6, <2>1, <2>3, <2>4, RunEnds DEF Escape
<1>7. ASSUME NEW s \in Phases, NEW g \in {"clean", "short"}, NEW to \in PCs,
             Finish(c, s, g, to)
      PROVE  /\ pc'[c] = to
             /\ out'[c][s] = g
             /\ \A t \in Slots \ {s} : out'[c][t] = out[c][t]
             /\ \A d \in Callers \ {c} : out'[d] = out[d] /\ pending'[d] = pending[d]
  BY <1>1, <1>7 DEF Finish, Goto, TypeOK, Results, Slots
<1>8. CASE Fetch(c)
  <2>1. ASSUME NEW g \in {"clean", "short"}, Finish(c, "fetch", g, "persist"),
               UNCHANGED <<work, fate>>
        PROVE  IInv'
    <3>1. "fetch" \in Phases /\ "persist" \in PCs /\ "persist" \in InPhases
      BY DEF Phases, PCs, InLock, Running, InPhases
    <3>2. ResultsOK(c)'
      BY <1>3, <1>4, <1>7, <2>1, <3>1 DEF CallerOK, ResultsOK, Phases, Slots, InPhases
    <3> QED BY <1>3, <1>7, <2>1, <3>1, <3>2, PhaseEnds DEF Finish
  <2>2. ASSUME CancelledAfterFetch(c) PROVE IInv'
    <3>1. out'[c]["fetch"] = "short" /\ \A t \in Slots \ {"fetch"} : out'[c][t] = out[c][t]
      BY <2>2 DEF CancelledAfterFetch, TypeOK, Results, Slots, Phases
    <3>2. pc'[c] = "close" /\ pending'[c]
      BY <2>2 DEF CancelledAfterFetch, Goto, TypeOK
    <3>3. ResultsOK(c)'
      BY <1>3, <3>1, <3>2 DEF CallerOK, ResultsOK, Phases, Slots, InPhases
    <3>4. \A d \in Callers \ {c} : out'[d] = out[d] /\ pending'[d] = pending[d]
      BY <1>1, <1>2, <2>2 DEF CancelledAfterFetch
    <3>5. out'[c]["abort"] = "none"
      BY <1>4, <3>1 DEF Slots
    <3> QED BY <1>3, <2>2, <3>2, <3>3, <3>4, <3>5, RunEnds DEF CancelledAfterFetch
  <2> QED BY <1>5, <1>6, <1>8, <2>1, <2>2 DEF Fetch
<1>9. CASE Persist(c)
  <2>1. ASSUME Finish(c, "persist", "clean", "select"), UNCHANGED fate, pc[c] = "persist"
        PROVE  IInv'
    <3>1. "persist" \in Phases /\ "select" \in PCs /\ "select" \in InPhases
      BY DEF Phases, PCs, InLock, Running, InPhases
    <3>2. ResultsOK(c)'
      BY <1>3, <1>4, <1>7, <2>1, <3>1 DEF CallerOK, ResultsOK, Phases, Slots, InPhases
    <3> QED BY <1>3, <1>7, <2>1, <3>1, <3>2, PhaseEnds DEF Finish
  <2> QED BY <1>5, <1>9, <2>1 DEF Persist
<1>10. CASE Select(c)
  <2>1. ASSUME Goto(c, "details"), pc[c] = "select",
               UNCHANGED <<run, out, pending, lockVars, dbVars, told, fate>>
        PROVE  IInv'
    <3>1. "details" \in InPhases /\ pc'[c] = "details"
      BY <2>1 DEF InPhases, Goto, TypeOK
    <3>2. ResultsOK(c)'
      BY <1>3, <1>4, <2>1, <3>1 DEF CallerOK, ResultsOK, InPhases
    <3> QED BY <1>3, <2>1, <3>1, <3>2, PhaseEnds
  <2> QED BY <1>6, <1>10, <2>1 DEF Select
<1>11. CASE Details(c)
  <2>1. ASSUME NEW g \in {"clean", "short"}, Finish(c, "details", g, "embed"),
               UNCHANGED fate, pc[c] = "details"
        PROVE  IInv'
    <3>1. "details" \in Phases /\ "embed" \in PCs /\ "embed" \in InPhases
      BY DEF Phases, PCs, InLock, Running, InPhases
    <3>2. ResultsOK(c)'
      BY <1>3, <1>4, <1>7, <2>1, <3>1 DEF CallerOK, ResultsOK, Phases, Slots, InPhases
    <3> QED BY <1>3, <1>7, <2>1, <3>1, <3>2, PhaseEnds DEF Finish
  <2> QED BY <1>6, <1>11, <2>1 DEF Details
<1>12. CASE Embed(c)
  <2>1. ASSUME NEW g \in {"clean", "short"}, Finish(c, "embed", g, "fts"),
               UNCHANGED <<work, fate>>, pc[c] = "embed"
        PROVE  IInv'
    <3>1. "embed" \in Phases /\ "fts" \in PCs /\ "fts" \in InPhases
      BY DEF Phases, PCs, InLock, Running, InPhases
    <3>2. ResultsOK(c)'
      BY <1>3, <1>4, <1>7, <2>1, <3>1 DEF CallerOK, ResultsOK, Phases, Slots, InPhases
    <3> QED BY <1>3, <1>7, <2>1, <3>1, <3>2, PhaseEnds DEF Finish
  <2> QED BY <1>5, <1>6, <1>12, <2>1 DEF Embed
<1>13. CASE Index(c)
  <2>1. ASSUME NEW g \in {"clean", "short"}, Finish(c, "fts", g, "close"),
               Ends(run[c], "completed"), pc[c] = "fts"
        PROVE  IInv'
    <3>1. "fts" \in Phases /\ "close" \in PCs
      BY DEF Phases, PCs, InLock, Running, InFinal
    <3>2. ResultsOK(c)'
      BY <1>3, <1>4, <1>7, <2>1, <3>1 DEF CallerOK, ResultsOK, Phases, Slots, InPhases
    <3>3. out'[c]["abort"] = "none" /\ \A s \in Phases : out'[c][s] # "none"
      BY <1>3, <1>4, <1>7, <2>1, <3>1 DEF CallerOK, ResultsOK, Phases, Slots, InPhases
    <3>4. ~pending'[c]
      BY <1>4, <2>1 DEF Finish
    <3>5. Goto(c, "close") /\ UNCHANGED <<run, lockVars, dbVars, told>>
      BY <2>1 DEF Finish
    <3> QED BY <1>3, <1>7, <2>1, <3>1, <3>2, <3>3, <3>4, <3>5, RunEnds
  <2> QED BY <1>6, <1>13, <2>1 DEF Index
<1> QED BY <1>8, <1>9, <1>10, <1>11, <1>12, <1>13 DEF PhaseStep

\* The lock, the row and the archive.
LEMMA OpeningKeeps ==
  ASSUME IInv, TypeOK', NEW c \in Callers,
         \/ Acquire(c) \/ InsertRow(c) \/ InsertFails(c) \/ OpenArchive(c)
  PROVE  IInv'
<1> USE DEF IInv, lockVars, dbVars, localVars
<1>1. CallerOK(c) /\ {"insert", "archive", "fetch", "release"} \subseteq InLock \cap PCs
  BY DEF InLock, Running, InPhases, PCs
<1>2. CASE Acquire(c)
  <2>1. \A d \in Callers : pc[d] \in Outside
    BY <1>2 DEF Acquire, Take, Lock!Enter, LockInv, TypeOK, PCs, Outside
  <2>2. \A d \in Callers : pc'[d] = IF d = c THEN "insert" ELSE pc[d]
    BY <1>2 DEF Acquire, Goto, TypeOK
  <2>3. LockInv'
    BY <1>1, <1>2, <2>1, <2>2
       DEF Acquire, Take, Lock!Enter, LockInv, Outside, InLock, Running, InPhases, InFinal
  <2>4. ASSUME NEW d \in Callers PROVE CallerOK(d)'
    <3>1. pc'[d] \in Outside \cup {"insert"} /\ CallerOK(d) /\ pc[d] \in Outside
      BY <2>1, <2>2
    <3>2. run'[d] = 0 /\ out'[d] = NoResults /\ ~pending'[d]
      BY <1>2, <3>1 DEF Acquire, CallerOK, IdOK
    <3> QED BY <3>1, <3>2
            DEF NoResults, CallerOK, IdOK, ResultsOK, OpenOK, EndOK, ShutOK, Outside,
                Working, InPhases, InFinal, Ending, Shut, Slots
  <2>5. OwnerInv'
    BY <1>2, <2>1 DEF Acquire, RunsInv, OwnerInv, Outside, Working, InPhases
  <2>6. FreshInv' /\ ClosedInv' /\ LastInv'
    BY <1>2 DEF Acquire, RunsInv, FreshInv, ClosedInv, LastInv, LastRunIsWhole
  <2> QED BY <2>3, <2>4, <2>5, <2>6 DEF RunsInv
<1>3. CASE InsertRow(c)
  <2> USE DEF InsertRow
  <2>1. pc'[c] = "archive"
    BY <1>3 DEF Goto, TypeOK
  <2>2. \A d \in Callers \ {c} : run'[d] = run[d]
    BY <1>3 DEF TypeOK
  <2>3. LockInv' /\ \A d \in Callers \ {c} : CallerOK(d)'
    BY <1>1, <1>3, <2>2, Holder
  <2>4. /\ nextId \in RunIds /\ run'[c] = nextId /\ lastRun < nextId
        /\ row[nextId] = NoRow /\ told[nextId] = "none"
    BY <1>3 DEF TypeOK, RunIds, RunsInv, FreshInv, LastInv
  <2>5. \A r \in RunIds : row'[r] = IF r = nextId THEN OpenRow ELSE row[r]
    <3>1. [NoRow EXCEPT !.status = "running"] = OpenRow
      BY DEF NoRow, OpenRow
    <3>2. row'[nextId] = [row[nextId] EXCEPT !.status = "running"]
      BY <1>3, <2>4 DEF TypeOK
    <3> QED BY <1>3, <2>4, <3>1, <3>2 DEF TypeOK
  <2>6. \A r \in RunIds : fate'[r] = IF r = nextId THEN "going" ELSE fate[r]
    BY <1>3 DEF Ends, TypeOK
  <2>7. out'[c] = NoResults /\ ~pending'[c]
    BY <1>1, <1>3 DEF CallerOK, IdOK
  <2>8. CallerOK(c)'
    BY <1>3, <2>1, <2>4, <2>5, <2>6, <2>7
       DEF NoResults, CallerOK, IdOK, ResultsOK, OpenOK, EndOK, ShutOK, Outside,
           Working, InPhases, InFinal, Ending, Shut, Slots, TypeOK
  <2>9. OwnerInv'
    BY <1>1, <1>3, <2>1, <2>4, <2>5, <2>6, Alone
       DEF OwnerInv, Working, InPhases, Outside
  <2>10. FreshInv'
    BY <1>3, <2>5, <2>6 DEF RunsInv, FreshInv, TypeOK, RunIds
  <2>11. ClosedInv'
    BY <1>3, <2>4, <2>5, <2>6 DEF RunsInv, ClosedInv, OpenRow, Closed
  <2>12. LastInv'
    BY <1>3, <2>4, <2>5, <2>6 DEF RunsInv, LastInv, LastRunIsWhole, TypeOK, RunIds
  <2> QED BY <2>3, <2>8, <2>9, <2>10, <2>11, <2>12 DEF RunsInv
<1>4. CASE InsertFails(c)
  <2> USE DEF InsertFails
  <2>1. pc'[c] = "release"
    BY <1>4 DEF Goto, TypeOK
  <2>2. \A d \in Callers \ {c} : pending'[d] = pending[d]
    BY <1>4 DEF TypeOK
  <2>3. LockInv' /\ \A d \in Callers \ {c} : CallerOK(d)'
    BY <1>1, <1>4, <2>2, Holder
  <2>4. out'[c] = NoResults
    BY <1>1, <1>4 DEF CallerOK, IdOK
  <2>5. CallerOK(c)'
    BY <2>1, <2>4
       DEF NoResults, CallerOK, IdOK, ResultsOK, OpenOK, EndOK, ShutOK, Outside,
           Working, InPhases, InFinal, Ending, Shut, Slots
  <2>6. OwnerInv'
    BY <1>1, <1>4, Alone DEF OwnerInv, Working, InPhases
  <2>7. nextId' >= nextId
    BY <1>4 DEF TypeOK
  <2>8. FreshInv' /\ ClosedInv' /\ LastInv'
    BY <1>4, <2>7 DEF RunsInv, FreshInv, ClosedInv, LastInv, LastRunIsWhole, TypeOK, RunIds
  <2> QED BY <2>3, <2>5, <2>6, <2>8 DEF RunsInv
<1>5. CASE OpenArchive(c)
  <2>1. CASE Goto(c, "fetch") /\ UNCHANGED <<localVars, lockVars, dbVars, told, fate, crashes>>
    <3>1. pc[c] = "archive" /\ pc'[c] = "fetch" /\ "fetch" \in InPhases /\ pc[c] \in Working
      BY <1>5, <2>1 DEF OpenArchive, Goto, TypeOK, InPhases, Working
    <3>2. ResultsOK(c)'
      BY <1>1, <2>1, <3>1
         DEF CallerOK, ResultsOK, NoResults, InPhases, Slots
    <3> QED BY <2>1, <3>1, <3>2, PhaseEnds
  <2> QED BY <1>5, <2>1, RunGivesUp DEF OpenArchive
<1> QED BY <1>2, <1>3, <1>4, <1>5

\* Phase F, the alerts and the outer finally.
LEMMA ClosingKeeps ==
  ASSUME IInv, TypeOK', NEW c \in Callers,
         \/ CloseRow(c) \/ RecordPhase(c) \/ PhasesRecorded(c) \/ WriteConfig(c)
         \/ Alert(c) \/ Release(c)
  PROVE  IInv'
<1> USE DEF IInv, lockVars, dbVars, localVars
<1>1. /\ CallerOK(c)
      /\ {"close", "record", "config", "alert", "release"} \subseteq InLock \cap PCs
      /\ out[c] \in Results
  BY DEF InLock, Running, InPhases, InFinal, PCs, TypeOK
<1>2. pc[c] \in InLock
  BY <1>1 DEF CloseRow, RecordPhase, PhasesRecorded, WriteConfig, Alert, Release
<1>3. CASE CloseRow(c)
  <2> USE DEF CloseRow
  <2>1. pc'[c] = "record"
    BY <1>3 DEF Goto, TypeOK
  <2>2. LockInv' /\ \A d \in Callers \ {c} : CallerOK(d)'
    BY <1>1, <1>2, <1>3, Holder
  <2>3. /\ run[c] \in RunIds /\ run[c] = nextId - 1 /\ told[run[c]] = "none"
        /\ lastRun < run[c] /\ row[run[c]] = OpenRow
    BY <1>1, <1>3 DEF CallerOK, IdOK, OpenOK, Working, Ending, InFinal
  <2>4. row'[run[c]] = [status |-> Overall(out[c]), recorded |-> {}, verdict |-> "success"]
    <3>1. row'[run[c]] = [row[run[c]] EXCEPT !.status = Overall(out[c])]
      BY <1>3, <2>3 DEF TypeOK
    <3>2. [OpenRow EXCEPT !.status = Overall(out[c])]
            = [status |-> Overall(out[c]), recorded |-> {}, verdict |-> "success"]
      BY DEF OpenRow
    <3> QED BY <2>3, <3>1, <3>2
  <2>5. \A r \in RunIds \ {run[c]} : row'[r] = row[r]
    BY <1>3 DEF TypeOK
  <2>6. CallerOK(c)'
    <3>1. Overall(Part(out[c], {})) = "success"
      BY <1>1, OverallOfParts
    <3>2. ShutOK(c)'
      BY <1>3, <2>1, <2>4, <3>1 DEF ShutOK
    <3>3. IdOK(c)' /\ EndOK(c)'
      BY <1>1, <1>3, <2>1, <2>3
         DEF CallerOK, IdOK, EndOK, Outside, Working, InPhases, InFinal, Ending
    <3>4. ResultsOK(c)' /\ OpenOK(c)'
      BY <1>1, <1>3, <2>1 DEF CallerOK, ResultsOK, OpenOK, Working, InPhases
    <3> QED BY <3>2, <3>3, <3>4 DEF CallerOK
  <2>7. OwnerInv'
    BY <1>2, <1>3, <2>4, <2>5, Alone, ConstantTypes, <1>1 DEF OwnerInv, Closed
  <2>8. FreshInv'
    BY <1>3, <2>3, <2>5 DEF RunsInv, FreshInv, TypeOK, RunIds
  <2>9. Overall(out[c]) = "failed" <=> fate[run[c]] = "aborted"
    <3>1. Slots = Phases \cup {"abort"}
      BY DEF Slots
    <3> QED BY <1>1, <1>3, <3>1
            DEF CallerOK, EndOK, ResultsOK, Overall, Ending, InFinal
  <2>10. fate[run[c]] \in {"completed", "aborted", "escaped"}
    BY <1>1, <1>3 DEF CallerOK, EndOK, Ending, InFinal
  <2>11. Overall(out[c]) \in Closed
    BY <1>1, ConstantTypes
  <2>12. ClosedInv'
    BY <1>3, <2>3, <2>4, <2>5, <2>9, <2>10, <2>11 DEF RunsInv, ClosedInv, Closed
  <2>13. LastInv'
    BY <1>3, <2>3, <2>5 DEF RunsInv, LastInv, LastRunIsWhole, TypeOK, RunIds
  <2> QED BY <2>2, <2>6, <2>7, <2>8, <2>12, <2>13 DEF RunsInv
<1>4. CASE RecordPhase(c)
  <2>1. pc[c] = "record" /\ pc' = pc
    BY <1>4 DEF RecordPhase
  <2>2. Goto(c, "record")
    BY <2>1 DEF Goto, TypeOK
  <2>3. LockInv' /\ \A d \in Callers \ {c} : CallerOK(d)'
    BY <1>1, <1>2, <1>4, <2>2, Holder DEF RecordPhase
  <2>4. /\ run[c] \in RunIds /\ run[c] = nextId - 1 /\ told[run[c]] = "none"
        /\ lastRun < run[c]
        /\ row[run[c]].status = Overall(out[c])
        /\ row[run[c]].recorded \subseteq Present(out[c])
        /\ row[run[c]].verdict = Overall(Part(out[c], row[run[c]].recorded))
    BY <1>1, <2>1 DEF CallerOK, IdOK, ShutOK, Shut, Ending, InFinal
  <2>5. PICK s \in Present(out[c]) :
          row' = [row EXCEPT ![run[c]].recorded = @ \cup {s},
                             ![run[c]].verdict  = AddTo(@, out[c][s])]
    BY <1>4 DEF RecordPhase, Unwritten, Present
  <2>6. s \in Slots /\ row[run[c]].recorded \in SUBSET Slots
    BY <2>4, <2>5 DEF Present
  <2>7. /\ row'[run[c]].status = Overall(out[c])
        /\ row'[run[c]].recorded = row[run[c]].recorded \cup {s}
        /\ row'[run[c]].verdict = AddTo(row[run[c]].verdict, out[c][s])
    BY <2>4, <2>5 DEF TypeOK, Rows
  <2>8. row'[run[c]].verdict = Overall(Part(out[c], row'[run[c]].recorded))
    BY <1>1, <2>4, <2>6, <2>7, OverallByResult
  <2>9. \A r \in RunIds \ {run[c]} : row'[r] = row[r]
    BY <2>5 DEF TypeOK
  <2>10. UNCHANGED <<run, out, pending, nextId, lastRun, told, fate>>
    BY <1>4 DEF RecordPhase
  <2>11. CallerOK(c)'
    BY <1>1, <2>1, <2>4, <2>5, <2>7, <2>8, <2>10
       DEF CallerOK, IdOK, ResultsOK, OpenOK, EndOK, ShutOK, Outside, Working, InPhases,
           InFinal, Ending, Shut
  <2>12. OwnerInv'
    BY <1>1, <1>2, <2>4, <2>7, <2>9, <2>10, Alone, ConstantTypes DEF OwnerInv, Closed
  <2>13. FreshInv'
    BY <2>4, <2>9, <2>10 DEF RunsInv, FreshInv, TypeOK, RunIds
  <2>14. ClosedInv'
    <3>1. Overall(out[c]) = "success" => row'[run[c]].verdict = "success"
      BY <1>1, <2>8, OverallOfParts
    <3> QED BY <2>4, <2>7, <2>9, <2>10, <3>1 DEF RunsInv, ClosedInv
  <2>15. LastInv'
    BY <2>4, <2>9, <2>10 DEF RunsInv, LastInv, LastRunIsWhole, TypeOK, RunIds
  <2> QED BY <2>3, <2>11, <2>12, <2>13, <2>14, <2>15 DEF RunsInv
<1>5. CASE PhasesRecorded(c)
  <2> USE DEF PhasesRecorded
  <2>1. pc'[c] = "config"
    BY <1>5 DEF Goto, TypeOK
  <2>2. LockInv' /\ \A d \in Callers \ {c} : CallerOK(d)'
    BY <1>1, <1>2, <1>5, Holder
  <2>3. row[run[c]].recorded = Present(out[c])
    BY <1>1, <1>5 DEF CallerOK, ShutOK, Shut, Unwritten, Present
  <2>4. CallerOK(c)'
    BY <1>1, <1>5, <2>1, <2>3
       DEF CallerOK, IdOK, ResultsOK, OpenOK, EndOK, ShutOK, Outside, Working, InPhases,
           InFinal, Ending, Shut
  <2>5. OwnerInv'
    BY <1>2, <1>5, <2>1, Alone DEF OwnerInv, Working, InPhases
  <2>6. FreshInv' /\ ClosedInv' /\ LastInv'
    BY <1>5 DEF RunsInv, FreshInv, ClosedInv, LastInv, LastRunIsWhole
  <2> QED BY <2>2, <2>4, <2>5, <2>6 DEF RunsInv
<1>6. CASE WriteConfig(c)
  <2> USE DEF WriteConfig
  <2>1. PICK to \in {"alert", "release"} : Goto(c, to) /\ to = IF pending[c] THEN "release" ELSE "alert"
    BY <1>6
  <2>2. pc'[c] = to
    BY <2>1 DEF Goto, TypeOK
  <2>3. LockInv' /\ \A d \in Callers \ {c} : CallerOK(d)'
    BY <1>1, <1>2, <1>6, <2>1, Holder
  <2>4. /\ run[c] \in RunIds /\ run[c] = nextId - 1 /\ told[run[c]] = "none"
        /\ lastRun < run[c]
        /\ row[run[c]].status = Overall(out[c])
        /\ row[run[c]].recorded = Present(out[c])
        /\ row[run[c]].verdict = Overall(Part(out[c], Present(out[c])))
    BY <1>1, <1>6 DEF CallerOK, IdOK, ShutOK, Shut, Ending, InFinal
  <2>5. CallerOK(c)'
    BY <1>1, <1>6, <2>1, <2>2, <2>4
       DEF CallerOK, IdOK, ResultsOK, OpenOK, EndOK, ShutOK, Outside, Working, InPhases,
           InFinal, Ending, Shut
  <2>6. OwnerInv'
    BY <1>2, <1>6, <2>2, Alone DEF OwnerInv, Working, InPhases
  <2>7. FreshInv' /\ ClosedInv'
    BY <1>6 DEF RunsInv, FreshInv, ClosedInv
  <2>8. fate[run[c]] = "completed" => Phases \subseteq Present(out[c])
    BY <1>1, <1>6 DEF CallerOK, EndOK, Ending, InFinal, Present, Slots
  <2>9. LastInv'
    BY <1>1, <1>6, <2>4, <2>8, ConstantTypes, OverallOfParts
       DEF LastInv, LastRunIsWhole, TypeOK
  <2> QED BY <2>3, <2>5, <2>6, <2>7, <2>9 DEF RunsInv
<1>7. CASE Alert(c)
  <2> USE DEF Alert
  <2>1. pc'[c] = "release"
    BY <1>7 DEF Goto, TypeOK
  <2>2. LockInv' /\ \A d \in Callers \ {c} : CallerOK(d)'
    BY <1>1, <1>2, <1>7, Holder
  <2>3. CallerOK(c)'
    BY <1>1, <1>7, <2>1
       DEF CallerOK, IdOK, ResultsOK, OpenOK, EndOK, ShutOK, Outside, Working, InPhases,
           InFinal, Ending, Shut
  <2>4. /\ run[c] \in RunIds /\ run[c] = nextId - 1
        /\ row[run[c]].status = Overall(out[c])
        /\ fate[run[c]] \in {"completed", "aborted"}
    BY <1>1, <1>7 DEF CallerOK, IdOK, ShutOK, EndOK, Shut, Ending
  <2>5. \A r \in RunIds : told'[r] = IF r = run[c] THEN Overall(out[c]) ELSE told[r]
    BY <1>7 DEF TypeOK
  <2>6. OwnerInv'
    BY <1>2, <1>7, <2>1, Alone DEF OwnerInv, Working, InPhases
  <2>7. FreshInv'
    BY <1>7, <2>4, <2>5 DEF RunsInv, FreshInv, TypeOK, RunIds
  <2>8. ClosedInv'
    BY <1>7, <2>4, <2>5 DEF RunsInv, ClosedInv
  <2>9. LastInv'
    BY <1>7 DEF RunsInv, LastInv, LastRunIsWhole
  <2> QED BY <2>2, <2>3, <2>6, <2>7, <2>8, <2>9 DEF RunsInv
<1>8. CASE Release(c)
  <2> USE DEF Release, Forget
  <2>1. pc'[c] = "idle" /\ "idle" \in PCs /\ "idle" \notin InLock
    BY <1>8 DEF Goto, TypeOK, PCs, InLock, Running, InPhases, InFinal
  <2>2. \A d \in Callers \ {c} :
          run'[d] = run[d] /\ out'[d] = out[d] /\ pending'[d] = pending[d]
    BY <1>8 DEF TypeOK
  <2>3. LockInv' /\ \A d \in Callers \ {c} : CallerOK(d)'
    BY <1>2, <1>8, <2>1, <2>2, Holder DEF Lock!Leave
  <2>4. run'[c] = 0 /\ out'[c] = NoResults /\ ~pending'[c]
    BY <1>8 DEF TypeOK
  <2>5. CallerOK(c)'
    BY <2>1, <2>4
       DEF NoResults, CallerOK, IdOK, ResultsOK, OpenOK, EndOK, ShutOK, Outside, Working,
           InPhases, InFinal, Ending, Shut, Slots
  <2>6. OwnerInv'
    BY <1>2, <1>8, Alone DEF OwnerInv, Working, InPhases
  <2>7. FreshInv' /\ ClosedInv' /\ LastInv'
    BY <1>8 DEF RunsInv, FreshInv, ClosedInv, LastInv, LastRunIsWhole
  <2> QED BY <2>3, <2>5, <2>6, <2>7 DEF RunsInv
<1> QED BY <1>3, <1>4, <1>5, <1>6, <1>7, <1>8

\* What happens before the lock, and the death of a process at any place.
LEMMA OutsideKeeps ==
  ASSUME IInv, TypeOK', NEW c \in Callers,
         Boot(c) \/ Start(c) \/ Restart(c) \/ Busy(c) \/ Crash(c)
  PROVE  IInv'
<1> USE DEF IInv, lockVars, dbVars, localVars
<1>1. {"down", "boot", "idle", "lock"} = Outside /\ Outside \cap InLock = {}
  BY DEF Outside, InLock, Running, InPhases, InFinal
<1>2. CASE Boot(c) \/ Start(c) \/ Restart(c) \/ Busy(c)
  <2>1. PICK to \in Outside : Goto(c, to)
    BY <1>1, <1>2 DEF Boot, Start, Restart, Busy
  <2>2. pc[c] \in Outside
    BY <1>1, <1>2 DEF Boot, Start, Restart, Busy
  <2>3. \A d \in Callers : pc'[d] = IF d = c THEN to ELSE pc[d]
    BY <2>1 DEF Goto, TypeOK
  <2>4. UNCHANGED <<inside, dbVars, told, fate>>
    BY <1>2 DEF Boot, Start, Restart, Busy
  <2>5. LockInv'
    BY <1>1, <2>1, <2>2, <2>3, <2>4 DEF LockInv
  <2>6. \A d \in Callers :
          IF d = c THEN run'[d] = 0 /\ out'[d] = NoResults /\ ~pending'[d]
          ELSE run'[d] = run[d] /\ out'[d] = out[d] /\ pending'[d] = pending[d]
    <3>1. run[c] = 0 /\ out[c] = NoResults /\ ~pending[c]
      BY <2>2 DEF CallerOK, IdOK
    <3> QED BY <1>2, <3>1 DEF Boot, Start, Restart, Busy, Forget, TypeOK
  <2>7. ASSUME NEW d \in Callers PROVE CallerOK(d)'
    <3>1. CASE d = c
      BY <2>1, <2>3, <2>6, <3>1
         DEF NoResults, CallerOK, IdOK, ResultsOK, OpenOK, EndOK, ShutOK, Outside,
             Working, InPhases, InFinal, Ending, Shut, Slots
    <3>2. CASE d # c
      BY <2>3, <2>4, <2>6, <3>2 DEF CallerOK, IdOK, ResultsOK, OpenOK, EndOK, ShutOK
    <3> QED BY <3>1, <3>2
  <2>8. OwnerInv'
    BY <2>2, <2>3, <2>4, <2>6
       DEF RunsInv, OwnerInv, Outside, Working, InPhases
  <2>9. FreshInv' /\ ClosedInv' /\ LastInv'
    BY <2>4 DEF RunsInv, FreshInv, ClosedInv, LastInv, LastRunIsWhole
  <2> QED BY <2>5, <2>7, <2>8, <2>9 DEF RunsInv
<1>3. CASE Crash(c)
  <2> USE DEF Crash, Forget
  <2>1. \A d \in Callers : pc'[d] = IF d = c THEN "down" ELSE pc[d]
    BY <1>3 DEF Goto, TypeOK
  <2>2. inside' = inside \ {c}
    BY <1>3 DEF Lock!Leave, TypeOK
  <2>3. LockInv'
    BY <1>1, <2>1, <2>2 DEF LockInv
  <2>4. \A d \in Callers :
          IF d = c THEN run'[d] = 0 /\ out'[d] = NoResults /\ ~pending'[d]
          ELSE run'[d] = run[d] /\ out'[d] = out[d] /\ pending'[d] = pending[d]
    BY <1>3 DEF TypeOK
  <2>5. \A r \in RunIds :
          fate'[r] = IF r = run[c] /\ row[r].status = "running" THEN "lost" ELSE fate[r]
    BY <1>3 DEF Abandons
  <2>6. UNCHANGED <<nextId, row, lastRun, told>>
    BY <1>3
  <2>7. ASSUME NEW d \in Callers PROVE CallerOK(d)'
    <3>1. CASE d = c
      BY <2>1, <2>4, <3>1
         DEF NoResults, CallerOK, IdOK, ResultsOK, OpenOK, EndOK, ShutOK, Outside,
             Working, InPhases, InFinal, Ending, Shut, Slots
    <3>2. CASE d # c /\ pc[d] \in Outside
      BY <2>1, <2>4, <3>2
         DEF CallerOK, IdOK, ResultsOK, OpenOK, EndOK, ShutOK, Outside, Working,
             InPhases, InFinal, Ending, Shut
    <3>3. CASE d # c /\ pc[d] \in InLock
      <4>1. pc[c] \in Outside
        BY <3>3, Alone
      <4>2. run[c] = 0
        BY <4>1 DEF CallerOK, IdOK
      <4>3. fate' = fate
        BY <1>3, <2>5, <4>2 DEF RunIds, TypeOK, Abandons
      <4> QED BY <2>1, <2>4, <2>6, <3>3, <4>3
              DEF CallerOK, IdOK, ResultsOK, OpenOK, EndOK, ShutOK
    <3> QED BY <3>1, <3>2, <3>3 DEF TypeOK, PCs, Outside
  <2>8. OwnerInv'
    <3>1. SUFFICES ASSUME NEW r \in RunIds, row[r].status = "running", fate'[r] # "lost"
                   PROVE  \E d \in Callers : pc'[d] \in Working \cup {"close"} /\ run'[d] = r
      BY <2>6 DEF OwnerInv
    <3>2. r # run[c] /\ fate[r] # "lost"
      BY <2>5, <3>1
    <3>3. PICK d \in Callers : pc[d] \in Working \cup {"close"} /\ run[d] = r
      BY <3>1, <3>2 DEF RunsInv, OwnerInv
    <3>4. d # c
      BY <3>2, <3>3
    <3> QED BY <2>1, <2>4, <3>3, <3>4
  <2>9. FreshInv' /\ ClosedInv'
    <3>1. \A r \in RunIds : row[r].status = "running" => told[r] = "none"
      BY DEF RunsInv, ClosedInv, TypeOK, Closed
    <3> QED BY <2>5, <2>6, <3>1 DEF RunsInv, FreshInv, ClosedInv, NoRow, Closed
  <2>10. LastInv'
    BY <2>5, <2>6 DEF RunsInv, LastInv, LastRunIsWhole, TypeOK, RunIds, Closed
  <2> QED BY <2>3, <2>7, <2>8, <2>9, <2>10 DEF RunsInv
<1> QED BY <1>2, <1>3

-------------------------------------------------------------------------------
(* The theorems *)

LEMMA InitInv == Init => IInv
<1> SUFFICES ASSUME Init PROVE IInv
  OBVIOUS
<1> USE DEF Init
<1>1. TypeOK
  <2>1. pc \in [Callers -> PCs]
    BY DEF PCs
  <2>2. /\ run \in [Callers -> 0 .. MaxRuns] /\ nextId \in 1 .. MaxRuns + 1
        /\ lastRun \in 0 .. MaxRuns /\ crashes \in 0 .. MaxCrashes
    OBVIOUS
  <2>3. fate \in [RunIds -> Fates] /\ told \in [RunIds -> {"none"} \cup Closed]
    BY DEF Fates
  <2>4. /\ out \in [Callers -> Results] /\ work \in [Callers -> Works]
        /\ row \in [RunIds -> Rows] /\ pending \in [Callers -> BOOLEAN]
    BY ConstantTypes
  <2> QED BY <2>1, <2>2, <2>3, <2>4 DEF TypeOK
<1>2. \A c \in Callers : pc[c] \in {"boot", "idle"}
  OBVIOUS
<1>3. LockInv
  BY <1>2 DEF LockInv, InLock, Running, InPhases, InFinal
<1>4. ASSUME NEW c \in Callers PROVE CallerOK(c)
  BY <1>2
     DEF NoResults, CallerOK, IdOK, ResultsOK, OpenOK, EndOK, ShutOK, Outside, Working,
         InPhases, InFinal, Ending, Shut, Slots
<1>5. RunsInv
  BY DEF RunsInv, FreshInv, OwnerInv, ClosedInv, LastInv, LastRunIsWhole, NoRow, Closed
<1> QED BY <1>1, <1>3, <1>4, <1>5 DEF IInv

LEMMA NextInv == IInv /\ [Next]_vars => IInv'
<1> SUFFICES ASSUME IInv, [Next]_vars PROVE IInv'
  OBVIOUS
<1>1. TypeOK'
  BY TypeStep DEF IInv
<1>2. CASE UNCHANGED vars
  BY <1>2 DEF vars, localVars, lockVars, dbVars, IInv, TypeOK, LockInv, CallerOK, IdOK,
              ResultsOK, OpenOK, EndOK, ShutOK, RunsInv, FreshInv, OwnerInv, ClosedInv,
              LastInv, LastRunIsWhole
<1>3. ASSUME NEW c \in Callers, Step(c) PROVE IInv'
  <2>1. CASE Boot(c) \/ Start(c) \/ Restart(c) \/ Busy(c) \/ Crash(c)
    BY <1>1, <2>1, OutsideKeeps
  <2>2. CASE Acquire(c) \/ InsertRow(c) \/ InsertFails(c) \/ OpenArchive(c)
    BY <1>1, <2>2, OpeningKeeps
  <2>3. CASE PhaseStep(c)
    BY <1>1, <2>3, PhaseKeeps
  <2>4. CASE \/ CloseRow(c) \/ RecordPhase(c) \/ PhasesRecorded(c) \/ WriteConfig(c)
             \/ Alert(c) \/ Release(c)
    BY <1>1, <2>4, ClosingKeeps
  <2>5. CASE FinalFails(c)
    BY <1>1, <2>5, RunGivesUp DEF FinalFails
  <2> QED BY <1>3, <2>1, <2>2, <2>3, <2>4, <2>5 DEF Step, RunStep, FinalStep
<1> QED BY <1>2, <1>3 DEF Next

\* The inductive invariant holds of every behaviour of any number of callers.
THEOREM Invariant == Spec => []IInv
BY InitInv, NextInv, PTL DEF Spec

\* Every variable stays within its type.
THEOREM TypeCorrect == Spec => []TypeOK
<1>1. IInv => TypeOK
  BY DEF IInv
<1> QED BY <1>1, Invariant, PTL

\* At most one row is open that a living process answers for, and the process is
\* the lock's holder: runs of the scheduler and of manual commands never overlap.
THEOREM OpenRowsOwned == Spec => []OpenRunsHaveAnOwner
<1>1. IInv => OpenRunsHaveAnOwner
  <2> SUFFICES ASSUME IInv, NEW r \in RunIds, row[r].status = "running", fate[r] # "lost"
               PROVE  /\ \E c \in inside : run[c] = r
                      /\ \A s \in RunIds : row[s].status = "running" /\ fate[s] # "lost" => s = r
    BY DEF OpenRunsHaveAnOwner
  <2>1. PICK c \in Callers : pc[c] \in Working \cup {"close"} /\ run[c] = r
    BY DEF IInv, RunsInv, OwnerInv
  <2>2. pc[c] \in InLock /\ c \in inside
    BY <2>1 DEF IInv, LockInv, Working, InLock, Running, InFinal
  <2> QED BY <2>1, <2>2, Alone
<1> QED BY <1>1, Invariant, PTL

\* Closed rows agree with how the runs went, whichever phases failed, aborted or
\* let an exception escape.
THEOREM ClosedRowsTrue == Spec => []ClosedRowsTellTheTruth
<1>1. IInv => ClosedRowsTellTheTruth
  BY DEF IInv, RunsInv, ClosedInv, ClosedRowsTellTheTruth
<1> QED BY <1>1, Invariant, PTL

\* last_run_id names a closed run with all of its phase results, although Phase F
\* writes the three tables one after the other and may die between any two writes.
THEOREM LastRunWhole == Spec => []LastRunIsWhole
<1>1. IInv => LastRunIsWhole
  BY DEF IInv, RunsInv, LastInv
<1> QED BY <1>1, Invariant, PTL

\* The notifier is told the status the row has, of completed and aborted runs only.
THEOREM AlertsTrue == Spec => []AlertsHearTheTruth
<1>1. IInv => AlertsHearTheTruth
  BY DEF IInv, RunsInv, ClosedInv, AlertsHearTheTruth
<1> QED BY <1>1, Invariant, PTL

\* What a step of one caller may do to rows and to last_run_id.
LEMMA StepOnRows ==
  ASSUME IInv, NEW c \in Callers, Step(c)
  PROVE  /\ lastRun' >= lastRun
         /\ \A r \in RunIds : row[r].status \in Closed =>
              /\ row'[r].status = row[r].status
              /\ row[r].recorded \subseteq row'[r].recorded
<1> USE DEF dbVars
<1>1. lastRun \in Int /\ CallerOK(c)
  BY DEF IInv, TypeOK
<1>2. CASE InsertRow(c)
  <2>1. row[nextId] = NoRow
    BY <1>2 DEF InsertRow, IInv, TypeOK, RunIds, RunsInv, FreshInv
  <2>2. \A r \in RunIds \ {nextId} : row'[r] = row[r]
    BY <1>2 DEF InsertRow, IInv, TypeOK
  <2> QED BY <1>1, <1>2, <2>1, <2>2 DEF InsertRow, NoRow, Closed
<1>3. CASE CloseRow(c)
  <2>1. row[run[c]] = OpenRow
    BY <1>1, <1>3 DEF CloseRow, CallerOK, OpenOK
  <2>2. \A r \in RunIds \ {run[c]} : row'[r] = row[r]
    BY <1>3 DEF CloseRow, IInv, TypeOK
  <2> QED BY <1>1, <1>3, <2>1, <2>2 DEF CloseRow, OpenRow, Closed
<1>4. CASE RecordPhase(c)
  <2>1. PICK s :
          row' = [row EXCEPT ![run[c]].recorded = @ \cup {s},
                             ![run[c]].verdict  = AddTo(@, out[c][s])]
    BY <1>4 DEF RecordPhase
  <2>2. \A r \in RunIds :
          row'[r].status = row[r].status /\ row[r].recorded \subseteq row'[r].recorded
    BY <2>1 DEF IInv, TypeOK, Rows
  <2>3. lastRun' = lastRun
    BY <1>4 DEF RecordPhase
  <2> QED BY <1>1, <2>2, <2>3
<1>5. CASE WriteConfig(c)
  <2>1. lastRun < run[c] /\ run[c] \in RunIds
    BY <1>1, <1>5 DEF WriteConfig, CallerOK, IdOK, Ending, InFinal
  <2> QED BY <1>1, <1>5, <2>1 DEF WriteConfig, RunIds
<1>6. ASSUME UNCHANGED <<row, lastRun>>
      PROVE  /\ lastRun' >= lastRun
             /\ \A r \in RunIds :
                  row'[r].status = row[r].status /\ row[r].recorded \subseteq row'[r].recorded
  BY <1>1, <1>6
<1>7. CASE \/ Boot(c) \/ Start(c) \/ Restart(c) \/ Busy(c) \/ Crash(c) \/ Acquire(c)
           \/ InsertFails(c) \/ PhasesRecorded(c) \/ Alert(c) \/ Release(c)
  BY <1>6, <1>7 DEF Boot, Start, Restart, Busy, Crash, Acquire, InsertFails,
                    PhasesRecorded, Alert, Release
<1>8. CASE OpenArchive(c) \/ FinalFails(c)
  BY <1>6, <1>8 DEF OpenArchive, FinalFails, GiveUp
<1>9. CASE PhaseStep(c)
  BY <1>6, <1>9 DEF PhaseStep, Fetch, Persist, Select, Details, Embed, Index, Finish,
                    Abort, Escape, CancelledAfterFetch
<1> QED BY <1>2, <1>3, <1>4, <1>5, <1>7, <1>8, <1>9 DEF Step, RunStep, FinalStep

LEMMA NextOnRows ==
  IInv /\ [Next]_vars =>
    /\ lastRun' >= lastRun
    /\ \A r \in RunIds : row[r].status \in Closed =>
         row'[r].status = row[r].status /\ row[r].recorded \subseteq row'[r].recorded
<1> SUFFICES ASSUME IInv, [Next]_vars
             PROVE  /\ lastRun' >= lastRun
                    /\ \A r \in RunIds : row[r].status \in Closed =>
                         /\ row'[r].status = row[r].status
                         /\ row[r].recorded \subseteq row'[r].recorded
  OBVIOUS
<1>1. CASE UNCHANGED vars
  BY <1>1 DEF vars, dbVars, IInv, TypeOK
<1>2. CASE Next
  BY <1>2, StepOnRows DEF Next
<1> QED BY <1>1, <1>2

\* No run takes last_run_id back from a later one.
THEOREM LastRunForward == Spec => LastRunMovesForward
<1>1. IInv /\ [Next]_vars => [lastRun' >= lastRun]_vars
  BY NextOnRows
<1> QED BY <1>1, Invariant, PTL DEF Spec, LastRunMovesForward

\* No run, crash or restart touches the row of a run that is over.
THEOREM ClosedRowsKept == Spec => ClosedRowsStay
<1>1. IInv /\ [Next]_vars =>
        [\A r \in RunIds : row[r].status \in Closed =>
           /\ row'[r].status = row[r].status
           /\ row[r].recorded \subseteq row'[r].recorded]_vars
  BY NextOnRows
<1> QED BY <1>1, Invariant, PTL DEF Spec, ClosedRowsStay

===============================================================================
