------------------------------- MODULE SyncRun --------------------------------
(***************************************************************************)
(* sync/orchestrator.py and its callers: the life of a sync run.           *)
(*                                                                         *)
(* A caller is a process that calls run_sync: the scheduler, or a manual   *)
(* "sb-stack sync".  Each takes the lock (SyncLock.tla), opens a row in    *)
(* sync_runs, goes through the phases A to E, each of which may finish,    *)
(* abort the run or let another exception escape, and closes the row in    *)
(* Phase F.  Phase F's writes are three autocommitted steps in three       *)
(* tables; a process may die between any two steps.  What the phases do to *)
(* the catalogue is the subject of Catalog.tla; here a phase is its        *)
(* outcome.                                                                *)
(***************************************************************************)
EXTENDS Integers

CONSTANTS
  Callers,     \* processes that call run_sync
  Scheduler,   \* the one that is the sb-sync service
  MaxRuns,     \* bound: ids of sync_run_id_seq; the INSERT of one more fails
  MaxCrashes   \* bound: crashes in one behaviour

ASSUME SchedulerAssumption  == Scheduler \in Callers
ASSUME MaxRunsAssumption    == MaxRuns \in Nat \ {0}
ASSUME MaxCrashesAssumption == MaxCrashes \in Nat

VARIABLES
  pc,        \* where each caller is
  run,       \* run_id of its run, 0 before it has one
  out,       \* phase_results of its run
  pending,   \* whether a non-catastrophic exception is on its way out of it
  work,      \* what its phases have found to do: products to detail, rows touched
  inside,    \* SyncLock: who holds the lock
  leftover,  \* a lockfile outlived its process and may still look alive
  nextId,    \* sync_run_id_seq
  row,       \* sync_runs and sync_run_phases, by run_id
  lastRun,   \* last_run_id in sync_config
  told,      \* what AlertManager.evaluate was told of each run
  fate,      \* history: how each run really went
  crashes    \* crashes so far

localVars == <<run, out, pending, work>>
dbVars    == <<nextId, row, lastRun>>
lockVars  == <<inside, leftover>>
vars == <<pc, localVars, lockVars, dbVars, told, fate, crashes>>

Lock == INSTANCE SyncLock WITH Procs <- Callers

-------------------------------------------------------------------------------
(* Phases and outcomes *)

\* phase_results by phase.  "abort" stands for the CATASTROPHIC result that
\* the except clause appends, under the name of the fetch phase.  An outcome is
\* kept as far as overall_status tells it from others: ok and skipped are
\* "clean", partial and failed are "short", catastrophic is "fatal".
Phases  == {"fetch", "persist", "details", "embed", "fts"}
Slots   == Phases \cup {"abort"}
Grades  == {"none", "clean", "short", "fatal"}
Results == [Slots -> Grades]

NoResults == [s \in Slots |-> "none"]

\* Place of each result in the list, hence the order in which Phase F writes it.
Place == [s \in Slots |->
            CASE s = "fetch" -> 1 [] s = "persist" -> 2 [] s = "details" -> 3
              [] s = "embed" -> 4 [] s = "fts" -> 5 [] s = "abort" -> 6]

\* Mutant: an aborted run is looked at like any other.
OverallByPhases(res) ==
  IF \E s \in Phases : res[s] = "short" THEN "partial" ELSE "success"

\* overall_status
Overall(res) ==
  IF \E s \in Slots : res[s] = "fatal" THEN "failed"
  ELSE IF \E s \in Slots : res[s] = "short" THEN "partial"
  ELSE "success"

\* The same, one result after the other.
AddTo(status, grade) ==
  IF status = "failed" \/ grade = "fatal" THEN "failed"
  ELSE IF status = "partial" \/ grade = "short" THEN "partial"
  ELSE "success"

Closed == {"success", "partial", "failed"}

RunIds == 1 .. MaxRuns

\* A run's row in sync_runs, and what sync_run_phases holds of it: which results,
\* and the status they add up to.
Rows   == [status   : {"absent", "running"} \cup Closed,
           recorded : SUBSET Slots,
           verdict  : Closed]
NoRow  == [status |-> "absent", recorded |-> {}, verdict |-> "success"]

Fates  == {"none", "going", "completed", "aborted", "escaped", "lost"}

InPhases == {"fetch", "persist", "select", "details", "embed", "fts"}
InFinal  == {"close", "record", "config"}
Running  == {"archive"} \cup InPhases \cup InFinal
InLock   == {"insert", "alert", "release"} \cup Running
PCs      == {"down", "boot", "idle", "lock"} \cup InLock

Works  == [todo : BOOLEAN, touched : BOOLEAN]
NoWork == [todo |-> FALSE, touched |-> FALSE]

TypeOK ==
  /\ pc \in [Callers -> PCs]
  /\ run \in [Callers -> 0 .. MaxRuns]
  /\ out \in [Callers -> Results]
  /\ pending \in [Callers -> BOOLEAN]
  /\ work \in [Callers -> Works]
  /\ inside \in SUBSET Callers
  /\ leftover \in BOOLEAN
  /\ nextId \in 1 .. MaxRuns + 1
  /\ row \in [RunIds -> Rows]
  /\ lastRun \in 0 .. MaxRuns
  /\ told \in [RunIds -> {"none"} \cup Closed]
  /\ fate \in [RunIds -> Fates]
  /\ crashes \in 0 .. MaxCrashes

Init ==
  /\ pc = [c \in Callers |-> IF c = Scheduler THEN "boot" ELSE "idle"]
  /\ run = [c \in Callers |-> 0]
  /\ out = [c \in Callers |-> NoResults]
  /\ pending = [c \in Callers |-> FALSE]
  /\ work = [c \in Callers |-> NoWork]
  /\ inside = {}
  /\ leftover = FALSE
  /\ nextId = 1
  /\ row = [r \in RunIds |-> NoRow]
  /\ lastRun = 0
  /\ told = [r \in RunIds |-> "none"]
  /\ fate = [r \in RunIds |-> "none"]
  /\ crashes = 0

-------------------------------------------------------------------------------
(* Steps in common *)

Goto(c, to) == pc' = [pc EXCEPT ![c] = to]

Ends(r, how) == fate' = [fate EXCEPT ![r] = how]

\* run_sync returns or raises: its local variables are gone.
Forget(c) ==
  /\ run' = [run EXCEPT ![c] = 0]
  /\ out' = [out EXCEPT ![c] = NoResults]
  /\ pending' = [pending EXCEPT ![c] = FALSE]
  /\ work' = [work EXCEPT ![c] = NoWork]

\* A phase returns its result and the next one starts.
Finish(c, phase, grade, next) ==
  /\ out' = [out EXCEPT ![c][phase] = grade]
  /\ Goto(c, next)
  /\ UNCHANGED <<run, pending, lockVars, dbVars, told, crashes>>

\* Mutant: the except clause leads out of the run, Phase F is not in a finally.
AbortWithoutFinal(c) ==
  /\ out' = [out EXCEPT ![c]["abort"] = "fatal"]
  /\ Ends(run[c], "aborted")
  /\ Goto(c, "release")
  /\ work' = [work EXCEPT ![c] = NoWork]
  /\ UNCHANGED <<run, pending, lockVars, dbVars, told, crashes>>

\* A phase raises CatastrophicError: the run ends in Phase F, with the result
\* the except clause appends, and the exception goes no further.
Abort(c) ==
  /\ out' = [out EXCEPT ![c]["abort"] = "fatal"]
  /\ Ends(run[c], "aborted")
  /\ Goto(c, "close")
  /\ work' = [work EXCEPT ![c] = NoWork]
  /\ UNCHANGED <<run, pending, lockVars, dbVars, told, crashes>>

\* Any other exception, or the cancellation of the task: Phase F runs in the
\* finally, and the exception goes on once it is done.
Escape(c) ==
  /\ pending' = [pending EXCEPT ![c] = TRUE]
  /\ Ends(run[c], "escaped")
  /\ Goto(c, "close")
  /\ work' = [work EXCEPT ![c] = NoWork]
  /\ UNCHANGED <<run, out, lockVars, dbVars, told, crashes>>

\* A row of the caller's that is still open stays open.
Abandons(c) ==
  fate' = [r \in RunIds |-> IF r = run[c] /\ row[r].status = "running"
                            THEN "lost" ELSE fate[r]]

\* An exception outside the inner try, or out of Phase F itself: straight to the
\* outer finally.
GiveUp(c) ==
  /\ pending' = [pending EXCEPT ![c] = TRUE]
  /\ Abandons(c)
  /\ Goto(c, "release")
  /\ UNCHANGED <<run, out, work, lockVars, dbVars, told, crashes>>

-------------------------------------------------------------------------------
(* The scheduler's start *)

\* _needs_first_run: sync_runs has no row at all.
NeedsFirstRun == \A r \in RunIds : row[r].status = "absent"

\* wait_for_embed_ready (and, without SB_API_KEY, the first key extraction) may
\* give up and take the process with it.  Otherwise a first run starts at once,
\* if one is needed (with full_refresh, which only widens what Select finds), or
\* the scheduler waits for the night.
Boot(c) ==
  /\ pc[c] = "boot"
  /\ \/ Goto(c, IF NeedsFirstRun THEN "lock" ELSE "idle")
     \/ Goto(c, "down")
  /\ UNCHANGED <<localVars, lockVars, dbVars, told, fate, crashes>>

\* The cron job or a command starts a run.  max_instances=1 keeps the scheduler
\* to one at a time.  run_sync's migrations, ahead of the lock, leave no trace
\* here; if they fail the run does not start.
Start(c) ==
  /\ pc[c] = "idle"
  /\ Goto(c, "lock")
  /\ UNCHANGED <<localVars, lockVars, dbVars, told, fate, crashes>>

-------------------------------------------------------------------------------
(* The lock and the row *)

\* Mutant: acquire goes through whoever holds the lock.
TakeAnyway(c) ==
  /\ inside' = inside \cup {c}
  /\ leftover' = FALSE

\* Nobody is in the locked region, and a leftover file, if any, looks dead.
Take(c) ==
  /\ Lock!Enter(c)
  /\ leftover' = FALSE

Acquire(c) ==
  /\ pc[c] = "lock"
  /\ Take(c)
  /\ Goto(c, "insert")
  /\ UNCHANGED <<localVars, dbVars, told, fate, crashes>>

\* LockfileBusyError, which the scheduler logs and the command dies of.
Busy(c) ==
  /\ pc[c] = "lock"
  /\ inside # {} \/ leftover
  /\ Goto(c, "idle")
  /\ Forget(c)
  /\ UNCHANGED <<lockVars, dbVars, told, fate, crashes>>

\* _start_run_row.  nextval commits by itself.
InsertRow(c) ==
  /\ pc[c] = "insert"
  /\ nextId <= MaxRuns
  /\ nextId' = nextId + 1
  /\ row' = [row EXCEPT ![nextId].status = "running"]
  /\ run' = [run EXCEPT ![c] = nextId]
  /\ Ends(nextId, "going")
  /\ Goto(c, "archive")
  /\ UNCHANGED <<out, pending, work, lockVars, lastRun, told, crashes>>

\* The database cannot be opened, or the INSERT fails behind nextval.
InsertFails(c) ==
  /\ pc[c] = "insert"
  /\ pending' = [pending EXCEPT ![c] = TRUE]
  /\ nextId' \in {nextId, nextId + 1} \cap 1 .. MaxRuns + 1
  /\ Goto(c, "release")
  /\ UNCHANGED <<run, out, work, lockVars, row, lastRun, told, fate, crashes>>

\* RawArchiveWriter creates today's directory, still outside the inner try.
OpenArchive(c) ==
  /\ pc[c] = "archive"
  /\ \/ Goto(c, "fetch")
        /\ UNCHANGED <<localVars, lockVars, dbVars, told, fate, crashes>>
     \/ GiveUp(c)

-------------------------------------------------------------------------------
(* Phases A to E *)

\* The task is cancelled once the result is in, while fire_critical tells of
\* rejected mobile requests.
CancelledAfterFetch(c) ==
  /\ out' = [out EXCEPT ![c]["fetch"] = "short"]
  /\ pending' = [pending EXCEPT ![c] = TRUE]
  /\ Ends(run[c], "escaped")
  /\ Goto(c, "close")
  /\ UNCHANGED <<run, work, lockVars, dbVars, told, crashes>>

\* Errors of single requests make it partial.  Stores or catalogue missing
\* altogether abort; a transport or disk error escapes.
Fetch(c) ==
  /\ pc[c] = "fetch"
  /\ \/ \E g \in {"clean", "short"} :
          Finish(c, "fetch", g, "persist") /\ UNCHANGED <<work, fate>>
     \/ Abort(c)
     \/ Escape(c)
     \/ CancelledAfterFetch(c)

\* One transaction: all or nothing, whatever it raises is catastrophic.
Persist(c) ==
  /\ pc[c] = "persist"
  /\ \/ /\ \E t \in BOOLEAN : work' = [work EXCEPT ![c].touched = t]
        /\ Finish(c, "persist", "clean", "select")
        /\ UNCHANGED fate
     \/ Abort(c)

\* _changed_product_numbers: what Phase B changed or what awaits details; with
\* full_refresh, all that is sold.
Select(c) ==
  /\ pc[c] = "select"
  /\ \/ /\ \E t \in BOOLEAN : work' = [work EXCEPT ![c].todo = t]
        /\ Goto(c, "details")
        /\ UNCHANGED <<run, out, pending, lockVars, dbVars, told,
                       fate, crashes>>
     \/ Escape(c)

\* Skipped with nothing to do; ok when every product was fetched and merged,
\* else partial.
Details(c) ==
  /\ pc[c] = "details"
  /\ \/ /\ Finish(c, "details", "clean", "embed")
        /\ work' = [work EXCEPT ![c] = [todo |-> FALSE, touched |-> @.touched \/ @.todo]]
        /\ UNCHANGED fate
     \/ /\ work[c].todo
        /\ Finish(c, "details", "short", "embed")
        /\ \E t \in BOOLEAN :
             work' = [work EXCEPT ![c] = [todo |-> FALSE, touched |-> @.touched \/ t]]
        /\ UNCHANGED fate
     \/ work[c].todo /\ Escape(c)

\* Skipped when sb-embed is not ready or every vector is current; partial when a
\* batch fails; aborts on a vector of the wrong size.
Embed(c) ==
  /\ pc[c] = "embed"
  /\ \/ \E g \in {"clean", "short"} :
          Finish(c, "embed", g, "fts") /\ UNCHANGED <<work, fate>>
     \/ Abort(c)
     \/ Escape(c)

\* Skipped iff nothing was touched; else ok, or failed after one retry.  Only a
\* cancellation escapes it.
Index(c) ==
  /\ pc[c] = "fts"
  /\ \/ /\ \E g \in {"clean"} \cup {h \in {"short"} : work[c].touched} :
             Finish(c, "fts", g, "close")
        /\ Ends(run[c], "completed")
        /\ work' = [work EXCEPT ![c] = NoWork]
     \/ work[c].touched /\ Escape(c)

-------------------------------------------------------------------------------
(* Phase F and the end of the run *)

\* UPDATE sync_runs.
CloseRow(c) ==
  /\ pc[c] = "close"
  /\ row' = [row EXCEPT ![run[c]].status = Overall(out[c])]
  /\ Goto(c, "record")
  /\ UNCHANGED <<localVars, lockVars, nextId, lastRun, told, fate, crashes>>

\* The results of run r that Phase F has still to write.
Unwritten(c) == {s \in Slots : out[c][s] # "none"} \ row[run[c]].recorded

\* INSERT OR REPLACE INTO sync_run_phases, one result after the other.  The row of an
\* "abort" takes the place of Phase A's, whose outcome no longer matters then.
RecordPhase(c) ==
  /\ pc[c] = "record"
  /\ \E s \in Unwritten(c) :
       /\ \A t \in Unwritten(c) : Place[s] <= Place[t]
       /\ row' = [row EXCEPT ![run[c]].recorded = @ \cup {s},
                             ![run[c]].verdict  = AddTo(@, out[c][s])]
  /\ UNCHANGED <<pc, localVars, lockVars, nextId, lastRun, told, fate, crashes>>

\* Mutant: last_run_id is written ahead of the phase results.
PhasesPending(c) ==
  /\ pc[c] = "record"
  /\ Goto(c, "config")
  /\ UNCHANGED <<localVars, lockVars, dbVars, told, fate, crashes>>

PhasesRecorded(c) ==
  /\ pc[c] = "record"
  /\ Unwritten(c) = {}
  /\ Goto(c, "config")
  /\ UNCHANGED <<localVars, lockVars, dbVars, told, fate, crashes>>

\* Mutant: the finally block returns, and swallows what was pending.
WriteConfigAndReturn(c) ==
  /\ pc[c] = "config"
  /\ lastRun' = run[c]
  /\ Goto(c, "alert")
  /\ UNCHANGED <<localVars, lockVars, nextId, row, told, fate, crashes>>

\* sync_config's last_run_id.  The full-text index, the backup, retention and the
\* metrics file follow, each of them best-effort and none of them in this model.
\* Then the exception that was pending goes on, or the run returns normally.
WriteConfig(c) ==
  /\ pc[c] = "config"
  /\ lastRun' = run[c]
  /\ Goto(c, IF pending[c] THEN "release" ELSE "alert")
  /\ UNCHANGED <<localVars, lockVars, nextId, row, told, fate, crashes>>

\* None of the three statements is in a try.
FinalFails(c) == pc[c] \in InFinal /\ GiveUp(c)

\* AlertManager.evaluate; what it raises is logged.
Alert(c) ==
  /\ pc[c] = "alert"
  /\ told' = [told EXCEPT ![run[c]] = Overall(out[c])]
  /\ Goto(c, "release")
  /\ UNCHANGED <<localVars, lockVars, dbVars, fate, crashes>>

\* The outer finally.  The scheduler waits for the next night; the command ends,
\* to be given again.
Release(c) ==
  /\ pc[c] = "release"
  /\ Lock!Leave(c)
  /\ Goto(c, "idle")
  /\ Forget(c)
  /\ UNCHANGED <<leftover, dbVars, told, fate, crashes>>

-------------------------------------------------------------------------------
(* Death and return of a process *)

Crash(c) ==
  /\ pc[c] # "down"
  /\ crashes < MaxCrashes
  /\ crashes' = crashes + 1
  /\ IF c \in inside
     THEN Lock!Leave(c) /\ leftover' = TRUE
     ELSE UNCHANGED lockVars
  /\ Abandons(c)
  /\ Goto(c, "down")
  /\ Forget(c)
  /\ UNCHANGED <<dbVars, told>>

\* s6 starts the service again; a command is given again.
Restart(c) ==
  /\ pc[c] = "down"
  /\ Goto(c, IF c = Scheduler THEN "boot" ELSE "idle")
  /\ UNCHANGED <<localVars, lockVars, dbVars, told, fate, crashes>>

PhaseStep(c) ==
  Fetch(c) \/ Persist(c) \/ Select(c) \/ Details(c) \/ Embed(c) \/ Index(c)

FinalStep(c) ==
  \/ CloseRow(c) \/ RecordPhase(c) \/ PhasesRecorded(c) \/ WriteConfig(c)
  \/ FinalFails(c)

\* What a caller does once it is called.
RunStep(c) ==
  \/ Acquire(c) \/ Busy(c) \/ InsertRow(c) \/ InsertFails(c) \/ OpenArchive(c)
  \/ PhaseStep(c) \/ FinalStep(c) \/ Alert(c) \/ Release(c)

Step(c) ==
  Boot(c) \/ Start(c) \/ RunStep(c) \/ Crash(c) \/ Restart(c)

Next == \E c \in Callers : Step(c)

\* A process that runs is scheduled, and its calls have timeouts; nothing obliges
\* anyone to start a run or a dead process to come back.
Fairness == \A c \in Callers : WF_vars(RunStep(c))

Spec == Init /\ [][Next]_vars /\ Fairness

-------------------------------------------------------------------------------
(* Properties *)

\* At most one run is open, and it is the run of the process that holds the
\* lock; every other row that still says "running" was abandoned by a crash or
\* by a failure outside Phase F's reach.
OpenRunsHaveAnOwner ==
  \A r \in RunIds :
    row[r].status = "running" /\ fate[r] # "lost" =>
      /\ \E c \in inside : run[c] = r
      /\ \A s \in RunIds : row[s].status = "running" /\ fate[s] # "lost" => s = r

\* A closed row tells what happened: it is "failed" exactly when a phase aborted
\* the run, and "success" only when no phase, in the end, was worse than ok or
\* skipped.  Escaped runs are the exception, see EscapedIsNotSuccess.
ClosedRowsTellTheTruth ==
  \A r \in RunIds : row[r].status \in Closed =>
    /\ row[r].status = "failed" <=> fate[r] = "aborted"
    /\ row[r].status = "success" => row[r].verdict = "success"

\* The run that last_run_id names is closed, all of its phase results are in
\* sync_run_phases, and they account for its status: Phase F's autocommitted
\* writes come in an order that keeps the three tables consistent even when the
\* process dies between them.
LastRunIsWhole ==
  lastRun # 0 =>
    /\ row[lastRun].status \in Closed
    /\ row[lastRun].verdict = row[lastRun].status
    /\ fate[lastRun] = "completed" => Phases \subseteq row[lastRun].recorded

\* The notifier hears only of runs that came to their end or were aborted, and
\* hears what the row says.
AlertsHearTheTruth ==
  \A r \in RunIds : told[r] # "none" =>
    /\ told[r] = row[r].status
    /\ fate[r] \in {"completed", "aborted"}

\* A later run never loses its place in last_run_id to an earlier one
\* that finishes after it.
LastRunMovesForward ==
  [][lastRun' >= lastRun]_vars

\* A row, once closed, is never opened or closed again, and its phase results
\* are only added to.
ClosedRowsStay ==
  [][\A r \in RunIds : row[r].status \in Closed =>
       /\ row'[r].status = row[r].status
       /\ row[r].recorded \subseteq row'[r].recorded]_vars

\* Every run comes to an end: its row is closed, or has been abandoned.
OpenRunsEnd ==
  \A r \in RunIds :
    row[r].status = "running" ~> (row[r].status # "running" \/ fate[r] = "lost")

\* What docs/10_sync_orchestration.md:120 says of a run that is cut short ("record
\* status='failed' in sync_runs"), applied to the cases its list names that reach
\* run_sync as an exception other than CatastrophicError.
EscapedIsNotSuccess ==
  \A r \in RunIds : fate[r] = "escaped" => row[r].status # "success"
===============================================================================
