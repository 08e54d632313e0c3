------------------------------- MODULE Details --------------------------------
(***************************************************************************)
(* Phase C (sync/phases/details.py) as what it is, one task for each       *)
(* product under one gather, and what the tasks that are left behind do to *)
(* the rows when the run that started them is over.                        *)
(*                                                                         *)
(* gather raises the first exception of a task and cancels none of the     *)
(* others: they live on in the event loop of the process, beside Phase F,  *)
(* beside nothing, or beside the next run.  Of Phases A and B there is     *)
(* what they do to a row.  A payload is its version: what the API said at  *)
(* the time, never an empty one.  Runs have the lock (SyncLock.tla); pages *)
(* of earlier runs, discontinued products and gifts are in Catalog.        *)
(***************************************************************************)
EXTENDS Integers, FiniteSets

CONSTANTS
  Products,
  NRuns,     \* bound: runs
  NVersions, \* bound: versions of a product
  Limit      \* sync_concurrency

ASSUME BoundsAssumption == {NRuns, NVersions, Limit} \subseteq Nat \ {0}

Runs     == 1 .. NRuns
Versions == 1 .. NVersions
None     == 0

VARIABLES
  now,     \* the version the API would answer with
  row,     \* products: the version in the row, that of its field_hash, None without
           \* a row; and whether last_detail_fetched_at is set
  run,     \* the number of the last run
  caller,  \* who started each run, or "nobody"
  pc,      \* where the last run is
  seen,    \* the versions in the pages of Phase A, None on no page
  queue,   \* what Phase B has changed, the first part of the list of Phase C
  task,    \* the tasks of each run: their place and the answer they hold
  left     \* history: runs whose gather has raised

vars == <<now, row, run, caller, pc, seen, queue, task, left>>

Alive == {"waiting", "fetch", "write"}
Ended == {"none", "merged", "failed", "fetch_raised", "write_raised", "gone"}
Tasks == [at : Alive \cup Ended, got : Versions \cup {None}]
NoTask == [at |-> "none", got |-> None]

Rows == [val : Versions \cup {None}, hash : Versions \cup {None}, stamped : BOOLEAN]

TypeOK ==
  /\ now \in [Products -> Versions]
  /\ row \in [Products -> Rows]
  /\ run \in Runs \cup {0}
  /\ caller \in [Runs -> {"scheduler", "command", "nobody"}]
  /\ pc \in {"idle", "fetch", "persist", "select", "details", "rest", "close"}
  /\ seen \in [Products -> Versions \cup {None}]
  /\ queue \in SUBSET Products
  /\ task \in [Runs -> [Products -> Tasks]]
  /\ left \in SUBSET Runs

Init ==
  /\ now = [p \in Products |-> 1]
  /\ row = [p \in Products |-> [val |-> None, hash |-> None, stamped |-> FALSE]]
  /\ run = 0
  /\ caller = [r \in Runs |-> "nobody"]
  /\ pc = "idle"
  /\ seen = [p \in Products |-> None]
  /\ queue = {}
  /\ task = [r \in Runs |-> [p \in Products |-> NoTask]]
  /\ left = {}

Of(r, places) == {p \in Products : task[r][p].at \in places}

\* Tasks in the loop of the process of this run: a command has one of its own.
Beside(r) == {s \in Runs : s = r \/ {caller[s], caller[r]} = {"scheduler"}}

-------------------------------------------------------------------------------
(* The run *)

Begin ==
  /\ pc = "idle"
  /\ run < NRuns
  /\ run' = run + 1
  /\ \E who \in {"scheduler", "command"} : caller' = [caller EXCEPT ![run + 1] = who]
  /\ pc' = "fetch"
  /\ UNCHANGED <<now, row, seen, queue, task, left>>

PhaseA ==
  /\ pc = "fetch"
  /\ \E listed \in SUBSET Products :
       seen' = [p \in Products |-> IF p \in listed THEN now[p] ELSE None]
  /\ pc' = "persist"
  /\ UNCHANGED <<now, row, run, caller, queue, task, left>>

Changed == {p \in Products : seen[p] # None /\ row[p].hash # seen[p]}

PhaseB ==
  /\ pc = "persist"
  /\ row' = [p \in Products |->
               IF p \in Changed THEN [row[p] EXCEPT !.val = seen[p], !.hash = seen[p]]
               ELSE row[p]]
  /\ queue' = Changed
  /\ pc' = "select"
  /\ UNCHANGED <<now, run, caller, seen, task, left>>

Stored == {p \in Products : row[p].val # None}

\* Rows that may be queued again.  Which of them are, their texts decide (Catalog).
Bare == {p \in Stored : ~row[p].stamped}

\* _changed_product_numbers, and run_phase_c up to its gather; without products it
\* is skipped.
Select ==
  /\ pc = "select"
  /\ \E list \in {queue \cup heal : heal \in SUBSET Bare} \cup {Stored} :
       /\ task' = [task EXCEPT ![run] = [p \in Products |->
                     IF p \in list THEN [at |-> "waiting", got |-> None] ELSE NoTask]]
       /\ pc' = IF list = {} THEN "rest" ELSE "details"
  /\ queue' = {}
  /\ UNCHANGED <<now, row, run, caller, seen, left>>

\* Mutant: the phase waits for the tasks that have a place only.
GatherReturnsEarly ==
  /\ pc = "details"
  /\ Of(run, {"fetch", "write", "fetch_raised", "write_raised"}) = {}
  /\ Of(run, {"merged", "failed"}) # {}
  /\ pc' = "rest"
  /\ UNCHANGED <<now, row, run, caller, seen, queue, task, left>>

\* gather returns when all have.
GatherReturns ==
  /\ pc = "details"
  /\ Of(run, Alive \cup {"fetch_raised", "write_raised"}) = {}
  /\ pc' = "rest"
  /\ UNCHANGED <<now, row, run, caller, seen, queue, task, left>>

\* gather raises what one of them has.  That leaves the phase and the run.
GatherRaises ==
  /\ pc = "details"
  /\ Of(run, {"fetch_raised", "write_raised"}) # {}
  /\ left' = left \cup {run}
  /\ pc' = "close"
  /\ UNCHANGED <<now, row, run, caller, seen, queue, task>>

Gone(r) == [p \in Products |-> IF task[r][p].at \in Alive
                               THEN [at |-> "gone", got |-> None] ELSE task[r][p]]

\* Mutant: the tasks are not cancelled with it.
CancelledAlone ==
  /\ pc = "details"
  /\ pc' = "close"
  /\ UNCHANGED <<now, row, run, caller, seen, queue, task, left>>

\* The run is cancelled, and gather cancels its tasks with it.
Cancelled ==
  /\ pc = "details"
  /\ task' = [task EXCEPT ![run] = Gone(run)]
  /\ pc' = "close"
  /\ UNCHANGED <<now, row, run, caller, seen, queue, left>>

\* Another phase ends the run before its time.
Aborts ==
  /\ pc \in {"fetch", "persist", "select"}
  /\ pc' = "close"
  /\ queue' = {}
  /\ UNCHANGED <<now, row, run, caller, seen, task, left>>

\* Phases D and E.
Rest ==
  /\ pc = "rest"
  /\ pc' = "close"
  /\ UNCHANGED <<now, row, run, caller, seen, queue, task, left>>

\* What is left of the tasks when the results of the run are gone.
LivingOn == [p \in Products |-> IF task[run][p].at \in Alive THEN task[run][p] ELSE NoTask]

\* Phase F; the lock is released.
Close ==
  /\ pc = "close"
  /\ pc' = "idle"
  /\ seen' = [p \in Products |-> None]
  /\ task' = [task EXCEPT ![run] = LivingOn]
  /\ UNCHANGED <<now, row, run, caller, queue, left>>

\* The process of a run dies, or a command ends: asyncio.run cancels what is left.
ProcessEnds(r) ==
  /\ caller[r] # "nobody"
  /\ task' = [s \in Runs |-> IF s \in Beside(r) THEN Gone(s) ELSE task[s]]
  /\ IF run \in Beside(r)
     THEN pc' = "idle" /\ queue' = {} /\ seen' = [p \in Products |-> None]
     ELSE UNCHANGED <<pc, queue, seen>>
  /\ UNCHANGED <<now, row, run, caller, left>>

-------------------------------------------------------------------------------
(* The tasks, each with a semaphore for those of its run *)

\* The loop runs one thing at a time: between Phase B and the gather there is no await.
LoopFree(r) == pc = "select" => run \notin Beside(r)

Moves(r, p, to) ==
  /\ LoopFree(r)
  /\ task' = [task EXCEPT ![r][p] = [at |-> to, got |-> None]]
  /\ UNCHANGED <<now, run, caller, pc, seen, queue, left>>

Acquire(r, p) ==
  /\ task[r][p].at = "waiting"
  /\ Cardinality(Of(r, {"fetch", "write"})) < Limit
  /\ Moves(r, p, "fetch")
  /\ UNCHANGED row

Answered(r, p) ==
  /\ LoopFree(r)
  /\ task[r][p].at = "fetch"
  /\ task' = [task EXCEPT ![r][p] = [at |-> "write", got |-> now[p]]]
  /\ UNCHANGED <<now, row, run, caller, pc, seen, queue, left>>

\* A SystembolagetAPIError is noted.
FetchFails(r, p) ==
  /\ task[r][p].at = "fetch"
  /\ Moves(r, p, "failed")
  /\ UNCHANGED row

\* A network error at the last attempt, or an answer that is no JSON, is none.
FetchRaises(r, p) ==
  /\ task[r][p].at = "fetch"
  /\ Moves(r, p, "fetch_raised")
  /\ UNCHANGED row

\* write_detail: the thread cannot write to the archive.
WriteRaises(r, p) ==
  /\ task[r][p].at = "write"
  /\ Moves(r, p, "write_raised")
  /\ UNCHANGED row

\* The file is written, and _merge_detail_into_product updates the row: the lock
\* around it is never contended.  The UPDATE is committed by itself: when the variants
\* that come after it raise, the product is noted as failed all the same.
Merge(r, p) ==
  /\ task[r][p].at = "write"
  /\ row' = [row EXCEPT ![p].val = task[r][p].got, ![p].stamped = TRUE]
  /\ \E end \in {"merged", "failed"} : Moves(r, p, end)

\* A payload that does not fit, or a database that another process has open.
MergeFails(r, p) ==
  /\ task[r][p].at = "write"
  /\ Moves(r, p, "failed")
  /\ UNCHANGED row

TaskStep(r, p) ==
  \/ Acquire(r, p) \/ Answered(r, p) \/ FetchFails(r, p) \/ FetchRaises(r, p)
  \/ WriteRaises(r, p) \/ Merge(r, p) \/ MergeFails(r, p)

\* The API lists another version.
WorldMoves ==
  /\ \E p \in Products : now[p] < NVersions /\ now' = [now EXCEPT ![p] = @ + 1]
  /\ UNCHANGED <<row, run, caller, pc, seen, queue, task, left>>

RunStep ==
  \/ PhaseA \/ PhaseB \/ Select \/ GatherReturns \/ GatherRaises \/ Cancelled
  \/ Aborts \/ Rest \/ Close

Next ==
  \/ Begin \/ RunStep \/ WorldMoves
  \/ \E r \in Runs : ProcessEnds(r) \/ \E p \in Products : TaskStep(r, p)

Spec == Init /\ [][Next]_vars

-------------------------------------------------------------------------------
(* Properties *)

\* A row never goes back to an older answer of the API, whatever the tasks of a run
\* have in hand when its phases change it: unless an earlier run was left by its
\* gather with tasks still in the loop.
RowsMoveForward ==
  [][\A p \in Products : row'[p].val < row[p].val => \E r \in left : r < run]_vars

\* A run that is over writes no more, unless its gather has raised: no embedding,
\* index or backup it has made is out of date before the next run.
ClosedRunsAreQuiet ==
  [][row' # row => pc \in {"persist", "details"} \/ left # {} ]_vars

\* When Phase C has returned, each product of its list has its details, of a version
\* no older than Phase A's, or is among the errors that make the run partial.
ListIsAccountedFor ==
  pc = "rest" =>
    \A p \in Products :
      \/ task[run][p].at \in {"none", "failed"}
      \/ /\ task[run][p].at = "merged"
         /\ row[p].stamped
         /\ row[p].val >= seen[p] \/ \E r \in left : r < run
===============================================================================
