------------------------------- MODULE Lockfile -------------------------------
(***************************************************************************)
(* sync/lockfile.py: the file that keeps two sync runs apart.              *)
(*                                                                         *)
(* Every file-system call of acquire() and release() is a step of its own, *)
(* because another process may run between any two of them:                *)
(*                                                                         *)
(*   acquire:  exists?  ->  read  ->  decide  ->  open(w)  ->  write       *)
(*   release:  exists?  ->  read  ->  unlink                               *)
(*                                                                         *)
(* A process is named by its pid.  It may die anywhere, and a new process  *)
(* may come back under the same pid (a restarted container hands out the   *)
(* same small pids).  Timestamps are kept as ages: a record's age is the   *)
(* time since its timestamp, counted in ticks and saturating at StaleAfter,*)
(* which is all the code compares it with.                                 *)
(***************************************************************************)
EXTENDS Integers

CONSTANTS
  Procs,       \* pids of the processes that call run_sync
  NoPid,       \* what _read returns for a file without a usable pid
  StaleAfter,  \* stale_after_hours, in ticks
  MaxCrashes   \* bound: crashes in one behaviour

ASSUME NoPidAssumption == NoPid \notin Procs
ASSUME StaleAfterAssumption == StaleAfter \in Nat \ {0}
ASSUME MaxCrashesAssumption == MaxCrashes \in Nat

VARIABLES
  file,    \* the lockfile: absent, empty (opened, not yet written) or held
  pc,      \* where each process is
  seen,    \* the record each process got from its last _read
  mine,    \* age of the timestamp each process took for its own record
  crashes  \* crashes so far

vars == <<file, pc, seen, mine, crashes>>

Ages     == 0 .. StaleAfter
Contents == [state : {"absent", "empty", "held"},
             pid   : Procs \cup {NoPid},
             age   : Ages]

Absent       == [state |-> "absent", pid |-> NoPid, age |-> 0]
Empty        == [state |-> "empty",  pid |-> NoPid, age |-> 0]
Held(p, age) == [state |-> "held",   pid |-> p,     age |-> age]

Acquiring == {"read", "decide", "open", "write"}
Releasing == {"rel_exists", "rel_read", "unlink"}
Inside    == {"in"} \cup Releasing      \* the caller's run is not over yet

PCs == {"out", "dead"} \cup Acquiring \cup Inside

TypeOK ==
  /\ file \in Contents
  /\ pc \in [Procs -> PCs]
  /\ seen \in [Procs -> Contents]
  /\ mine \in [Procs -> Ages]
  /\ crashes \in 0 .. MaxCrashes

Init ==
  /\ file = Absent
  /\ pc = [p \in Procs |-> "out"]
  /\ seen = [p \in Procs |-> Absent]
  /\ mine = [p \in Procs |-> 0]
  /\ crashes = 0

Goto(p, to) == pc' = [pc EXCEPT ![p] = to]

\* What acquire() and release() keep in local variables is gone when they are.
Forget(p) ==
  /\ seen' = [seen EXCEPT ![p] = Absent]
  /\ mine' = [mine EXCEPT ![p] = 0]

-------------------------------------------------------------------------------
(* What the code decides on *)

\* _pid_alive: signal 0 reaches the process.
PidAlive(p) == p \in Procs /\ pc[p] # "dead"

\* Mutant: the age of the record is not looked at.
BusyWhileAlive(rec) == PidAlive(rec.pid)

\* Mutant: nothing is ever busy.
NeverBusy(rec) == FALSE

\* acquire raises LockfileBusyError for a young record of a live process.
Busy(rec) == rec.age < StaleAfter /\ PidAlive(rec.pid)

\* release unlinks only a record that carries this process's pid.
Owns(p) == file.state = "held" /\ file.pid = p

-------------------------------------------------------------------------------
(* acquire *)

\* self.path.exists(): a missing file goes straight to the write.
AcqExists(p) ==
  /\ pc[p] = "out"
  /\ Goto(p, IF file.state = "absent" THEN "open" ELSE "read")
  /\ UNCHANGED <<file, seen, mine, crashes>>

\* _read() of a file that is gone or not yet written yields (None, None), and
\* acquire then takes the lock without a word.
AcqRead(p) ==
  /\ pc[p] = "read"
  /\ seen' = [seen EXCEPT ![p] = IF file.state = "held" THEN file ELSE Absent]
  /\ Goto(p, IF file.state = "held" THEN "decide" ELSE "open")
  /\ UNCHANGED <<file, mine, crashes>>

\* The age is computed, and the pid looked up, when the record has been read.
AcqDecide(p) ==
  /\ pc[p] = "decide"
  /\ Goto(p, IF Busy(seen[p]) THEN "out" ELSE "open")
  /\ Forget(p)
  /\ UNCHANGED <<file, crashes>>

\* write_text opens with "w": the file is created or truncated first ...
AcqOpen(p) ==
  /\ pc[p] = "open"
  /\ file' = Empty
  /\ mine' = [mine EXCEPT ![p] = 0]
  /\ Goto(p, "write")
  /\ UNCHANGED <<seen, crashes>>

\* ... and filled afterwards, over whatever stands there by now.
AcqWrite(p) ==
  /\ pc[p] = "write"
  /\ file' = Held(p, mine[p])
  /\ Goto(p, "in")
  /\ UNCHANGED <<seen, mine, crashes>>

Acquire(p) ==
  AcqExists(p) \/ AcqRead(p) \/ AcqDecide(p) \/ AcqOpen(p) \/ AcqWrite(p)

-------------------------------------------------------------------------------
(* release *)

\* The run is over, whatever came of it: run_sync's outer finally.
RunEnds(p) ==
  /\ pc[p] = "in"
  /\ Goto(p, "rel_exists")
  /\ UNCHANGED <<file, seen, mine, crashes>>

RelExists(p) ==
  /\ pc[p] = "rel_exists"
  /\ \/ file.state = "absent" /\ Goto(p, "out") /\ Forget(p)
     \/ file.state # "absent" /\ Goto(p, "rel_read") /\ UNCHANGED <<seen, mine>>
  /\ UNCHANGED <<file, crashes>>

RelRead(p) ==
  /\ pc[p] = "rel_read"
  /\ \/ Owns(p) /\ Goto(p, "unlink") /\ UNCHANGED <<seen, mine>>
     \/ ~Owns(p) /\ Goto(p, "out") /\ Forget(p)
  /\ UNCHANGED <<file, crashes>>

\* unlink removes whatever file has that name now; a missing one is an OSError
\* that release logs and forgets.
RelUnlink(p) ==
  /\ pc[p] = "unlink"
  /\ file' = Absent
  /\ Goto(p, "out")
  /\ Forget(p)
  /\ UNCHANGED crashes

Release(p) == RunEnds(p) \/ RelExists(p) \/ RelRead(p) \/ RelUnlink(p)

-------------------------------------------------------------------------------
(* The environment: time, death and return of a process *)

Older(age) == IF age < StaleAfter THEN age + 1 ELSE age

Tick ==
  /\ file' = [file EXCEPT !.age = IF file.state = "held" THEN Older(@) ELSE @]
  /\ seen' = [p \in Procs |-> IF pc[p] = "decide"
                              THEN [seen[p] EXCEPT !.age = Older(@)] ELSE seen[p]]
  /\ mine' = [p \in Procs |-> IF pc[p] \in {"write"} \cup Inside
                              THEN Older(mine[p]) ELSE mine[p]]
  /\ UNCHANGED <<pc, crashes>>

Crash(p) ==
  /\ pc[p] # "dead"
  /\ crashes < MaxCrashes
  /\ crashes' = crashes + 1
  /\ Goto(p, "dead")
  /\ Forget(p)
  /\ UNCHANGED file

Restart(p) ==
  /\ pc[p] = "dead"
  /\ Goto(p, "out")
  /\ UNCHANGED <<file, seen, mine, crashes>>

Step(p) == Acquire(p) \/ Release(p) \/ Crash(p) \/ Restart(p)

Next == Tick \/ \E p \in Procs : Step(p)

Spec == Init /\ [][Next]_vars

-------------------------------------------------------------------------------
(***************************************************************************)
(* What the file relies on.  Nothing in acquire() is atomic, so it keeps   *)
(* runs apart only while its callers meet two conditions: two acquires do  *)
(* not overlap (the cron job and a manual run are not started in the same  *)
(* instant), and no run lasts StaleAfter ("longer than any expected        *)
(* first-run sync", as the module's header has it).                        *)
(***************************************************************************)

\* No other process is between acquire's first look and its write.
AlonePastExists(p) == \A q \in Procs \ {p} : pc[q] \notin Acquiring

\* Time may pass without making a live run as old as StaleAfter.
RunsAreShort ==
  \A p \in Procs : pc[p] \in {"write"} \cup Inside => mine[p] + 1 < StaleAfter

OrderlyStep(p) == Step(p) /\ (AcqExists(p) => AlonePastExists(p))

OrderlyTick == Tick /\ RunsAreShort

OrderlyNext == OrderlyTick \/ \E p \in Procs : OrderlyStep(p)

\* Each process keeps trying, ends its runs and comes back after a crash, and
\* time passes: cron fires every night, run_sync releases in a finally, s6
\* restarts a service that died.
Fairness ==
  /\ WF_vars(OrderlyTick)
  /\ \A p \in Procs :
       /\ SF_vars(AcqExists(p) /\ AlonePastExists(p))
       /\ WF_vars(AcqRead(p) \/ AcqDecide(p) \/ AcqOpen(p) \/ AcqWrite(p))
       /\ WF_vars(Release(p))
       /\ WF_vars(Restart(p))

OrderlySpec == Init /\ [][OrderlyNext]_vars /\ Fairness

-------------------------------------------------------------------------------
(* Properties *)

\* Two processes are never both inside run_sync's locked region
\* (docs/10_sync_orchestration.md:1097, "Lockfile prevents two sync runs
\* concurrently").
MutualExclusion ==
  \A p, q \in Procs : pc[p] \in Inside /\ pc[q] \in Inside => p = q

\* While a run goes on, the file names it: the next acquire sees a live owner
\* and release finds its own pid.  Broken by anything that lets a second
\* process truncate, overwrite or unlink the file of a run in progress.
RunnerOwnsFile ==
  \A p \in Procs :
    pc[p] \in Inside =>
      /\ file.state = "held"
      /\ file.pid = p
      /\ file.age = mine[p]

\* release never removes a lock that another process has taken meanwhile.
UnlinksOnlyItsOwn ==
  [][\A p \in Procs : RelUnlink(p) /\ file.state # "absent" => file.pid = p]_vars

\* A lock left behind by a crash does not block the syncs for good, even when
\* the pid in it belongs to a live process again: somebody takes it over.
LeftoverLockGoesAway ==
  \A p \in Procs :
    (file.pid = p /\ pc[p] \notin Inside) ~> (file.pid # p \/ pc[p] \in Inside)

\* Seen from run_sync, the nine steps on the file are the two steps of a lock:
\* taking it is the write, giving it up is the last step of release or a death.
Lock == INSTANCE SyncLock WITH inside <- {p \in Procs : pc[p] \in Inside}

ImplementsSyncLock == Lock!Spec
===============================================================================
