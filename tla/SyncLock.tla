------------------------------- MODULE SyncLock -------------------------------
(***************************************************************************)
(* What run_sync expects of the lock it takes: the region between acquire  *)
(* and release is entered only while nobody is in it, and a process leaves *)
(* it by releasing or by dying.  Lockfile.tla says how far the file of     *)
(* sync/lockfile.py keeps that promise; SyncRun.tla relies on it.          *)
(***************************************************************************)
CONSTANT Procs

VARIABLE inside  \* the processes in the locked region

Init == inside = {}

Enter(p) ==
  /\ inside = {}
  /\ inside' = {p}

Leave(p) ==
  /\ p \in inside
  /\ inside' = inside \ {p}

Next == \E p \in Procs : Enter(p) \/ Leave(p)

Spec == Init /\ [][Next]_inside
===============================================================================
