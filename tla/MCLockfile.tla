------------------------------ MODULE MCLockfile ------------------------------
(* Lockfile on three pids, three ticks to staleness and two crashes. *)
EXTENDS Lockfile
===============================================================================
