------------------------------- MODULE MCSyncRun -------------------------------
(* SyncRun for the scheduler and one manual command, two runs and one crash. *)
EXTENDS SyncRun
===============================================================================
