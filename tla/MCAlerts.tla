------------------------------ MODULE MCAlerts --------------------------------
(* Alerts with every alert let through, and a cooldown of two ticks. *)
EXTENDS Alerts
===============================================================================
