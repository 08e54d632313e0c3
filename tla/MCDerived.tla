------------------------------ MODULE MCDerived -------------------------------
(* Derived for two products with one or two texts, batches of one, two at a time. *)
EXTENDS Derived
===============================================================================
