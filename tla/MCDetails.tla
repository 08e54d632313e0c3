------------------------------- MODULE MCDetails -------------------------------
(* Details for two products; they are alike. *)
EXTENDS Details, TLC

Alike == Permutations(Products)
===============================================================================
