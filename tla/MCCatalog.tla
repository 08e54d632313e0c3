------------------------------ MODULE MCCatalog -------------------------------
(* Catalog for two products, one of them a gift, two values and two pages. *)
EXTENDS Catalog
===============================================================================
