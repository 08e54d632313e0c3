----------------------------- MODULE MCApiClient ------------------------------
(* ApiClient for two ecommerce requests and a mobile one that share one slot. *)
EXTENDS ApiClient
===============================================================================
