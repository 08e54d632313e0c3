------------------------------ MODULE MCDatabase ------------------------------
(* A release, the next one, which brings two migrations at once, and one whose *)
(* second migration was edited after its release.                              *)
EXTENDS Database

CONSTANTS a, b, c, d

MCReleases == {<<a>>, <<a, b, c>>, <<a, d>>}
===============================================================================
