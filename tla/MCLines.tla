------------------------------- MODULE MCLines -------------------------------
(* Instances of Lines for TLC: two texts of up to Max lines. *)
EXTENDS Lines

CONSTANTS t1, t2
=============================================================================
