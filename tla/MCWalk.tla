------------------------------- MODULE MCWalk -------------------------------
(* Instances of Walk for TLC: every tree of up to N entries, every order   *)
(* of the readers, cancellation at every point.                            *)
EXTENDS Walk
=============================================================================
