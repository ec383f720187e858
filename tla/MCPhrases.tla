------------------------------ MODULE MCPhrases ------------------------------
(* Instances of Phrases for TLC: the three calls with N items. *)
EXTENDS Phrases
=============================================================================
