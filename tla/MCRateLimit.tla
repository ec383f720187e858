----------------------------- MODULE MCRateLimit -----------------------------
(* An instance of RateLimit for TLC: calls that share an id and calls that  *)
(* do not.                                                                  *)
EXTENDS RateLimit

CONSTANTS r1, r2, r3, i1, i2, noid, nobody
=============================================================================
