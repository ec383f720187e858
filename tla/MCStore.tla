------------------------------- MODULE MCStore -------------------------------
(* An instance of Store for TLC: two words or names, the blank one and one *)
(* that PostgreSQL refuses; lists of up to two values.                     *)
EXTENDS Store

CONSTANTS a, b, blank, broken

MCText  == {a, b, blank, broken}
MCLists == {<<>>, <<a, b>>, <<b, blank>>, <<broken>>}
MCInvalid == {broken}

==============================================================================
