---------------------------- MODULE MCMigrations ----------------------------
(* An instance of Migrations for TLC: one word or name, the blank one and   *)
(* one that PostgreSQL refuses, and an operator who forces one version.     *)
EXTENDS Migrations

CONSTANTS a, blank, broken

MCText    == {a, blank, broken}
MCLists   == {<<>>, <<a>>, <<a, a>>, <<blank>>}
MCInvalid == {broken}
=============================================================================
