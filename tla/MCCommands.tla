----------------------------- MODULE MCCommands -----------------------------
(* An instance of Commands and Paging for TLC: one input for each way to    *)
(* read it, with words that PostgreSQL takes or refuses, limits of every    *)
(* kind, and a client that pages while the first word of all is inserted.   *)
EXTENDS Paging

CONSTANTS a, b, blank, broken, me, other

MCText      == {a, b, blank, broken}
MCInvalid   == {broken}
MCCollation == <<blank, a, b, broken>>

In(kind, values) == [kind |-> kind, values |-> values, arg |-> None]
Top(kind, arg)   == [kind |-> kind, values |-> {}, arg |-> arg]

MCInput == {In("add", {blank}), In("add", {a, b, blank}), In("add", {a, b, broken}),
            In("add", {}), In("absent", {}), In("null", {}), In("unreadable", {}),
            In("healthz", {}), In("analyze", {}),
            Top("list", None), Top("list", 1), Top("list", 8), Top("list", NoNumber),
            Top("rank", None), Top("rank", 0), Top("rank", 8), Top("rank", NoNumber),
            Top("frequency", None), Top("frequency", 2), Top("frequency", -9)}

MCPaged  == {In("add", {blank})}
MCLimits == {1, 3, NoNumber}
=============================================================================
