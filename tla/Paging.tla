-------------------------------- MODULE Paging --------------------------------
(***************************************************************************)
(* A client of the API reads all words page by page, GET /words with limit *)
(* and offset, while a command and other processes insert words.  There is *)
(* no snapshot over the pages: each is a statement of its own, in the      *)
(* order of the values, into which a new word may be put anywhere.  The    *)
(* client moves on by the rows it has got and ends at an empty page; it is *)
(* not part of the repository.                                             *)
(***************************************************************************)
EXTENDS Commands

CONSTANTS
  Paged, \* the commands that a client is reading beside
  Limits \* the limits clients ask for

ASSUME PagingAssumption ==
  /\ Paged \subseteq Input
  /\ Limits \subseteq (Nat \ {0}) \cup {None, NoNumber}

VARIABLES
  client,  \* "none", "reading", "done" or "refused"
  limit,   \* its limit
  offset,  \* the offset it asks for next
  missing  \* how many of the rows there were when it began it has not read,
           \* by value

pagingVars == <<client, limit, offset, missing>>

PagingInit ==
  /\ Init
  /\ client = "none"
  /\ limit = None
  /\ offset = 0
  /\ missing = [v \in Text |-> 0]

Begin ==
  /\ client = "none" /\ input \in Paged
  /\ client' = "reading"
  /\ limit' \in Limits
  /\ missing' = [v \in Text |-> Count(v)]
  /\ UNCHANGED <<offset, vars>>

(* listWordsHandler, and what the client does with its answer. *)
Page ==
  /\ client = "reading"
  /\ IF ~ValidPage(limit, offset)
     THEN client' = "refused" /\ UNCHANGED <<offset, missing>>
     ELSE LET rows == ListWords(limitValue(limit), offsetValue(offset)) IN
          /\ client' = IF rows = <<>> THEN "done" ELSE "reading"
          /\ offset' = offset + Len(rows)
          /\ missing' = [v \in Text |->
               Greater(missing[v] - Cardinality({k \in DOMAIN rows : rows[k] = v}), 0)]
  /\ UNCHANGED <<limit, vars>>

PagingNext ==
  \/ Next /\ UNCHANGED pagingVars
  \/ Begin
  \/ Page

PagingSpec == PagingInit /\ [][PagingNext]_<<vars, pagingVars>>

(* Nothing makes a client begin or go on. *)
PagingFairSpec == PagingSpec /\ Fairness

-------------------------------------------------------------------------------
(* A client that comes to an empty page has read every word that was there *)
(* when it began, as often as it was there: words inserted meanwhile, in   *)
(* front of the page or behind it, may make it read one twice, but never   *)
(* let it miss one.  An offset over 2^31 - 1 starts again at the first     *)
(* word: in a larger table the client finds no end, rather than a false    *)
(* one.                                                                    *)
PageMissesNothing ==
  client = "done" => \A v \in Text : missing[v] = 0

PagingTypeOK ==
  /\ client \in {"none", "reading", "done", "refused"}
  /\ limit \in Limits \cup {None}
  /\ offset \in Nat
  /\ missing \in [Text -> Nat]

(* Behind it: rows are only inserted, so what the client has not read of a *)
(* value lies behind its offset, which is not beyond the last row, until   *)
(* the offset is too large and the client reads from the first row for     *)
(* ever.                                                                   *)
MissingIsAhead ==
  /\ client = "none" => offset = 0
  /\ client = "reading" /\ offset <= MaxInt32 =>
       /\ offset <= Rows
       /\ \A v \in Text : missing[v] # 0 =>
            missing[v] <= Count(v) /\ missing[v] <= Before(v) + Count(v) - offset
  /\ client = "reading" /\ offset > MaxInt32 => Rows > 0

PagingIInv == IInv /\ PagingTypeOK /\ MissingIsAhead /\ PageMissesNothing
===============================================================================
