------------------------------- MODULE Listings -------------------------------
(***************************************************************************)
(* The statements that list words, and the limits and offsets they are     *)
(* given: by the query of a request to the API, and by the argument of     *)
(* "words", "words rank" and "words frequency".  A row is listed as its    *)
(* value.                                                                  *)
(***************************************************************************)
EXTENDS Store, FiniteSets

CONSTANTS
  Collation,    \* all of Text in the order of the database's collation
  MaxInt32,     \* 2^31 - 1
  MaxUint32,    \* 2^32 - 1
  PageLimit,    \* the default limit of the API, 1000
  CommandLimit, \* that of rank and frequency, 30
  None,         \* no limit or offset is given
  NoNumber      \* what is given is not a number

ASSUME ListingsAssumption ==
  /\ Collation \in Seq(Text)
  /\ \A v \in Text : \E i \in 1 .. Len(Collation) :
       \A j \in 1 .. Len(Collation) : Collation[j] = v <=> j = i
  /\ MaxInt32 \in Nat /\ MaxUint32 = 2 * MaxInt32 + 1
  /\ PageLimit \in 1 .. MaxInt32 /\ CommandLimit \in 0 .. MaxInt32
  /\ None \notin Int /\ NoNumber \notin Int /\ None # NoNumber

(* Can strconv.ParseUint(v, 10, 32) parse it? *)
IsUint32(v) == v # NoNumber /\ v \in 0 .. MaxUint32

(* limitValue and offsetValue: the parameter, or its default, also for a   *)
(* number that only fits an unsigned integer.  Else the answer is 400.     *)
ValidPage(limit, offset) ==
  /\ limit = None \/ IsUint32(limit)
  /\ offset = None \/ IsUint32(offset)

limitValue(limit) ==
  IF limit = None THEN PageLimit ELSE IF limit > MaxInt32 THEN PageLimit ELSE limit

offsetValue(offset) ==
  IF offset = None THEN 0 ELSE IF offset > MaxInt32 THEN 0 ELSE offset

(* strconv.ParseInt(v, 10, 32). *)
IsInt32(v) == v # NoNumber /\ v \in -(MaxInt32 + 1) .. MaxInt32

(* The limit of "words": without an argument, the largest there is. *)
ListArgument(arg) == IF arg = None THEN MaxInt32 ELSE arg

(* Bug: an error of ParseInt leaves the limit at zero, whatever it was. *)
ArgumentOrZero(arg) ==
  IF arg = None THEN CommandLimit
  ELSE IF IsInt32(arg) THEN arg ELSE 0

(* The limit of rank and frequency: ParseInt returns the nearest number    *)
(* with a range error and 0 with a syntax error, and either is only logged.*)
Argument(arg) ==
  IF arg = None THEN CommandLimit
  ELSE IF arg = NoNumber THEN 0
  ELSE IF arg > MaxInt32 THEN MaxInt32
  ELSE IF arg < -(MaxInt32 + 1) THEN -(MaxInt32 + 1) ELSE arg

-------------------------------------------------------------------------------
Stored   == {w.value : w \in words}
Count(v) == Cardinality({w \in words : w.value = v})
Rows     == Cardinality(words)

Lesser(m, n) == IF m <= n THEN m ELSE n
Greater(m, n) == IF m <= n THEN n ELSE m

(* How many words come before value v, in ORDER BY value ASC. *)
Before(v) ==
  Cardinality({w \in words :
    \E i, j \in 1 .. Len(Collation) :
       i < j /\ Collation[i] = w.value /\ Collation[j] = v})

(* Bug: the first row is number one to OFFSET. *)
ListWordsFromOne(limit, offset) ==
  [k \in 1 .. Lesser(limit, Greater(Rows - offset - 1, 0)) |->
     CHOOSE v \in Stored : /\ Before(v) < offset + 1 + k
                           /\ offset + 1 + k <= Before(v) + Count(v)]

(* ... LIMIT limit OFFSET offset: equal values are next to each other.     *)
ListWords(limit, offset) ==
  [k \in 1 .. Lesser(limit, Greater(Rows - offset, 0)) |->
     CHOOSE v \in Stored : /\ Before(v) < offset + k
                           /\ offset + k <= Before(v) + Count(v)]

(* GROUP BY value ORDER BY rank[value] LIMIT limit: values of equal rank   *)
(* come in any order, and any of them may be the ones left out.            *)
Grouped(rank, limit) ==
  {s \in [1 .. Lesser(limit, Cardinality(Stored)) -> Stored] :
     /\ \A i, j \in DOMAIN s :
          i < j => s[i] # s[j] /\ rank[s[i]] <= rank[s[j]]
     /\ \A v \in Stored, i \in DOMAIN s :
          (\E j \in DOMAIN s : s[j] = v) \/ rank[s[i]] <= rank[v]}

(* The rarest words first. *)
ListWordFrequencies(limit) == Grouped([v \in Stored |-> Count(v)], limit)

(* The most frequent words first. *)
ListWordRankings(limit) == Grouped([v \in Stored |-> -Count(v)], limit)
===============================================================================
