---------------------------- MODULE CommandsProofs ----------------------------
(***************************************************************************)
(* Proofs about the commands and a paging client of the API, for any       *)
(* texts and collation, any input, any words of other processes, any       *)
(* limits, any number of retries and of analyses of one name: what the     *)
(* listing statements return, the inductive invariant IInv, and the        *)
(* properties that follow.                                                 *)
(***************************************************************************)
EXTENDS Paging, StoreProofs, FiniteSetTheorems

(* What the listing statements return. *)

(* The least-number principle, from the well-foundedness of <.            *)
LEMMA Least ==
  ASSUME NEW S \in SUBSET Nat, S # {}
  PROVE  \E m \in S : \A n \in S : m <= n
<1> DEFINE R == OpToRel(<, Nat)
<1>1. IsWellFoundedOn(R, Nat)
  BY NatLessThanWellFounded
<1> HIDE DEF R
<1>2. \E m \in S : \A n \in S : ~(<<n, m>> \in R)
  BY <1>1, WFMin
<1>3. \A m, n \in Nat : n < m => <<n, m>> \in R
  BY DEF R, OpToRel
<1>4. PICK m \in S : \A n \in S : ~(<<n, m>> \in R)
  BY <1>2
<1>5. \A n \in S : m <= n
  <2> SUFFICES ASSUME NEW n \in S, n < m PROVE FALSE
    OBVIOUS
  <2> QED
    BY <1>3, <1>4
<1> QED
  BY <1>5

(* Ids make a table finite. *)
LEMMA FiniteRows ==
  ASSUME NEW T, T \subseteq ItemRow, \A r, s \in T : r.id = s.id => r = s
  PROVE  IsFiniteSet(T)
<1> DEFINE f == [r \in T |-> r.id]
<1>1. f \in [T -> 1 .. MaxId]
  BY DEF ItemRow
<1>2. f \in Injection(T, 1 .. MaxId)
  BY <1>1 DEF Injection, IsInjective
<1>3. IsFiniteSet(1 .. MaxId)
  <2>1. 1 \in Int /\ MaxId \in Int
    BY StoreAssumption
  <2> QED
    BY <2>1, FS_Interval
<1> HIDE DEF f
<1> QED
  BY <1>2, <1>3, FS_Injection

LEMMA FiniteWords ==
  Integrity => IsFiniteSet(words) /\ \A w \in words : w.value \in Text
<1> SUFFICES ASSUME Integrity PROVE IsFiniteSet(words) /\ \A w \in words : w.value \in Text
  OBVIOUS
<1> USE DEF Integrity, StoreTypeOK
<1>1. IsFiniteSet(words)
  BY FiniteRows DEF KeysUnique
<1> QED
  BY <1>1 DEF ItemRow

LEMMA FiniteSubset ==
  ASSUME NEW S, IsFiniteSet(S), NEW T \in SUBSET S
  PROVE  IsFiniteSet(T) /\ Cardinality(T) \in Nat /\ Cardinality(T) <= Cardinality(S)
BY FS_Subset, FS_CardinalityType

(* The place of a value in the collation. *)
Position(v) == CHOOSE i \in 1 .. Len(Collation) : Collation[i] = v

LEMMA Positions ==
  /\ Len(Collation) \in Nat
  /\ \A v \in Text : Position(v) \in 1 .. Len(Collation) /\ Collation[Position(v)] = v
  /\ \A i \in 1 .. Len(Collation) : Collation[i] \in Text /\ Position(Collation[i]) = i
<1>1. Len(Collation) \in Nat /\ \A i \in 1 .. Len(Collation) : Collation[i] \in Text
  BY ListingsAssumption
<1>2. \A v \in Text : \E i \in 1 .. Len(Collation) :
        \A j \in 1 .. Len(Collation) : Collation[j] = v <=> j = i
  BY ListingsAssumption
<1>3. \A v \in Text : Position(v) \in 1 .. Len(Collation) /\ Collation[Position(v)] = v
  BY <1>2 DEF Position
<1>4. \A i \in 1 .. Len(Collation) : Position(Collation[i]) = i
  <2> SUFFICES ASSUME NEW i \in 1 .. Len(Collation) PROVE Position(Collation[i]) = i
    OBVIOUS
  <2>1. Collation[i] \in Text
    BY <1>1
  <2> QED
    BY <1>2, <1>3, <2>1
<1> QED
  BY <1>1, <1>3, <1>4

(* Before counts the words in front of v. *)
LEMMA BeforeByPosition ==
  ASSUME Integrity, NEW v \in Text
  PROVE  Before(v) = Cardinality({w \in words : Position(w.value) < Position(v)})
<1>1. \A w \in words : w.value \in Text
  BY FiniteWords
<1>2. ASSUME NEW w \in words
      PROVE  (\E i, j \in 1 .. Len(Collation) :
                i < j /\ Collation[i] = w.value /\ Collation[j] = v)
             <=> Position(w.value) < Position(v)
  BY <1>1, Positions
<1>3. {w \in words : \E i, j \in 1 .. Len(Collation) :
                i < j /\ Collation[i] = w.value /\ Collation[j] = v}
      = {w \in words : Position(w.value) < Position(v)}
  BY <1>2
<1> QED
  BY <1>3 DEF Before

(* The values divide the rows: those of v are the Count(v) rows that       *)
(* follow the first Before(v).                                             *)
LEMMA CountsAreNumbers ==
  ASSUME Integrity
  PROVE  /\ Rows \in Nat
         /\ \A v \in Text : Count(v) \in Nat /\ Before(v) \in Nat
         /\ \A v \in Text : v \in Stored <=> Count(v) > 0
         /\ Stored \subseteq Text
<1>1. IsFiniteSet(words) /\ \A w \in words : w.value \in Text
  BY FiniteWords
<1>2. Rows \in Nat
  BY <1>1, FS_CardinalityType DEF Rows
<1>3. ASSUME NEW v \in Text PROVE Count(v) \in Nat /\ Before(v) \in Nat
  BY <1>1, FiniteSubset DEF Count, Before
<1>4. ASSUME NEW v \in Text PROVE v \in Stored <=> Count(v) > 0
  <2> DEFINE W == {w \in words : w.value = v}
  <2>1. IsFiniteSet(W)
    BY <1>1, FiniteSubset
  <2>2. v \in Stored <=> W # {}
    BY DEF Stored
  <2>3. Cardinality(W) = 0 <=> W = {}
    BY <2>1, FS_EmptySet
  <2> HIDE DEF W
  <2>4. Count(v) = Cardinality(W)
    BY DEF Count, W
  <2> QED
    BY <1>3, <2>2, <2>3, <2>4
<1>5. Stored \subseteq Text
  BY <1>1 DEF Stored
<1> QED
  BY <1>2, <1>3, <1>4, <1>5

LEMMA DisjointSum ==
  ASSUME NEW S, IsFiniteSet(S), NEW T, IsFiniteSet(T), S \cap T = {}
  PROVE  Cardinality(S \cup T) = Cardinality(S) + Cardinality(T)
<1>1. Cardinality(S \cup T) = Cardinality(S) + Cardinality(T) - Cardinality(S \cap T)
  BY FS_Union
<1>2. Cardinality(S \cap T) = 0
  BY FS_EmptySet
<1>3. Cardinality(S) \in Nat /\ Cardinality(T) \in Nat
  BY FS_CardinalityType
<1> QED
  BY <1>1, <1>2, <1>3

LEMMA UpToValue ==
  ASSUME Integrity, NEW v \in Text
  PROVE  Cardinality({w \in words : Position(w.value) <= Position(v)}) = Before(v) + Count(v)
<1> DEFINE B == {w \in words : Position(w.value) < Position(v)}
           C == {w \in words : w.value = v}
           D == {w \in words : Position(w.value) <= Position(v)}
<1>1. IsFiniteSet(words) /\ \A w \in words : w.value \in Text
  BY FiniteWords
<1>2. IsFiniteSet(B) /\ IsFiniteSet(C)
  BY <1>1, FiniteSubset
<1>3. \A w \in words : /\ Position(w.value) \in Nat /\ Position(v) \in Nat
                       /\ Position(w.value) = Position(v) <=> w.value = v
  BY <1>1, Positions
<1>4. D = B \cup C /\ B \cap C = {}
  BY <1>3
<1> HIDE DEF B, C, D
<1>5. Cardinality(D) = Cardinality(B) + Cardinality(C)
  BY <1>2, <1>4, DisjointSum
<1> QED
  BY <1>5, BeforeByPosition DEF B, C, D, Count

(* The rows of an earlier value end where those of a later one begin, or   *)
(* before.                                                                 *)
LEMMA EarlierEnds ==
  ASSUME Integrity, NEW u \in Text, NEW v \in Text, Position(u) < Position(v)
  PROVE  Before(u) + Count(u) <= Before(v)
<1> DEFINE D == {w \in words : Position(w.value) <= Position(u)}
           B == {w \in words : Position(w.value) < Position(v)}
<1>1. IsFiniteSet(words) /\ \A w \in words : w.value \in Text
  BY FiniteWords
<1>2. \A w \in words : Position(w.value) \in Nat /\ Position(u) \in Nat /\ Position(v) \in Nat
  BY <1>1, Positions
<1>3. D \subseteq B
  BY <1>2
<1>4. IsFiniteSet(B)
  BY <1>1, FiniteSubset
<1> HIDE DEF D, B
<1>5. Cardinality(D) <= Cardinality(B)
  BY <1>3, <1>4, FiniteSubset
<1> QED
  BY <1>5, UpToValue, BeforeByPosition DEF D, B

LEMMA ValuesInRow ==
  ASSUME Integrity
  PROVE  /\ \A v \in Text : Before(v) + Count(v) <= Rows
         /\ \A u, v \in Text :
              u # v => \/ Before(u) + Count(u) <= Before(v)
                       \/ Before(v) + Count(v) <= Before(u)
<1>1. IsFiniteSet(words) /\ \A w \in words : w.value \in Text
  BY FiniteWords
<1>2. ASSUME NEW v \in Text PROVE Before(v) + Count(v) <= Rows
  BY <1>1, UpToValue, FiniteSubset DEF Rows
<1>3. ASSUME NEW u \in Text, NEW v \in Text, Position(u) < Position(v)
      PROVE  Before(u) + Count(u) <= Before(v)
  BY <1>3, EarlierEnds
<1>4. ASSUME NEW u \in Text, NEW v \in Text, u # v
      PROVE  Position(u) < Position(v) \/ Position(v) < Position(u)
  BY <1>4, Positions
<1> QED
  BY <1>2, <1>3, <1>4

(* Every row has a value. *)
LEMMA EveryRowHasValue ==
  ASSUME Integrity, NEW p \in 1 .. Rows
  PROVE  \E v \in Stored : Before(v) < p /\ p <= Before(v) + Count(v)
<1> DEFINE UpTo(i) == {w \in words : Position(w.value) <= i}
           S == {i \in Nat : p <= Cardinality(UpTo(i))}
           n == Len(Collation)
<1>1. IsFiniteSet(words) /\ \A w \in words : w.value \in Text
  BY FiniteWords
<1>2. \A w \in words : Position(w.value) \in 1 .. n
  BY <1>1, Positions
<1>3. Rows \in Nat /\ Rows = Cardinality(words)
  BY CountsAreNumbers DEF Rows
<1>4. n \in S
  <2>1. UpTo(n) = words
    BY <1>2
  <2>2. n \in Nat
    BY Positions
  <2> HIDE DEF UpTo
  <2>3. p <= Cardinality(UpTo(n))
    BY <1>3, <2>1
  <2> QED
    BY <2>2, <2>3
<1>5. PICK m \in S : \A i \in S : m <= i
  <2> HIDE DEF UpTo
  <2>1. S \in SUBSET Nat
    OBVIOUS
  <2> HIDE DEF S
  <2> QED
    BY <1>4, <2>1, Least
<1>6. m # 0
  <2>1. UpTo(0) = {}
    BY <1>2
  <2>2. Cardinality(UpTo(0)) = 0
    BY <2>1, FS_EmptySet
  <2> QED
    BY <1>3, <1>5, <2>2
<1>7. m \in 1 .. n /\ m - 1 \in Nat /\ m - 1 \notin S
  <2>1. m \in Nat /\ n \in Nat
    BY <1>5, Positions
  <2> HIDE DEF S
  <2> QED
    BY <1>4, <1>5, <1>6, <2>1
<1> DEFINE v == Collation[m]
<1>8. v \in Text /\ Position(v) = m
  BY <1>7, Positions
<1>9. Before(v) = Cardinality(UpTo(m - 1))
  <2>1. \A w \in words : Position(w.value) < m <=> Position(w.value) <= m - 1
    BY <1>2, <1>7
  <2>2. {w \in words : Position(w.value) < Position(v)} = UpTo(m - 1)
    BY <1>8, <2>1
  <2> QED
    BY <1>8, <2>2, BeforeByPosition
<1>10. Before(v) + Count(v) = Cardinality(UpTo(m))
  BY <1>8, UpToValue
<1>11. Before(v) \in Nat /\ Count(v) \in Nat
  BY <1>8, CountsAreNumbers
<1>12. Before(v) < p /\ p <= Before(v) + Count(v)
  <2>1. ~(p <= Cardinality(UpTo(m - 1))) /\ p <= Cardinality(UpTo(m))
    BY <1>5, <1>7
  <2>2. p \in Nat
    BY <1>3
  <2> HIDE DEF UpTo, v
  <2> QED
    BY <1>9, <1>10, <1>11, <2>1, <2>2
<1>13. v \in Stored
  <2>1. p \in Nat
    BY <1>3
  <2> HIDE DEF v
  <2> QED
    BY <1>8, <1>11, <1>12, <2>1, CountsAreNumbers
<1> HIDE DEF v
<1> QED
  BY <1>12, <1>13

-------------------------------------------------------------------------------
(* LIMIT and OFFSET cut the rows that they number.                         *)
LEMMA ListedRows ==
  ASSUME Integrity, NEW l \in Nat, NEW o \in Nat
  PROVE  LET rows == ListWords(l, o)
             n    == Lesser(l, Greater(Rows - o, 0))
         IN  /\ n \in Nat
             /\ rows \in [1 .. n -> Stored]
             /\ \A k \in 1 .. n, v \in Text :
                  rows[k] = v <=> Before(v) < o + k /\ o + k <= Before(v) + Count(v)
<1> DEFINE n == Lesser(l, Greater(Rows - o, 0))
           Holds(v, k) == Before(v) < o + k /\ o + k <= Before(v) + Count(v)
           rows == ListWords(l, o)
<1>1. Rows \in Nat
  BY CountsAreNumbers
<1>2. n \in Nat /\ \A k \in 1 .. n : o + k \in 1 .. Rows
  BY <1>1 DEF Lesser, Greater
<1>3. rows = [k \in 1 .. n |-> CHOOSE v \in Stored : Holds(v, k)]
  BY DEF ListWords
<1>4. ASSUME NEW k \in 1 .. n PROVE \E v \in Stored : Holds(v, k)
  <2>1. o + k \in 1 .. Rows
    BY <1>2
  <2> QED
    BY <2>1, EveryRowHasValue
<1>5. ASSUME NEW k \in 1 .. n, NEW u \in Text, NEW v \in Text, Holds(u, k), Holds(v, k)
      PROVE  u = v
  <2>1. /\ Before(u) \in Nat /\ Count(u) \in Nat /\ Before(v) \in Nat /\ Count(v) \in Nat
        /\ o + k \in Nat
    BY <1>2, CountsAreNumbers
  <2>2. u # v => \/ Before(u) + Count(u) <= Before(v)
                 \/ Before(v) + Count(v) <= Before(u)
    BY ValuesInRow
  <2> QED
    BY <1>5, <2>1, <2>2
<1> HIDE DEF n, Holds, rows
<1>6. ASSUME NEW k \in 1 .. n PROVE rows[k] \in Stored /\ Holds(rows[k], k)
  <2>1. rows[k] = CHOOSE v \in Stored : Holds(v, k)
    BY <1>3
  <2> QED
    BY <1>4, <2>1
<1>7. rows \in [1 .. n -> Stored]
  BY <1>3, <1>6
<1>8. \A k \in 1 .. n, v \in Text : rows[k] = v <=> Holds(v, k)
  <2>1. Stored \subseteq Text
    BY CountsAreNumbers
  <2> QED
    BY <1>5, <1>6, <2>1
<1> QED
  BY <1>2, <1>7, <1>8 DEF n, Holds, rows

(* Without a limit that is reached, every word is listed.                  *)
LEMMA ListsAll ==
  ASSUME Integrity, NEW l \in Nat
  PROVE  LET rows == ListWords(l, 0)
         IN  /\ rows \in Seq(Stored)
             /\ Len(rows) = l \/ \A v \in Stored : \E i \in DOMAIN rows : rows[i] = v
<1> DEFINE rows == ListWords(l, 0)
           n == Lesser(l, Greater(Rows - 0, 0))
<1>1. n \in Nat /\ rows \in [1 .. n -> Stored]
  BY ListedRows
<1>2. \A k \in 1 .. n, v \in Text :
        rows[k] = v <=> Before(v) < 0 + k /\ 0 + k <= Before(v) + Count(v)
  BY ListedRows
<1>3. Rows \in Nat /\ (n = l \/ n = Rows)
  BY CountsAreNumbers DEF Lesser, Greater
<1> HIDE DEF rows, n
<1>4. rows \in Seq(Stored) /\ Len(rows) = n /\ DOMAIN rows = 1 .. n
  BY <1>1
<1>5. ASSUME n = Rows, NEW v \in Stored PROVE \E i \in DOMAIN rows : rows[i] = v
  <2>1. v \in Text
    BY CountsAreNumbers
  <2>2. Before(v) \in Nat /\ Count(v) \in Nat /\ Count(v) > 0
    BY <2>1, CountsAreNumbers
  <2>3. Before(v) + Count(v) <= Rows
    BY <2>1, ValuesInRow
  <2>4. Before(v) + 1 \in 1 .. n
    BY <1>3, <1>5, <2>2, <2>3
  <2>5. rows[Before(v) + 1] = v
    BY <1>2, <2>1, <2>2, <2>4
  <2> QED
    BY <1>4, <2>4, <2>5
<1> QED
  BY <1>3, <1>4, <1>5 DEF rows

LEMMA FiniteStored ==
  Integrity => IsFiniteSet(Stored) /\ Cardinality(Stored) \in Nat
<1> SUFFICES ASSUME Integrity PROVE IsFiniteSet(Stored) /\ Cardinality(Stored) \in Nat
  OBVIOUS
<1> DEFINE f == [w \in words |-> w.value]
<1>1. f \in Surjection(words, Stored)
  BY DEF Surjection, Stored
<1>2. IsFiniteSet(words)
  BY FiniteWords
<1> HIDE DEF f
<1>3. IsFiniteSet(Stored)
  BY <1>1, <1>2, FS_Surjection
<1> QED
  BY <1>3, FS_CardinalityType

(* GROUP BY names no word twice, and without a limit that is reached,      *)
(* every one.                                                              *)
LEMMA GroupsAll ==
  ASSUME Integrity, NEW l \in Nat, NEW rank, NEW s \in Grouped(rank, l)
  PROVE  /\ s \in Seq(Stored)
         /\ \A i, j \in DOMAIN s : s[i] = s[j] => i = j
         /\ Len(s) = l \/ \A v \in Stored : \E i \in DOMAIN s : s[i] = v
<1> DEFINE n == Lesser(l, Cardinality(Stored))
<1>1. IsFiniteSet(Stored) /\ Cardinality(Stored) \in Nat
  BY FiniteStored
<1>2. n \in Nat /\ (n = l \/ n = Cardinality(Stored))
  BY <1>1 DEF Lesser
<1>3. s \in [1 .. n -> Stored] /\ \A i, j \in DOMAIN s : i < j => s[i] # s[j]
  BY DEF Grouped
<1> HIDE DEF n
<1>4. s \in Seq(Stored) /\ Len(s) = n /\ DOMAIN s = 1 .. n
  BY <1>2, <1>3
<1>5. \A i, j \in DOMAIN s : s[i] = s[j] => i = j
  <2>1. \A i, j \in DOMAIN s : i < j \/ j < i \/ i = j
    BY <1>2, <1>4
  <2> QED
    BY <1>3, <2>1
<1>6. s \in Injection(1 .. n, Stored)
  BY <1>3, <1>5 DEF Injection, IsInjective
<1>7. Cardinality(1 .. n) = n
  <2>1. 1 \in Int /\ n \in Int
    BY <1>2
  <2>2. Cardinality(1 .. n) = IF 1 > n THEN 0 ELSE n - 1 + 1
    BY <2>1, FS_Interval
  <2> QED
    BY <1>2, <2>2
<1>8. n = Cardinality(Stored) => s \in Surjection(1 .. n, Stored)
  BY <1>1, <1>6, <1>7, FS_Injection
<1> QED
  BY <1>2, <1>4, <1>5, <1>8 DEF Surjection

(* ORDER BY value: the rows come in the order of the collation, ...        *)
THEOREM ListIsSorted ==
  ASSUME Integrity, NEW l \in Nat, NEW o \in Nat
  PROVE  \A i, j \in DOMAIN ListWords(l, o) :
           i < j => Position(ListWords(l, o)[i]) <= Position(ListWords(l, o)[j])
<1> DEFINE rows == ListWords(l, o)
           n    == Lesser(l, Greater(Rows - o, 0))
<1>1. n \in Nat /\ rows \in [1 .. n -> Stored] /\ Stored \subseteq Text
  BY ListedRows, CountsAreNumbers
<1>2. \A k \in 1 .. n, v \in Text :
        rows[k] = v <=> Before(v) < o + k /\ o + k <= Before(v) + Count(v)
  BY ListedRows
<1> HIDE DEF rows, n
<1>3. ASSUME NEW i \in 1 .. n, NEW j \in 1 .. n, i < j
      PROVE  Position(rows[i]) <= Position(rows[j])
  <2>1. rows[i] \in Text /\ rows[j] \in Text
    BY <1>1
  <2>2. PICK u \in Text : u = rows[i]
    BY <2>1
  <2>3. PICK v \in Text : v = rows[j]
    BY <2>1
  <2>4. Before(u) < o + i /\ o + j <= Before(v) + Count(v)
    BY <1>2, <2>2, <2>3
  <2>5. SUFFICES ASSUME Position(v) < Position(u) PROVE FALSE
    BY <2>2, <2>3, Positions
  <2>6. Before(v) + Count(v) <= Before(u)
    BY <2>5, EarlierEnds
  <2>7. /\ Before(u) \in Nat /\ Before(v) \in Nat /\ Count(v) \in Nat
        /\ i \in Nat /\ j \in Nat
    BY <1>1, CountsAreNumbers
  <2> QED
    BY <1>3, <2>4, <2>6, <2>7
<1> QED
  BY <1>1, <1>3 DEF rows

(* ... and LIMIT and OFFSET cut a piece out of the list of all rows.       *)
THEOREM PagesArePieces ==
  ASSUME Integrity, NEW l \in Nat, NEW o \in Nat
  PROVE  /\ Len(ListWords(l, o)) = Lesser(l, Greater(Rows - o, 0))
         /\ Len(ListWords(Rows, 0)) = Rows
         /\ \A k \in DOMAIN ListWords(l, o) : ListWords(l, o)[k] = ListWords(Rows, 0)[o + k]
<1> DEFINE rows == ListWords(l, o)
           n    == Lesser(l, Greater(Rows - o, 0))
           all  == ListWords(Rows, 0)
           m    == Lesser(Rows, Greater(Rows - 0, 0))
<1>1. Rows \in Nat /\ Stored \subseteq Text
  BY CountsAreNumbers
<1>2. m = Rows
  BY <1>1 DEF Lesser, Greater
<1>3. n \in Nat /\ rows \in [1 .. n -> Stored]
  BY ListedRows
<1>4. \A k \in 1 .. n, v \in Text :
        rows[k] = v <=> Before(v) < o + k /\ o + k <= Before(v) + Count(v)
  BY ListedRows
<1>5. all \in [1 .. m -> Stored]
  BY <1>1, ListedRows
<1>6. \A k \in 1 .. m, v \in Text :
        all[k] = v <=> Before(v) < 0 + k /\ 0 + k <= Before(v) + Count(v)
  BY <1>1, ListedRows
<1>7. \A k \in 1 .. n : o + k \in 1 .. Rows
  BY <1>1 DEF Lesser, Greater
<1> HIDE DEF rows, n, all, m
<1>8. ASSUME NEW k \in 1 .. n PROVE rows[k] = all[o + k]
  <2>1. o + k \in 1 .. m /\ 0 + (o + k) = o + k
    BY <1>2, <1>3, <1>7
  <2>2. PICK v \in Text : v = rows[k]
    BY <1>1, <1>3
  <2>3. Before(v) < 0 + (o + k) /\ 0 + (o + k) <= Before(v) + Count(v)
    BY <1>4, <2>1, <2>2
  <2> QED
    BY <1>6, <2>1, <2>2, <2>3
<1>9. Len(rows) = n /\ DOMAIN rows = 1 .. n /\ Len(all) = m
  BY <1>1, <1>2, <1>3, <1>5
<1> QED
  BY <1>2, <1>8, <1>9 DEF rows, n, all

(* GROUP BY ... ORDER BY rank LIMIT l always has a result: the n values of *)
(* lowest rank can be continued by one of the lowest rank of the others.   *)
LEMMA GroupsContinue ==
  ASSUME Integrity, NEW rank \in [Stored -> Int], \A v \in Stored : rank[v] + Rows \in Nat,
         NEW n \in Nat, n < Cardinality(Stored), NEW s \in Grouped(rank, n)
  PROVE  Grouped(rank, n + 1) # {}
<1>1. IsFiniteSet(Stored) /\ Cardinality(Stored) \in Nat /\ Rows \in Nat
  BY FiniteStored, CountsAreNumbers
<1>2. Lesser(n, Cardinality(Stored)) = n /\ Lesser(n + 1, Cardinality(Stored)) = n + 1
  BY <1>1 DEF Lesser
<1>3. /\ s \in [1 .. n -> Stored]
      /\ \A i, j \in 1 .. n : i < j => s[i] # s[j] /\ rank[s[i]] <= rank[s[j]]
      /\ \A v \in Stored, i \in 1 .. n : (\E j \in 1 .. n : s[j] = v) \/ rank[s[i]] <= rank[v]
  BY <1>2 DEF Grouped
<1> DEFINE Rest == {v \in Stored : \A j \in 1 .. n : s[j] # v}
<1>4. Rest # {}
  <2> SUFFICES ASSUME Rest = {} PROVE FALSE
    OBVIOUS
  <2>1. s \in Surjection(1 .. n, Stored)
    BY <1>3 DEF Surjection
  <2>2. IsFiniteSet(1 .. n) /\ Cardinality(1 .. n) = n
    <3>1. 1 \in Int /\ n \in Int
      OBVIOUS
    <3>2. IsFiniteSet(1 .. n) /\ Cardinality(1 .. n) = IF 1 > n THEN 0 ELSE n - 1 + 1
      BY <3>1, FS_Interval
    <3> QED
      BY <3>2
  <2>3. Cardinality(Stored) <= n
    BY <2>1, <2>2, FS_Surjection
  <2> QED
    BY <1>1, <2>3
<1> DEFINE S == {rank[v] + Rows : v \in Rest}
<1>5. S \in SUBSET Nat /\ S # {}
  BY <1>4
<1>6. PICK m \in S : \A k \in S : m <= k
  <2> HIDE DEF S
  <2> QED
    BY <1>5, Least
<1>7. PICK v \in Rest : m = rank[v] + Rows
  BY <1>6
<1>8. \A u \in Rest : rank[v] <= rank[u]
  <2>1. \A u \in Rest : rank[u] \in Int /\ rank[u] + Rows \in S
    OBVIOUS
  <2> HIDE DEF S
  <2> QED
    BY <1>1, <1>6, <1>7, <2>1
<1> HIDE DEF S
<1> DEFINE t == [i \in 1 .. n + 1 |-> IF i = n + 1 THEN v ELSE s[i]]
<1>9. /\ t \in [1 .. n + 1 -> Stored]
      /\ t[n + 1] = v /\ \A i \in 1 .. n : t[i] = s[i]
      /\ \A i \in 1 .. n + 1 : i \in 1 .. n \/ i = n + 1
      /\ \A i \in 1 .. n : i \in 1 .. n + 1 /\ i < n + 1
      /\ n + 1 \in 1 .. n + 1
  BY <1>3
<1> HIDE DEF t
<1>10. \A i, j \in 1 .. n + 1 : i < j => t[i] # t[j] /\ rank[t[i]] <= rank[t[j]]
  <2> SUFFICES ASSUME NEW i \in 1 .. n + 1, NEW j \in 1 .. n + 1, i < j
               PROVE  t[i] # t[j] /\ rank[t[i]] <= rank[t[j]]
    OBVIOUS
  <2>1. i \in 1 .. n
    OBVIOUS
  <2>2. CASE j \in 1 .. n
    BY <1>3, <1>9, <2>1, <2>2
  <2>3. CASE j = n + 1
    <3>1. v \in Stored /\ \A k \in 1 .. n : s[k] # v
      BY <1>7
    <3>2. rank[s[i]] <= rank[v]
      BY <1>3, <2>1, <3>1
    <3> QED
      BY <1>9, <2>1, <2>3, <3>1, <3>2
  <2> QED
    BY <1>9, <2>2, <2>3
<1>11. ASSUME NEW u \in Stored, NEW i \in 1 .. n + 1
       PROVE  (\E j \in 1 .. n + 1 : t[j] = u) \/ rank[t[i]] <= rank[u]
  <2>1. CASE u \in Rest
    <3>1. rank[v] <= rank[u]
      BY <1>8, <2>1
    <3>2. i \in 1 .. n => rank[s[i]] <= rank[u]
      BY <1>3, <2>1
    <3> QED
      BY <1>9, <3>1, <3>2
  <2>2. CASE u \notin Rest
    BY <1>9, <2>2
  <2> QED
    BY <2>1, <2>2
<1>12. t \in Grouped(rank, n + 1)
  <2>1. DOMAIN t = 1 .. n + 1
    BY <1>9
  <2> QED
    BY <1>2, <1>9, <1>10, <1>11, <2>1 DEF Grouped
<1> QED
  BY <1>12

LEMMA GroupsExist ==
  ASSUME Integrity, NEW rank \in [Stored -> Int], \A v \in Stored : rank[v] + Rows \in Nat,
         NEW l \in Nat
  PROVE  Grouped(rank, l) # {}
<1>1. IsFiniteSet(Stored) /\ Cardinality(Stored) \in Nat
  BY FiniteStored
<1> DEFINE c == Cardinality(Stored)
           Lacking == {n \in Nat : n <= c /\ Grouped(rank, n) = {}}
<1>2. Lacking = {}
  <2> SUFFICES ASSUME Lacking # {} PROVE FALSE
    OBVIOUS
  <2>1. PICK m \in Lacking : \A n \in Lacking : m <= n
    <3>1. Lacking \in SUBSET Nat
      OBVIOUS
    <3> HIDE DEF Lacking
    <3> QED
      BY <3>1, Least
  <2>2. m \in Nat /\ m <= c /\ Grouped(rank, m) = {}
    OBVIOUS
  <2>3. m # 0
    <3>1. <<>> \in Grouped(rank, 0)
      <4>1. Lesser(0, c) = 0 /\ 1 .. 0 = {}
        BY <1>1 DEF Lesser
      <4>2. <<>> \in [1 .. 0 -> Stored] /\ DOMAIN <<>> = {}
        BY <4>1
      <4> QED
        BY <4>1, <4>2 DEF Grouped
    <3> QED
      BY <2>2, <3>1
  <2>4. m - 1 \in Nat /\ m - 1 < c /\ (m - 1) + 1 = m
    BY <1>1, <2>2, <2>3
  <2>5. Grouped(rank, m - 1) # {}
    <3>1. m - 1 \notin Lacking
      <4> HIDE DEF Lacking
      <4> QED
        BY <2>1, <2>2, <2>4
    <3> QED
      BY <1>1, <2>4, <3>1
  <2>6. PICK s : s \in Grouped(rank, m - 1)
    BY <2>5
  <2>7. Grouped(rank, (m - 1) + 1) # {}
    BY <2>4, <2>6, GroupsContinue
  <2> QED
    BY <2>2, <2>4, <2>7
<1>3. Lesser(l, c) \in Nat /\ Lesser(l, c) <= c /\ Lesser(Lesser(l, c), c) = Lesser(l, c)
  BY <1>1 DEF Lesser
<1>4. Grouped(rank, Lesser(l, c)) # {}
  BY <1>2, <1>3
<1>5. Grouped(rank, l) = Grouped(rank, Lesser(l, c))
  BY <1>3 DEF Grouped
<1> QED
  BY <1>4, <1>5

(* So the statements of rank and frequency have a result on every table,   *)
(* and List is never without a step because of its rows.                   *)
THEOREM RankingsExist ==
  ASSUME Integrity, NEW l \in Nat
  PROVE  ListWordRankings(l) # {} /\ ListWordFrequencies(l) # {}
<1>1. /\ Rows \in Nat /\ Stored \subseteq Text
      /\ \A v \in Stored : /\ Count(v) \in Nat /\ Before(v) \in Nat
                           /\ Before(v) + Count(v) <= Rows
  BY CountsAreNumbers, ValuesInRow
<1>2. \A v \in Stored : -Count(v) \in Int /\ -Count(v) + Rows \in Nat /\ Count(v) + Rows \in Nat
  BY <1>1
<1>3. [v \in Stored |-> -Count(v)] \in [Stored -> Int]
      /\ [v \in Stored |-> Count(v)] \in [Stored -> Int]
  BY <1>1, <1>2
<1>4. ListWordRankings(l) # {}
  <2> DEFINE rank == [v \in Stored |-> -Count(v)]
  <2>1. rank \in [Stored -> Int] /\ \A v \in Stored : rank[v] + Rows \in Nat
    BY <1>2, <1>3
  <2> HIDE DEF rank
  <2>2. Grouped(rank, l) # {}
    BY <2>1, GroupsExist
  <2> QED
    BY <2>2 DEF rank, ListWordRankings
<1>5. ListWordFrequencies(l) # {}
  <2> DEFINE rank == [v \in Stored |-> Count(v)]
  <2>1. rank \in [Stored -> Int] /\ \A v \in Stored : rank[v] + Rows \in Nat
    BY <1>2, <1>3
  <2> HIDE DEF rank
  <2>2. Grouped(rank, l) # {}
    BY <2>1, GroupsExist
  <2> QED
    BY <2>2 DEF rank, ListWordFrequencies
<1> QED
  BY <1>4, <1>5

(* Words are only added: no count, place or end moves to the front.        *)
LEMMA ListingsGrow ==
  ASSUME Integrity, Integrity', words \subseteq words'
  PROVE  /\ Rows <= Rows'
         /\ \A v \in Text : Count(v) <= Count(v)' /\ Before(v) <= Before(v)'
         /\ Rows' \in Nat
         /\ \A v \in Text : Count(v)' \in Nat /\ Before(v)' \in Nat
         /\ Stored \subseteq Stored'
<1>1. IsFiniteSet(words')
  <2>1. words' \subseteq ItemRow /\ \A r, s \in words' : r.id = s.id => r = s
    BY DEF Integrity, StoreTypeOK, KeysUnique
  <2> QED
    BY <2>1, FiniteRows
<1>2. Rows <= Rows' /\ Rows' \in Nat
  BY <1>1, FiniteSubset, FS_CardinalityType DEF Rows
<1>3. ASSUME NEW v \in Text PROVE Count(v) <= Count(v)' /\ Count(v)' \in Nat
  <2> DEFINE W == {w \in words : w.value = v}
             X == {w \in words' : w.value = v}
  <2>1. W \subseteq X /\ IsFiniteSet(X) /\ Cardinality(X) \in Nat
    BY <1>1, FiniteSubset
  <2> HIDE DEF W, X
  <2>2. Cardinality(W) <= Cardinality(X)
    BY <2>1, FiniteSubset
  <2> QED
    BY <2>1, <2>2 DEF Count, W, X
<1>4. ASSUME NEW v \in Text PROVE Before(v) <= Before(v)' /\ Before(v)' \in Nat
  <2> DEFINE Precedes(w) == \E i, j \in 1 .. Len(Collation) :
                              i < j /\ Collation[i] = w.value /\ Collation[j] = v
             W == {w \in words : Precedes(w)}
             X == {w \in words' : Precedes(w)}
  <2>1. Before(v) = Cardinality(W) /\ Before(v)' = Cardinality(X)
    BY DEF Before
  <2> HIDE DEF Precedes
  <2>2. W \subseteq X /\ IsFiniteSet(X) /\ Cardinality(X) \in Nat
    BY <1>1, FiniteSubset
  <2> HIDE DEF W, X
  <2>3. Cardinality(W) <= Cardinality(X)
    BY <2>2, FiniteSubset
  <2> QED
    BY <2>1, <2>2, <2>3
<1>5. Stored \subseteq Stored'
  BY DEF Stored
<1> QED
  BY <1>2, <1>3, <1>4, <1>5

-------------------------------------------------------------------------------
(* The parts of IInv, by the variables they are about. *)
PingPart     == PingTypeOK /\ PoolKnows
AnalysisPart == AnalysisTypeOK /\ AnalysesAreKept
CommandTypeOK ==
  /\ input \in Input
  /\ place \in Place
  /\ code \in 0 .. 2
  /\ deadline \in BOOLEAN
  /\ conn \in {"none", "open", "lost", "closed"}
  /\ todo \subseteq Text /\ acked \subseteq Text
  /\ current \in Text
  /\ present \subseteq Text
  /\ server \in {"ok", "sick", "down", "hung"}
  /\ heard \in {"nothing", "ok", "sick", "down"}
  /\ reply \in {"none", "sent", "ok", "failed"}
  /\ mine \subseteq words
CommandPart == CommandTypeOK /\ Course /\ Ledger /\ Health

AllParts     == Integrity /\ PingPart /\ AnalysisPart /\ CommandPart

LEMMA Parts == IInv <=> AllParts
BY DEF AllParts, IInv, TypeOK, Integrity, PingPart, AnalysisPart, CommandPart, CommandTypeOK

-------------------------------------------------------------------------------
(* What the parts that are shared with other programs keep. *)

LEMMA PingUnchanged == PingPart /\ UNCHANGED pingVars => PingPart'
BY DEF PingPart, pingVars, PingTypeOK, PoolKnows

(* The steps of retry.Ping keep what is known about tries and the pool. *)
LEMMA PingKeeps ==
  ASSUME PingPart, PingStep \/ Expire \/ Database
  PROVE  PingPart'
<1> USE PingAssumption DEF Effective, PingPart, PingTypeOK, PoolKnows
<1>1. CASE StartPing
  BY <1>1 DEF StartPing
<1>2. CASE CheckContext
  BY <1>2 DEF CheckContext
<1>3. CASE PingSucceeds
  BY <1>3 DEF PingSucceeds
<1>4. CASE PingFails
  BY <1>4 DEF PingFails, AfterFailure
<1>5. CASE Wake
  BY <1>5 DEF Wake
<1>6. CASE Expire
  BY <1>6 DEF Expire
<1>7. CASE Database
  BY <1>7 DEF Database
<1> QED
  BY <1>1, <1>2, <1>3, <1>4, <1>5, <1>6, <1>7 DEF PingStep

LEMMA AnalysisUnchanged == AnalysisPart /\ UNCHANGED analysisVars => AnalysisPart'
BY DEF AnalysisPart, analysisVars, AnalysisTypeOK, AnalysesAreKept

(* A step of one analysis keeps the counts of each in the file, or notes   *)
(* whose have been truncated.                                              *)
LEMMA AnalyzeKeeps ==
  ASSUME AnalysisPart, NEW p \in Process, Analyze(p)
  PROVE  AnalysisPart'
<1> USE DEF AnalysisPart, AnalysisTypeOK, AnalysesAreKept, Advance
<1>1. CASE StartAnalysis(p)
  BY <1>1 DEF StartAnalysis
<1>2. CASE ReadText(p)
  BY <1>2 DEF ReadText
<1>3. CASE OpenFile(p)
  BY <1>3 DEF OpenFile
<1>4. CASE Truncate(p)
  <2>1. file' = <<>> /\ cleared' = cleared \cup {file[i] : i \in DOMAIN file}
    BY <1>4 DEF Truncate
  <2>2. \A i \in DOMAIN file : file[i] \in Process
    OBVIOUS
  <2>3. AnalysisTypeOK'
    BY <1>4, <2>1, <2>2 DEF Truncate
  <2>4. \A q \in Process : analysis'[q] = "written" => analysis[q] = "written"
    BY <1>4 DEF Truncate
  <2> QED
    BY <2>1, <2>3, <2>4
<1>5. CASE WriteFile(p)
  <2>1. file' = Append(file, p) /\ cleared' = cleared /\ file' \in Seq(Process)
    BY <1>5 DEF WriteFile
  <2>2. Len(file') = Len(file) + 1 /\ Len(file) \in Nat
    BY <2>1
  <2>3. \A i \in DOMAIN file : i \in DOMAIN file' /\ file'[i] = file[i]
    BY <2>1, <2>2
  <2>4. Len(file') \in DOMAIN file' /\ file'[Len(file')] = p
    BY <2>1, <2>2
  <2>5. \A q \in Process \ {p} : analysis'[q] = analysis[q]
    BY <1>5 DEF WriteFile
  <2>6. AnalysisTypeOK'
    BY <1>5, <2>1 DEF WriteFile
  <2> QED
    BY <2>1, <2>3, <2>4, <2>5, <2>6
<1>6. CASE AnalysisFails(p)
  BY <1>6 DEF AnalysisFails
<1> QED
  BY <1>1, <1>2, <1>3, <1>4, <1>5, <1>6 DEF Analyze

LEMMA TablesUnchanged == Integrity /\ UNCHANGED tables => Integrity'
BY NextIntegrity

(* INSERT INTO words adds one row, new, of the value. *)
LEMMA OneRow ==
  ASSUME Integrity, NEW v \in Text, CreateWord(v)
  PROVE  \E r \in words' : words' = words \cup {r} /\ r \notin words /\ r.value = v
<1> DEFINE r == [id |-> issued.words + 1, value |-> v, batch |-> NoBatch]
<1>1. Unnested(<<v>>, issued.words, NoBatch) = {r}
  BY DEF Unnested
<1>2. words' = words \cup {r}
  BY <1>1 DEF CreateWord
<1>3. issued.words \in Nat /\ \A s \in words : s.id <= issued.words
  BY DEF Integrity, StoreTypeOK, KeysUnique
<1>4. r \notin words
  <2>1. r.id = issued.words + 1
    OBVIOUS
  <2> QED
    BY <1>3, <2>1
<1> QED
  BY <1>2, <1>4

-------------------------------------------------------------------------------
(* The steps of the command itself that leave tables and analyses alone.   *)

(* The first part of a command: it asks, opens its pool, pings, connects   *)
(* and reads its input.                                                    *)
LEMMA PrepareKeeps ==
  ASSUME PingPart, Integrity, CommandPart, UNCHANGED tables,
         Ask \/ OpenPool \/ OpenFails \/ PingReturns \/ Connect \/ ConnectFails \/ ReadInput
  PROVE  CommandPart'
<1> USE CommandsAssumption, StoreAssumption
        DEF CommandPart, CommandTypeOK, Place, Kind, Listing, Course, Ledger, Health,
            Inserted, ReturnWith, outside, pingVars, tables
<1>1. CASE Ask
  BY <1>1 DEF Ask
<1>2. CASE OpenPool
  BY <1>2 DEF OpenPool
<1>3. CASE OpenFails
  BY <1>3 DEF OpenFails
<1>4. CASE PingReturns
  BY <1>4 DEF PingReturns
<1>5. CASE Connect
  BY <1>5 DEF Connect
<1>6. CASE ConnectFails
  BY <1>6 DEF ConnectFails
<1>7. CASE ReadInput
  <2>1. Stored \subseteq Text
    BY DEF Stored, Integrity, StoreTypeOK, ItemRow
  <2>2. ping = "ok"
    BY <1>7 DEF ReadInput
  <2>3. input.values \subseteq Text /\ input.kind \in Kind
    OBVIOUS
  <2>4. /\ UNCHANGED <<input, deadline, conn, current, acked, server, heard, reply, mine,
                     ping, pool, words>>
        /\ todo' = IF input.kind = "add" THEN input.values ELSE {}
        /\ present' = Stored
    BY <1>7 DEF ReadInput
  <2>5. \/ input.kind = "add" /\ place' = "looping" /\ code' = code
        \/ input.kind \in Listing /\ place' = "listing" /\ code' = code
        \/ input.kind = "healthz" /\ place' = "closing" /\ code' = 0
        \/ input.kind \notin {"add", "healthz"} /\ place' = "closing" /\ code' \in {1, 2}
    BY <1>7 DEF ReadInput
  <2>6. place = "reading"
    BY <1>7 DEF ReadInput
  <2> QED
    BY <2>1, <2>2, <2>3, <2>4, <2>5, <2>6
<1> QED
  BY <1>1, <1>2, <1>3, <1>4, <1>5, <1>6, <1>7

(* The second part: it inserts, lists or analyzes, and exits.              *)
LEMMA WorkKeeps ==
  ASSUME CommandPart, UNCHANGED tables,
         \/ \E w \in Text : Send(w)
         \/ SendFails \/ Receive \/ GiveUp \/ Finish \/ List \/ ListFails
         \/ AnalysisReturns \/ Exit
  PROVE  CommandPart'
<1> USE CommandsAssumption
        DEF CommandPart, CommandTypeOK, Place, Kind, Listing, Course, Ledger, Health,
            Inserted, ReturnWith, outside, pingVars, tables
<1>1. ASSUME NEW w \in Text, Send(w) PROVE CommandPart'
  BY <1>1 DEF Send
<1>2. CASE SendFails
  BY <1>2 DEF SendFails
<1>3. CASE Receive
  BY <1>3 DEF Receive
<1>4. CASE GiveUp
  BY <1>4 DEF GiveUp
<1>5. CASE Finish
  BY <1>5 DEF Finish
<1>6. CASE List
  BY <1>6 DEF List
<1>7. CASE ListFails
  BY <1>7 DEF ListFails
<1>8. CASE AnalysisReturns
  BY <1>8 DEF AnalysisReturns
<1>9. CASE Exit
  BY <1>9 DEF Exit
<1> QED
  BY <1>1, <1>2, <1>3, <1>4, <1>5, <1>6, <1>7, <1>8, <1>9

(* PostgreSQL refuses the word and stores nothing, or stores it: a word    *)
(* that is under way was not stored by this command before.                *)
LEMMA ExecuteKeeps ==
  ASSUME Integrity, CommandPart, Execute
  PROVE  Integrity' /\ CommandPart'
<1> USE DEF CommandPart, CommandTypeOK, command
<1>1. CASE current \in Invalid \/ issued.words = MaxId
  <2>1. UNCHANGED tables /\ reply' = "failed"
    BY <1>1 DEF Execute
  <2>2. UNCHANGED words /\ mine' = mine
    BY <2>1 DEF Execute, tables
  <2>3. Integrity'
    BY <2>1, TablesUnchanged
  <2>4. CommandPart'
    BY <2>1, <2>2 DEF Execute, Course, Ledger, Health, Inserted, pingVars
  <2> QED
    BY <2>3, <2>4
<1>2. CASE ~(current \in Invalid \/ issued.words = MaxId)
  <2>1. CreateWord(current) /\ reply' = "ok" /\ current \in Text
    BY <1>2 DEF Execute
  <2>2. Integrity'
    BY <2>1, CreateWordIntegrity
  <2>3. PICK r \in words' : words' = words \cup {r} /\ r \notin words /\ r.value = current
    BY <2>1, OneRow
  <2>4. mine' = mine \cup {r} /\ mine' \subseteq words'
    BY <2>3 DEF Execute
  <2>5. Inserted' = Inserted \cup {current}
    BY <2>3, <2>4 DEF Inserted
  <2>6. Inserted = acked /\ current \notin acked
    BY DEF Execute, Ledger
  <2>7. \A v, w \in mine' : v.value = w.value => v = w
    BY <2>3, <2>4, <2>6 DEF Inserted, Ledger
  <2>8. CommandTypeOK' /\ Course' /\ Health'
    BY <2>1, <2>4 DEF Execute, Course, Health, pingVars
  <2>9. Ledger'
    <3>1. UNCHANGED <<input, place, code, todo, current, acked>> /\ reply = "sent"
      BY DEF Execute
    <3>2. Inserted' = acked \cup {current}
      BY <2>5, <2>6
    <3> HIDE DEF Inserted
    <3> QED
      BY <2>1, <2>7, <3>1, <3>2 DEF Ledger
  <2> QED
    BY <2>2, <2>8, <2>9
<1> QED
  BY <1>1, <1>2

(* Steps of time, the network, the API server, and of the pings.           *)
LEMMA EnvironmentKeeps ==
  ASSUME CommandPart, PingPart, UNCHANGED tables,
         Late \/ Lose \/ Serve \/ PingEnvironment \/ Pinging \/ Analyzing \/ AnalyzeElsewhere
  PROVE  CommandPart'
<1> USE DEF CommandPart, CommandTypeOK, Course, Ledger, Health, Inserted,
            command, outside, pingVars, tables
<1>1. CASE Late
  BY <1>1 DEF Late
<1>2. CASE Lose
  BY <1>2 DEF Lose
<1>3. CASE Serve
  BY <1>3 DEF Serve
<1>4. CASE PingEnvironment
  BY <1>4 DEF PingEnvironment, Expire, Database
<1>5. CASE Pinging
  BY <1>5 DEF Pinging
<1>6. CASE Analyzing
  BY <1>6 DEF Analyzing
<1>7. CASE AnalyzeElsewhere
  BY <1>7 DEF AnalyzeElsewhere
<1> QED
  BY <1>1, <1>2, <1>3, <1>4, <1>5, <1>6, <1>7

(* Another process inserts a word: the rows of the command stay.           *)
LEMMA InsertElsewhereKeeps ==
  ASSUME Integrity, CommandPart, InsertElsewhere
  PROVE  Integrity' /\ CommandPart'
<1>1. PICK v \in Elsewhere : CreateWord(v)
  BY DEF InsertElsewhere
<1>2. v \in Text
  BY CommandsAssumption
<1>3. Integrity'
  BY <1>1, <1>2, CreateWordIntegrity
<1>4. words \subseteq words'
  BY <1>1 DEF CreateWord
<1>5. CommandPart'
  BY <1>4 DEF InsertElsewhere, CommandPart, CommandTypeOK, Course, Ledger, Health,
     Inserted, command, pingVars
<1> QED
  BY <1>3, <1>5

-------------------------------------------------------------------------------
LEMMA InitIInv == Init => IInv
<1> SUFFICES ASSUME Init PROVE IInv
  OBVIOUS
<1>1. Integrity
  BY InitIntegrity DEF Init
<1>2. PingPart
  <2>1. Effective \in Nat
    BY PingAssumption DEF Effective
  <2>2. tries \in 0 .. Effective + 1
    BY <2>1 DEF Init, PingInit
  <2> QED
    BY <2>2 DEF Init, PingInit, PingPart, PingTypeOK, PoolKnows
<1>3. AnalysisPart
  BY DEF Init, AnalysisInit, AnalysisPart, AnalysisTypeOK, AnalysesAreKept
<1>4. CommandPart
  <2>1. \/ input.kind = "healthz" /\ place = "asking"
        \/ input.kind = "analyze" /\ place = "analyzing"
        \/ input.kind \notin {"healthz", "analyze"} /\ place = "opening"
    BY DEF Init
  <2>2. /\ input \in Input /\ code = 0 /\ deadline = FALSE /\ conn = "none"
        /\ todo = {} /\ acked = {} /\ current = Blank /\ present = {}
        /\ server = "ok" /\ heard = "nothing" /\ reply = "none" /\ mine = {} /\ pool = "none"
    BY DEF Init, PingInit
  <2>3. CommandTypeOK
    <3>1. place \in Place /\ code \in 0 .. 2
      BY <2>1, <2>2 DEF Place
    <3>2. todo \subseteq Text /\ acked \subseteq Text /\ present \subseteq Text /\ mine \subseteq words
      BY <2>2
    <3>3. current \in Text /\ deadline \in BOOLEAN
      BY <2>2, StoreAssumption
    <3> QED
      BY <2>2, <3>1, <3>2, <3>3 DEF CommandTypeOK
  <2>4. Course /\ Health
    BY <2>1, <2>2 DEF Course, Health
  <2>5. Ledger
    BY <2>1, <2>2 DEF Ledger, Inserted
  <2> QED
    BY <2>3, <2>4, <2>5 DEF CommandPart
<1> QED
  BY <1>1, <1>2, <1>3, <1>4, Parts DEF AllParts

(* Every step of the command and of its surroundings keeps IInv.           *)
LEMMA NextParts == AllParts /\ [Next]_vars => AllParts'
<1> SUFFICES ASSUME AllParts, [Next]_vars PROVE AllParts'
  OBVIOUS
<1> USE DEF AllParts
<1>1. CASE Ask \/ OpenFails \/ PingReturns \/ Connect \/ ConnectFails \/ ReadInput
  <2>1. UNCHANGED <<pingVars, tables, analysisVars>>
    BY <1>1 DEF Ask, OpenFails, PingReturns, Connect, ConnectFails, ReadInput, outside
  <2> QED
    BY <1>1, <2>1, PrepareKeeps, PingUnchanged, AnalysisUnchanged, TablesUnchanged
<1>2. CASE OpenPool
  <2>1. UNCHANGED <<tables, analysisVars>>
    BY <1>2 DEF OpenPool
  <2>2. PingPart'
    BY <1>2 DEF OpenPool, CommandPart, Course, PingPart, PingTypeOK, PoolKnows
  <2> QED
    BY <1>2, <2>1, <2>2, PrepareKeeps, AnalysisUnchanged, TablesUnchanged
<1>3. CASE \/ \E w \in Text : Send(w)
           \/ SendFails \/ Receive \/ GiveUp \/ Finish \/ List \/ ListFails \/ AnalysisReturns
  <2>1. UNCHANGED <<pingVars, tables, analysisVars>>
    BY <1>3 DEF Send, SendFails, Receive, GiveUp, Finish, List, ListFails, AnalysisReturns,
                outside
  <2> QED
    BY <1>3, <2>1, WorkKeeps, PingUnchanged, AnalysisUnchanged, TablesUnchanged
<1>4. CASE Exit
  <2>1. UNCHANGED <<tables, analysisVars>>
    BY <1>4 DEF Exit
  <2>2. PingPart'
    BY <1>4 DEF Exit, PingPart, PingTypeOK, PoolKnows
  <2> QED
    BY <1>4, <2>1, <2>2, WorkKeeps, AnalysisUnchanged, TablesUnchanged
<1>5. CASE Pinging \/ PingEnvironment
  <2>1. UNCHANGED <<tables, analysisVars>>
    BY <1>5 DEF Pinging, PingEnvironment
  <2>2. PingPart'
    BY <1>5, PingKeeps DEF Pinging, PingEnvironment
  <2> QED
    BY <1>5, <2>1, <2>2, EnvironmentKeeps, AnalysisUnchanged, TablesUnchanged
<1>6. CASE Analyzing \/ AnalyzeElsewhere
  <2>1. UNCHANGED <<tables, pingVars>>
    BY <1>6 DEF Analyzing, AnalyzeElsewhere
  <2>2. AnalysisPart'
    BY <1>6, CommandsAssumption, AnalyzeKeeps DEF Analyzing, AnalyzeElsewhere
  <2> QED
    BY <1>6, <2>1, <2>2, EnvironmentKeeps, PingUnchanged, TablesUnchanged
<1>7. CASE Late \/ Lose \/ Serve
  <2>1. UNCHANGED <<pingVars, tables, analysisVars>>
    BY <1>7 DEF Late, Lose, Serve, outside
  <2> QED
    BY <1>7, <2>1, EnvironmentKeeps, PingUnchanged, AnalysisUnchanged, TablesUnchanged
<1>8. CASE Execute
  BY <1>8, ExecuteKeeps, PingUnchanged, AnalysisUnchanged DEF Execute
<1>9. CASE InsertElsewhere
  BY <1>9, InsertElsewhereKeeps, PingUnchanged, AnalysisUnchanged DEF InsertElsewhere
<1>10. CASE UNCHANGED vars
  <2>1. CommandPart'
    BY <1>10 DEF vars, command, outside, pingVars, tables, CommandPart, CommandTypeOK,
       Course, Ledger, Health, Inserted
  <2>2. UNCHANGED <<pingVars, tables, analysisVars>>
    BY <1>10 DEF vars, outside
  <2> QED
    BY <2>1, <2>2, PingUnchanged, AnalysisUnchanged, TablesUnchanged
<1> QED
  BY <1>1, <1>2, <1>3, <1>4, <1>5, <1>6, <1>7, <1>8, <1>9, <1>10 DEF Next, Command

(* IInv is an invariant of the commands.                                   *)
THEOREM CommandsInvariance == Spec => []IInv
<1>1. Init => AllParts
  BY InitIInv, Parts
<1>2. AllParts /\ [Next]_vars => AllParts'
  BY NextParts
<1>3. AllParts => IInv
  BY Parts
<1> QED
  BY <1>1, <1>2, <1>3, PTL DEF Spec

(* The variables of a command and the tables keep their types.             *)
THEOREM CommandsTypeCorrect == Spec => []TypeOK
<1>1. IInv => TypeOK
  BY DEF IInv
<1> QED
  BY <1>1, CommandsInvariance, PTL

(* A command that inserts and ends with exit code 0 has stored every word  *)
(* of its input once.                                                      *)
THEOREM ExitZeroHasStored == Spec => []ExitZeroStoresAll
<1>1. IInv => ExitZeroStoresAll
  BY DEF IInv, Ledger, ExitZeroStoresAll
<1> QED
  BY <1>1, CommandsInvariance, PTL

(* Whatever happens, the words logged are stored, and at most one more.    *)
THEOREM LogCanBeResumedFrom == Spec => []LogTellsAllButOne
<1>1. IInv => LogTellsAllButOne
  <2> SUFFICES ASSUME IInv PROVE LogTellsAllButOne
    OBVIOUS
  <2>1. reply \in {"none", "sent", "ok", "failed"} /\ Ledger
    BY DEF IInv, TypeOK
  <2>2. CASE reply = "none"
    BY <2>1, <2>2 DEF Ledger, LogTellsAllButOne, Inserted
  <2>3. CASE reply # "none"
    BY <2>1, <2>3 DEF Ledger, LogTellsAllButOne
  <2> QED
    BY <2>2, <2>3
<1> QED
  BY <1>1, CommandsInvariance, PTL

(* The counts of an analysis that has ended are in the file of its name or *)
(* were truncated by another one.                                          *)
THEOREM CommandsAnalysesKept == Spec => []AnalysesAreKept
<1>1. IInv => AnalysesAreKept
  BY DEF IInv
<1> QED
  BY <1>1, CommandsInvariance, PTL

(* A command and the processes beside it are an implementation of the      *)
(* database's specification: whatever holds of the tables under any        *)
(* statements holds under theirs.                                          *)
THEOREM CommandsImplementStore == Spec => StoreSpec
<1>1. Init => StoreInit
  BY DEF Init
<1>2. IInv /\ [Next]_vars => [StoreNext]_tables
  <2> SUFFICES ASSUME IInv, [Next]_vars PROVE [StoreNext]_tables
    OBVIOUS
  <2>1. current \in Text /\ Elsewhere \subseteq Text
    BY CommandsAssumption DEF IInv, TypeOK
  <2>2. CASE Execute
    BY <2>1, <2>2 DEF Execute, StoreNext
  <2>3. CASE InsertElsewhere
    BY <2>1, <2>3 DEF InsertElsewhere, StoreNext
  <2>4. CASE Command \/ Late \/ Lose \/ PingEnvironment \/ Serve \/ AnalyzeElsewhere
    BY <2>4 DEF Command, Ask, OpenPool, OpenFails, Pinging, PingReturns, Connect, ConnectFails,
       ReadInput, Send, SendFails, Receive, GiveUp, Finish, List, ListFails, Analyzing,
       AnalysisReturns, Exit, Late, Lose, PingEnvironment, Serve, AnalyzeElsewhere, outside
  <2>5. CASE UNCHANGED vars
    BY <2>5 DEF vars, outside
  <2> QED
    BY <2>2, <2>3, <2>4, <2>5 DEF Next
<1> QED
  BY <1>1, <1>2, CommandsInvariance, PTL DEF Spec, StoreSpec

-------------------------------------------------------------------------------
(* Listings while words are inserted. *)

(* Nothing removes a word. *)
LEMMA WordsGrow ==
  ASSUME [Next]_vars
  PROVE  words \subseteq words'
<1>1. CASE Execute
  <2>1. words' = words \/ CreateWord(current)
    BY <1>1 DEF Execute, tables
  <2> QED
    BY <2>1 DEF CreateWord
<1>2. CASE InsertElsewhere
  BY <1>2 DEF InsertElsewhere, CreateWord
<1>3. CASE ~Execute /\ ~InsertElsewhere
  <2>1. UNCHANGED words
    BY <1>3 DEF Next, Command, vars, outside, tables, Ask, OpenPool, OpenFails, Pinging,
       PingReturns, Connect, ConnectFails, ReadInput, Send, SendFails, Receive, GiveUp,
       Finish, List, ListFails, Analyzing, AnalysisReturns, Exit, Late, Lose,
       PingEnvironment, Serve, AnalyzeElsewhere
  <2> QED
    BY <2>1
<1> QED
  BY <1>1, <1>2, <1>3

(* A listing stays in full when words are inserted. *)
LEMMA InFullStays ==
  ASSUME InFull, Stored \subseteq Stored', UNCHANGED <<input, listed, present>>
  PROVE  InFull'
BY DEF InFull

(* The statements list in full. *)
LEMMA ListInFull ==
  ASSUME Integrity, input \in Input, present \subseteq Stored, input.kind \in Listing, List
  PROVE  InFull'
<1>1. UNCHANGED <<input, present, words>> /\ ~LimitErr
  BY DEF List, tables
<1>2. /\ input.arg \in Int \cup {None, NoNumber}
      /\ MaxInt32 \in Nat /\ CommandLimit \in Nat
      /\ None \notin Int /\ NoNumber \notin Int /\ None # NoNumber
  BY CommandsAssumption, ListingsAssumption
<1>3. IsInt32(Limit) /\ Limit \in Nat
  <2>1. IsInt32(Limit) /\ ~(Limit < 0)
    BY <1>1 DEF LimitErr
  <2>2. Limit \in Int
    BY <1>2, <2>1 DEF IsInt32
  <2> QED
    BY <2>1, <2>2
<1>4. Stored' = Stored
  BY <1>1 DEF Stored
<1>5. /\ listed' \in Seq(Stored)
      /\ input.kind # "list" => \A i, j \in DOMAIN listed' : listed'[i] = listed'[j] => i = j
      /\ Len(listed') = Limit \/ \A v \in Stored : \E i \in DOMAIN listed' : listed'[i] = v
  <2>1. CASE input.kind = "list"
    <3>1. listed' = ListWords(Limit, 0)
      BY <2>1 DEF List
    <3> QED
      BY <1>3, <2>1, <3>1, ListsAll
  <2>2. CASE input.kind = "rank"
    <3>1. listed' \in Grouped([v \in Stored |-> -Count(v)], Limit)
      BY <2>2 DEF List, ListWordRankings
    <3> QED
      BY <1>3, <3>1, GroupsAll
  <2>3. CASE input.kind = "frequency"
    <3>1. listed' \in Grouped([v \in Stored |-> Count(v)], Limit)
      BY <2>3 DEF List, ListWordFrequencies
    <3> QED
      BY <1>3, <3>1, GroupsAll
  <2> QED
    BY <2>1, <2>2, <2>3 DEF Listing
<1>6. \/ input.arg = NoNumber /\ input.kind # "list"
      \/ input.arg = None /\ Limit = IF input.kind = "list" THEN MaxInt32 ELSE CommandLimit
      \/ input.arg \in Int /\ Limit = Lesser(input.arg, MaxInt32)
  BY <1>2, <1>3 DEF Limit, ListArgument, Argument, IsInt32, Lesser
<1> HIDE DEF Limit
<1>7. \/ \A v \in present : \E i \in DOMAIN listed' : listed'[i] = v
      \/ input.arg = NoNumber /\ input.kind # "list"
      \/ input.arg = None /\ Len(listed') = IF input.kind = "list" THEN MaxInt32 ELSE CommandLimit
      \/ input.arg \in Int /\ Len(listed') = Lesser(input.arg, MaxInt32)
  BY <1>5, <1>6
<1> QED
  BY <1>1, <1>4, <1>5, <1>7 DEF InFull

(* Every step keeps Answer. *)
LEMMA AnswerKeeps ==
  ASSUME AllParts, AllParts', Answer, [Next]_vars
  PROVE  Answer'
<1>1. Stored \subseteq Stored'
  BY WordsGrow DEF Stored
<1>2. Integrity /\ input \in Input /\ Course
  BY DEF AllParts, CommandPart, CommandTypeOK
<1> USE DEF Answer
<1>3. CASE List
  <2>1. input.kind \in Listing
    BY <1>2, <1>3 DEF List, Course
  <2>2. InFull'
    BY <1>2, <1>3, <2>1, ListInFull
  <2> QED
    BY <1>1, <1>3, <2>2 DEF List
<1>4. CASE ReadInput
  <2>1. place' \in {"closing", "exited"} /\ code' = 0 => input'.kind \notin Listing
    BY <1>2, <1>4 DEF ReadInput, ReturnWith, Course, Listing
  <2> QED
    BY <1>1, <1>4, <2>1 DEF ReadInput, Stored
<1>5. CASE ~List /\ ~ReadInput
  <2>1. UNCHANGED <<input, listed, present>>
    BY <1>5 DEF Next, Command, vars, command, outside, Ask, OpenPool, OpenFails, Pinging,
       PingReturns, Connect, ConnectFails, Send, SendFails, Receive, GiveUp, Execute,
       Finish, ListFails, Analyzing, AnalysisReturns, Exit, Late, Lose, InsertElsewhere,
       PingEnvironment, Serve, AnalyzeElsewhere
  <2>2. place' \in {"closing", "exited"} /\ code' = 0 /\ input'.kind \in Listing =>
          place \in {"closing", "exited"} /\ code = 0
    BY <1>2, <1>5 DEF Course, Listing, ReturnWith, Next, Command, vars, command, outside,
       Ask, OpenPool, OpenFails, Pinging,
       PingReturns, Connect, ConnectFails, Send, SendFails, Receive, GiveUp, Execute,
       Finish, ListFails, Analyzing, AnalysisReturns, Exit, Late, Lose, InsertElsewhere,
       PingEnvironment, Serve, AnalyzeElsewhere
  <2>3. place' \in {"closing", "exited"} /\ code' = 0 /\ input'.kind \in Listing => InFull'
    BY <1>1, <2>1, <2>2, InFullStays
  <2> QED
    BY <1>1, <2>1, <2>3
<1> QED
  BY <1>3, <1>4, <1>5

(* A listing that ends with exit code 0 has left out only what it was      *)
(* asked to, while words were inserted before, during and after it.        *)
THEOREM ListingsLeaveOutNothing == Spec => []OmissionsAreAskedFor
<1>1. Init => AllParts /\ Answer
  <2>1. Init => Answer
    BY DEF Init, Answer, Stored
  <2> QED
    BY <2>1, InitIInv, Parts
<1>2. AllParts /\ Answer /\ [Next]_vars => (AllParts /\ Answer)'
  BY NextParts, AnswerKeeps
<1>3. Answer => OmissionsAreAskedFor
  BY DEF Answer, OmissionsAreAskedFor
<1> QED
  BY <1>1, <1>2, <1>3, PTL DEF Spec

-------------------------------------------------------------------------------
(* A client that reads page by page. *)

(* How many of the numbers o + 1 .. o + n are in b + 1 .. b + c. *)
Shared(b, c, o, n) ==
  LET first == Greater(b - o + 1, 1)
      last  == Lesser(n, b + c - o)
  IN  IF first > last THEN 0 ELSE last - first + 1

(* How many rows of a page have value v: those of the page among the       *)
(* Count(v) rows behind the first Before(v).                               *)
LEMMA RowsOfValue ==
  ASSUME Integrity, NEW l \in Nat, NEW o \in Nat, NEW v \in Text
  PROVE  LET rows  == ListWords(l, o)
             n     == Lesser(l, Greater(Rows - o, 0))
         IN  Cardinality({k \in DOMAIN rows : rows[k] = v})
               = Shared(Before(v), Count(v), o, n)
<1> DEFINE rows  == ListWords(l, o)
           n     == Lesser(l, Greater(Rows - o, 0))
           first == Greater(Before(v) - o + 1, 1)
           last  == Lesser(n, Before(v) + Count(v) - o)
           Read  == {k \in DOMAIN rows : rows[k] = v}
<1>1. n \in Nat /\ rows \in [1 .. n -> Stored]
  BY ListedRows
<1>2. \A k \in 1 .. n : rows[k] = v <=> Before(v) < o + k /\ o + k <= Before(v) + Count(v)
  BY ListedRows
<1>3. Before(v) \in Nat /\ Count(v) \in Nat
  BY CountsAreNumbers
<1> HIDE DEF rows, n
<1>4. first \in Int /\ last \in Int
  BY <1>1, <1>3 DEF Lesser, Greater
<1>5. Read = first .. last
  <2>1. \A k \in Int : k \in first .. last <=>
          k \in 1 .. n /\ Before(v) < o + k /\ o + k <= Before(v) + Count(v)
    BY <1>1, <1>3 DEF Lesser, Greater
  <2>2. \A k : k \in Read <=>
          k \in 1 .. n /\ Before(v) < o + k /\ o + k <= Before(v) + Count(v)
    BY <1>1, <1>2
  <2>3. \A k : k \in first .. last => k \in Int
    BY <1>4
  <2>4. \A k \in 1 .. n : k \in Int
    BY <1>1
  <2> HIDE DEF first, last, Read
  <2> QED
    BY <2>1, <2>2, <2>3, <2>4
<1> HIDE DEF first, last, Read
<1>6. Cardinality(Read) = IF first > last THEN 0 ELSE last - first + 1
  BY <1>4, <1>5, FS_Interval
<1> QED
  BY <1>6 DEF Shared, Read, first, last, rows, n

(* Of m rows of b + 1 .. b + c that are ahead of o, those that a page of n *)
(* rows leaves are ahead of o + n.                                         *)
LEMMA SharedLeaves ==
  ASSUME NEW b \in Nat, NEW c \in Nat, NEW o \in Nat, NEW n \in Nat
  PROVE  /\ Shared(b, c, o, n) \in Nat
         /\ \A m \in Nat :
              m - Shared(b, c, o, n) > 0 /\ m <= c /\ m <= b + c - o =>
                /\ m - Shared(b, c, o, n) <= c
                /\ m - Shared(b, c, o, n) <= b + c - (o + n)
BY DEF Shared, Lesser, Greater

(* A page: without a row only behind the last one, and what is missing     *)
(* then still lies behind the offset of the next page.                     *)
LEMMA PageKeeps ==
  ASSUME Integrity, PagingTypeOK, MissingIsAhead, Page
  PROVE  PagingTypeOK' /\ MissingIsAhead' /\ PageMissesNothing'
<1>1. UNCHANGED <<limit, words>> /\ client = "reading"
  BY DEF Page, vars, outside, tables
<1>2. Rows' = Rows /\ \A v \in Text : Count(v)' = Count(v) /\ Before(v)' = Before(v)
  BY <1>1 DEF Rows, Count, Before
<1>3. CASE ~ValidPage(limit, offset)
  BY <1>1, <1>3 DEF Page, PagingTypeOK, MissingIsAhead, PageMissesNothing
<1>4. CASE ValidPage(limit, offset)
  <2> DEFINE l == limitValue(limit)
             o == offsetValue(offset)
             rows == ListWords(l, o)
             n == Lesser(l, Greater(Rows - o, 0))
             Read(v) == Cardinality({k \in DOMAIN rows : rows[k] = v})
  <2>1. /\ offset \in Nat /\ MaxInt32 \in Nat
        /\ missing \in [Text -> Nat]
        /\ Rows \in Nat
    BY ListingsAssumption, CountsAreNumbers DEF PagingTypeOK
  <2>2. l \in Nat /\ l >= 1
    <3>1. limit = None \/ limit \in Nat \ {0}
      BY <1>4, ListingsAssumption, PagingAssumption DEF ValidPage, IsUint32, PagingTypeOK
    <3> QED
      BY <3>1, ListingsAssumption DEF limitValue
  <2>3. o \in Nat /\ o = IF offset > MaxInt32 THEN 0 ELSE offset
    BY <2>1, ListingsAssumption DEF offsetValue
  <2>4. /\ client' = IF rows = <<>> THEN "done" ELSE "reading"
        /\ offset' = offset + Len(rows)
        /\ missing' = [v \in Text |-> Greater(missing[v] - Read(v), 0)]
    BY <1>4 DEF Page
  <2>5. n \in Nat /\ Len(rows) = n /\ (rows = <<>> <=> n = 0)
    <3>1. n \in Nat /\ rows \in [1 .. n -> Stored]
      BY <2>2, <2>3, ListedRows
    <3> HIDE DEF n, rows
    <3>2. rows \in Seq(Stored) /\ Len(rows) = n
      BY <3>1
    <3> QED
      BY <3>1, <3>2
  <2>6. \A v \in Text : Read(v) = Shared(Before(v), Count(v), o, n)
    BY <2>2, <2>3, RowsOfValue
  <2>7. n = 0 <=> Rows <= o
    BY <2>1, <2>2, <2>3 DEF Lesser, Greater
  <2>8. n <= Greater(Rows - o, 0)
    BY <2>1, <2>2, <2>3 DEF Lesser, Greater
  <2> HIDE DEF l, o, rows, n, Read
  <2>9. ASSUME NEW v \in Text
        PROVE  /\ Before(v) \in Nat /\ Count(v) \in Nat /\ Before(v) + Count(v) <= Rows
               /\ Read(v) \in Nat
               /\ missing'[v] \in Nat
    <3>1. Before(v) \in Nat /\ Count(v) \in Nat /\ Before(v) + Count(v) <= Rows
      BY CountsAreNumbers, ValuesInRow
    <3>2. Read(v) \in Nat
      <4>1. Before(v) \in Nat /\ Count(v) \in Nat /\ o \in Nat /\ n \in Nat
        BY <2>3, <2>5, <3>1
      <4>2. Shared(Before(v), Count(v), o, n) \in Nat
        BY <4>1, SharedLeaves
      <4> QED
        BY <2>6, <4>2
    <3>3. missing'[v] \in Nat
      BY <2>1, <2>4, <3>2 DEF Greater
    <3> QED
      BY <3>1, <3>2, <3>3
  <2>10. PagingTypeOK'
    <3>1. missing' \in [Text -> Nat]
      BY <2>4, <2>9
    <3> QED
      BY <1>1, <2>1, <2>4, <2>5, <3>1 DEF PagingTypeOK
  <2>11. CASE offset <= MaxInt32
    <3>1. o = offset /\ offset <= Rows
      BY <1>1, <2>1, <2>3, <2>11 DEF MissingIsAhead
    <3>2. offset' = offset + n /\ offset' <= Rows
      BY <2>1, <2>4, <2>5, <2>8, <3>1 DEF Greater
    <3>3. ASSUME NEW v \in Text, missing'[v] # 0
          PROVE  missing'[v] <= Count(v) /\ missing'[v] <= Before(v) + Count(v) - offset'
      <4>1. missing[v] \in Nat /\ missing'[v] = missing[v] - Read(v) /\ missing[v] - Read(v) > 0
        BY <2>1, <2>4, <2>9, <3>3 DEF Greater
      <4>2. missing[v] <= Count(v) /\ missing[v] <= Before(v) + Count(v) - offset
        BY <1>1, <2>9, <2>11, <4>1 DEF MissingIsAhead
      <4>3. Read(v) = Shared(Before(v), Count(v), offset, n)
        BY <2>6, <3>1
      <4>4. Before(v) \in Nat /\ Count(v) \in Nat
        BY <2>9
      <4>5. missing'[v] <= Count(v) /\ missing'[v] <= Before(v) + Count(v) - (offset + n)
        <5>1. offset \in Nat /\ n \in Nat
          BY <2>1, <2>5
        <5>2. \A m \in Nat :
                m - Shared(Before(v), Count(v), offset, n) > 0
                /\ m <= Count(v) /\ m <= Before(v) + Count(v) - offset =>
                  /\ m - Shared(Before(v), Count(v), offset, n) <= Count(v)
                  /\ m - Shared(Before(v), Count(v), offset, n)
                       <= Before(v) + Count(v) - (offset + n)
          BY <4>4, <5>1, SharedLeaves
        <5> QED
          BY <4>1, <4>2, <4>3, <5>2
      <4> QED
        BY <3>2, <4>5
    <3>4. client' = "done" => \A v \in Text : missing'[v] = 0
      <4>1. SUFFICES ASSUME client' = "done", NEW v \in Text, missing'[v] # 0 PROVE FALSE
        OBVIOUS
      <4>2. Rows <= offset'
        BY <2>1, <2>4, <2>5, <2>7, <3>1, <3>2, <4>1
      <4>3. missing'[v] <= Before(v) + Count(v) - offset'
        BY <3>3, <4>1
      <4> QED
        BY <2>1, <2>5, <2>9, <3>2, <4>1, <4>2, <4>3
    <3>5. MissingIsAhead'
      <4>1. client' # "none" /\ offset' > MaxInt32 => Rows > 0
        BY <2>1, <2>5, <3>2
      <4> QED
        BY <1>2, <2>4, <3>2, <3>3, <4>1 DEF MissingIsAhead
    <3> QED
      BY <2>10, <3>4, <3>5 DEF PageMissesNothing
  <2>12. CASE offset > MaxInt32
    <3>1. o = 0 /\ Rows > 0
      BY <1>1, <2>1, <2>3, <2>12 DEF MissingIsAhead
    <3>2. client' = "reading" /\ offset' > MaxInt32
      BY <2>1, <2>4, <2>5, <2>7, <2>12, <3>1
    <3>3. ~(offset' <= MaxInt32)
      BY <2>1, <2>5, <2>4, <2>12
    <3> QED
      BY <1>2, <2>10, <3>1, <3>2, <3>3 DEF MissingIsAhead, PageMissesNothing
  <2> QED
    BY <2>1, <2>11, <2>12
<1> QED
  BY <1>3, <1>4

(* Rows that are inserted push what is missing further back.               *)
LEMMA PagingGrows ==
  ASSUME Integrity, Integrity', words \subseteq words', UNCHANGED pagingVars,
         PagingTypeOK, MissingIsAhead, PageMissesNothing
  PROVE  PagingTypeOK' /\ MissingIsAhead' /\ PageMissesNothing'
<1>1. UNCHANGED <<client, limit, offset, missing>>
  BY DEF pagingVars
<1>2. /\ Rows \in Nat /\ Rows' \in Nat /\ Rows <= Rows'
      /\ \A v \in Text :
           /\ Count(v) \in Nat /\ Count(v)' \in Nat /\ Count(v) <= Count(v)'
           /\ Before(v) \in Nat /\ Before(v)' \in Nat /\ Before(v) <= Before(v)'
  BY CountsAreNumbers, ListingsGrow
<1>3. offset \in Nat /\ missing \in [Text -> Nat] /\ MaxInt32 \in Nat
  BY ListingsAssumption DEF PagingTypeOK
<1>4. PagingTypeOK' /\ PageMissesNothing'
  BY <1>1 DEF PagingTypeOK, PageMissesNothing
<1>5. MissingIsAhead'
  <2>1. ASSUME client = "reading", offset <= MaxInt32
        PROVE  /\ offset <= Rows'
               /\ \A v \in Text : missing[v] # 0 =>
                    missing[v] <= Count(v)' /\ missing[v] <= Before(v)' + Count(v)' - offset
    <3>1. offset <= Rows /\ \A v \in Text : missing[v] # 0 =>
                    missing[v] <= Count(v) /\ missing[v] <= Before(v) + Count(v) - offset
      BY <2>1 DEF MissingIsAhead
    <3>2. offset <= Rows'
      BY <1>2, <1>3, <3>1
    <3>3. ASSUME NEW v \in Text, missing[v] # 0
          PROVE  missing[v] <= Count(v)' /\ missing[v] <= Before(v)' + Count(v)' - offset
      <4>1. missing[v] \in Nat /\ missing[v] <= Count(v)
            /\ missing[v] <= Before(v) + Count(v) - offset
        BY <1>3, <3>1, <3>3
      <4>2. /\ Count(v) \in Nat /\ Count(v)' \in Nat /\ Count(v) <= Count(v)'
            /\ Before(v) \in Nat /\ Before(v)' \in Nat /\ Before(v) <= Before(v)'
        BY <1>2
      <4> QED
        BY <1>3, <4>1, <4>2
    <3> QED
      BY <3>2, <3>3
  <2>2. client = "reading" /\ offset > MaxInt32 => Rows' > 0
    BY <1>2 DEF MissingIsAhead
  <2> QED
    BY <1>1, <2>1, <2>2 DEF MissingIsAhead
<1> QED
  BY <1>4, <1>5

PagingParts == AllParts /\ PagingTypeOK /\ MissingIsAhead /\ PageMissesNothing

LEMMA PagingInitParts == PagingInit => PagingParts
<1> SUFFICES ASSUME PagingInit PROVE PagingParts
  OBVIOUS
<1>1. AllParts
  BY InitIInv, Parts DEF PagingInit
<1> QED
  BY <1>1 DEF PagingInit, PagingParts, PagingTypeOK, MissingIsAhead, PageMissesNothing

LEMMA PagingNextParts ==
  PagingParts /\ [PagingNext]_<<vars, pagingVars>> => PagingParts'
<1> SUFFICES ASSUME PagingParts, [PagingNext]_<<vars, pagingVars>> PROVE PagingParts'
  OBVIOUS
<1> USE DEF PagingParts
<1>1. Integrity
  BY DEF AllParts
<1>2. CASE [Next]_vars /\ UNCHANGED pagingVars
  <2>1. AllParts' /\ Integrity'
    BY <1>2, NextParts DEF AllParts
  <2>2. words \subseteq words'
    BY <1>2, WordsGrow
  <2> QED
    BY <1>1, <1>2, <2>1, <2>2, PagingGrows
<1>3. CASE Begin
  <2>1. AllParts'
    BY <1>3, NextParts DEF Begin
  <2>2. UNCHANGED <<words, offset>> /\ offset = 0 /\ client' = "reading" /\ limit' \in Limits
        /\ missing' = [v \in Text |-> Count(v)]
    BY <1>3 DEF Begin, vars, outside, tables, MissingIsAhead
  <2>3. Rows' = Rows /\ \A v \in Text : Count(v)' = Count(v) /\ Before(v)' = Before(v)
    BY <2>2 DEF Rows, Count, Before
  <2>4. Rows \in Nat /\ \A v \in Text : Count(v) \in Nat /\ Before(v) \in Nat
    BY <1>1, CountsAreNumbers
  <2>5. PagingTypeOK'
    BY <2>2, <2>4 DEF PagingTypeOK
  <2>6. MissingIsAhead'
    <3>1. MaxInt32 \in Nat
      BY ListingsAssumption
    <3> QED
      BY <2>2, <2>3, <2>4, <3>1 DEF MissingIsAhead
  <2> QED
    BY <2>1, <2>2, <2>5, <2>6 DEF PageMissesNothing
<1>4. CASE Page
  <2>1. AllParts'
    BY <1>4, NextParts DEF Page
  <2> QED
    BY <1>1, <1>4, <2>1, PageKeeps
<1> QED
  BY <1>2, <1>3, <1>4 DEF PagingNext

(* A client takes no part in what the commands do: all that is proved of   *)
(* them holds with it beside them.                                         *)
THEOREM PagingImplementsCommands == PagingSpec => Spec
<1>1. PagingInit => Init
  BY DEF PagingInit
<1>2. [PagingNext]_<<vars, pagingVars>> => [Next]_vars
  BY DEF PagingNext, Begin, Page
<1> QED
  BY <1>1, <1>2, PTL DEF PagingSpec, Spec

(* PagingIInv is an invariant of the commands with a client beside them.   *)
THEOREM PagingInvariance == PagingSpec => []PagingIInv
<1>1. PagingParts => PagingIInv
  BY Parts DEF PagingParts, PagingIInv
<1> QED
  BY <1>1, PagingInitParts, PagingNextParts, PTL DEF PagingSpec

(* A client that comes to an empty page has missed no word that was stored *)
(* when it began, for any collation, limit and words inserted meanwhile.   *)
THEOREM PagingMissesNothing == PagingSpec => []PageMissesNothing
<1>1. PagingIInv => PageMissesNothing
  BY DEF PagingIInv
<1> QED
  BY <1>1, PagingInvariance, PTL
===============================================================================
