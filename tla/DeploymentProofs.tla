--------------------------- MODULE DeploymentProofs ---------------------------
(***************************************************************************)
(* Proofs about the two processes that docker-compose starts one after the *)
(* other: the migrations, for any texts, lists, sequences and number of    *)
(* forced versions, while other processes send statements to whatever      *)
(* schema there is; and the life of the API process, for any number of     *)
(* retries and requests.  They share no variable: each has its inductive   *)
(* invariant, MigrationsIInv and IInv, and the properties that follow.     *)
(***************************************************************************)
EXTENDS Server, Migrations, StoreProofs

USE StoreAssumption DEF NoBatch

(* The migrations. *)

(* What the schemas of the versions have. *)
LEMMA FeaturesOf ==
  /\ Features(0) = {}
  /\ Features(1) = {"words", "unique values"}
  /\ Features(2) = {"words"}
  /\ Features(3) = {"words", "word_batches", "batch_id"}
  /\ Features(4) = {"words", "word_batches", "batch_id", "phrases"}
  /\ Features(5) = {"words", "word_batches", "batch_id", "phrases", "unique names"}
BY DEF Features

(* One file, by its version. *)
LEMMA UpCases ==
  ASSUME NEW v \in 1 .. 5, Up(v)
  PROVE  /\ UNCHANGED tables
         /\ \/ v = 1 /\ Up1
            \/ v = 2 /\ Up2
            \/ v = 3 /\ Up3
            \/ v = 4 /\ Up4
            \/ v = 5 /\ Up5
BY DEF Up

LEMMA DownCases ==
  ASSUME NEW v \in 1 .. 5, Down(v)
  PROVE  \/ v = 1 /\ Down1
         \/ v = 2 /\ Down2
         \/ v = 3 /\ Down3
         \/ v = 4 /\ Down4
         \/ v = 5 /\ Down5
BY DEF Down

(* A file leads from the schema of one version to that of the next, ...    *)
LEMMA UpLeads ==
  ASSUME NEW v \in 1 .. 5, Up(v), has = Features(v - 1)
  PROVE  has' = Features(v)
<1>1. CASE v = 1
  <2>1. Up1
    BY <1>1, UpCases
  <2>2. has = Features(0)
    BY <1>1
  <2> QED
    BY <1>1, <2>1, <2>2, FeaturesOf DEF Up1
<1>2. CASE v = 2
  <2>1. Up2
    BY <1>2, UpCases
  <2>2. has = Features(1)
    BY <1>2
  <2> QED
    BY <1>2, <2>1, <2>2, FeaturesOf DEF Up2
<1>3. CASE v = 3
  <2>1. Up3
    BY <1>3, UpCases
  <2>2. has = Features(2)
    BY <1>3
  <2> QED
    BY <1>3, <2>1, <2>2, FeaturesOf DEF Up3
<1>4. CASE v = 4
  <2>1. Up4
    BY <1>4, UpCases
  <2>2. has = Features(3)
    BY <1>4
  <2> QED
    BY <1>4, <2>1, <2>2, FeaturesOf DEF Up4
<1>5. CASE v = 5
  <2>1. Up5
    BY <1>5, UpCases
  <2>2. has = Features(4)
    BY <1>5
  <2> QED
    BY <1>5, <2>1, <2>2, FeaturesOf DEF Up5
<1> QED
  BY <1>1, <1>2, <1>3, <1>4, <1>5

(* ... and back. *)
LEMMA DownLeads ==
  ASSUME NEW v \in 1 .. 5, Down(v), has = Features(v)
  PROVE  has' = Features(v - 1)
<1>1. CASE v = 1
  <2>1. Down1
    BY <1>1, DownCases
  <2>2. has = Features(1) /\ v - 1 = 0
    BY <1>1
  <2>3. has' = Features(0)
    BY <2>1, <2>2, FeaturesOf DEF Down1
  <2> QED
    BY <2>2, <2>3
<1>2. CASE v = 2
  <2>1. Down2
    BY <1>2, DownCases
  <2>2. has = Features(2) /\ v - 1 = 1
    BY <1>2
  <2>3. has' = Features(1)
    BY <2>1, <2>2, FeaturesOf DEF Down2
  <2> QED
    BY <2>2, <2>3
<1>3. CASE v = 3
  <2>1. Down3
    BY <1>3, DownCases
  <2>2. has = Features(3) /\ v - 1 = 2
    BY <1>3
  <2>3. has' = Features(2)
    BY <2>1, <2>2, FeaturesOf DEF Down3
  <2> QED
    BY <2>2, <2>3
<1>4. CASE v = 4
  <2>1. Down4
    BY <1>4, DownCases
  <2>2. has = Features(4) /\ v - 1 = 3
    BY <1>4
  <2>3. has' = Features(3)
    BY <2>1, <2>2, FeaturesOf DEF Down4
  <2> QED
    BY <2>2, <2>3
<1>5. CASE v = 5
  <2>1. Down5
    BY <1>5, DownCases
  <2>2. has = Features(5) /\ v - 1 = 4
    BY <1>5
  <2>3. has' = Features(4)
    BY <2>1, <2>2, FeaturesOf DEF Down5
  <2> QED
    BY <2>2, <2>3
<1> QED
  BY <1>1, <1>2, <1>3, <1>4, <1>5

(* The parts of MigrationsIInv that are about the rows and the schema. *)
RowsPart ==
  /\ Soundness /\ SchemaRules
  /\ has \subseteq Feature
  /\ "words" \notin has => words = {}

(* A file up finds the rows it needs for its constraint, or fails. *)
LEMMA UpKeeps ==
  ASSUME RowsPart, NEW v \in 1 .. 5, Up(v)
  PROVE  RowsPart'
<1>1. UNCHANGED tables
  BY UpCases
<1>2. Soundness'
  BY <1>1 DEF RowsPart, Soundness, StoreTypeOK, KeysUnique, Referential, tables
<1> USE DEF RowsPart, SchemaRules, DistinctValues, DistinctNames, Feature, tables
<1>3. CASE Up1
  BY <1>1, <1>2, <1>3 DEF Up1
<1>4. CASE Up2
  BY <1>1, <1>2, <1>4 DEF Up2
<1>5. CASE Up3
  BY <1>1, <1>2, <1>5 DEF Up3
<1>6. CASE Up4
  BY <1>1, <1>2, <1>6 DEF Up4
<1>7. CASE Up5
  <2>1. CASE "phrases" \in has
    <3>1. DistinctNames /\ has' = has \cup {"unique names"}
      BY <1>7, <2>1 DEF Up5
    <3> QED
      BY <1>1, <1>2, <3>1
  <2>2. CASE "phrases" \notin has
    <3>1. has' = has
      BY <1>7, <2>2 DEF Up5
    <3> QED
      BY <1>1, <1>2, <3>1
  <2> QED
    BY <2>1, <2>2
<1> QED
  BY <1>3, <1>4, <1>5, <1>6, <1>7, UpCases

(* A file down takes the rows with their table, and the batches from the   *)
(* words with the column.                                                  *)
LEMMA DownKeeps ==
  ASSUME RowsPart, NEW v \in 1 .. 5, Down(v)
  PROVE  RowsPart'
<1> USE DEF RowsPart
<1>1. CASE Down1
  <2>1. /\ words' = {} /\ issued' = [issued EXCEPT !.words = 0]
        /\ UNCHANGED <<wordBatches, phrases, phraseBatches>>
        /\ has' = has \ {"words", "unique values", "batch_id"}
    BY <1>1 DEF Down1
  <2>2. Soundness'
    <3>1. issued' \in [words : 0 .. MaxId, wordBatches : 0 .. MaxId,
                      phrases : 0 .. MaxId, phraseBatches : 0 .. MaxId]
      <4>1. issued \in [words : 0 .. MaxId, wordBatches : 0 .. MaxId,
                        phrases : 0 .. MaxId, phraseBatches : 0 .. MaxId]
        BY DEF Soundness, StoreTypeOK
      <4>2. 0 \in 0 .. MaxId
        OBVIOUS
      <4> HIDE DEF RowsPart
      <4> QED
        BY <2>1, <4>1, <4>2
    <3>2. /\ issued'.wordBatches = issued.wordBatches /\ issued'.phrases = issued.phrases
          /\ issued'.phraseBatches = issued.phraseBatches
      BY <2>1 DEF Soundness, StoreTypeOK
    <3> QED
      BY <2>1, <3>1, <3>2 DEF Soundness, StoreTypeOK, KeysUnique, Referential
  <2>3. SchemaRules' /\ has' \subseteq Feature
    BY <2>1 DEF SchemaRules, DistinctNames, Feature
  <2> QED
    BY <2>1, <2>2, <2>3
<1>2. CASE Down2
  <2>1. UNCHANGED tables /\ has' = has \cup {"unique values"} /\ DistinctValues
    BY <1>2 DEF Down2
  <2>2. "words" \in has
    BY <1>2 DEF Down2
  <2>3. Soundness'
    BY <2>1 DEF Soundness, StoreTypeOK, KeysUnique, Referential, tables
  <2> QED
    BY <2>1, <2>2, <2>3 DEF SchemaRules, DistinctValues, DistinctNames, Feature, tables
<1>3. CASE Down3
  <2>1. /\ has' = has \ {"word_batches", "batch_id"}
        /\ words' = {[w EXCEPT !.batch = NoBatch] : w \in words}
        /\ wordBatches' = {} /\ issued' = [issued EXCEPT !.wordBatches = 0]
        /\ UNCHANGED <<phrases, phraseBatches>>
    BY <1>3 DEF Down3
  <2>2. words \subseteq ItemRow
    BY DEF Soundness, StoreTypeOK
  <2>3. ASSUME NEW r \in words'
        PROVE  /\ r \in ItemRow /\ r.batch = 0
               /\ \E w \in words : w.id = r.id /\ w.value = r.value
                                   /\ r = [id |-> w.id, value |-> w.value, batch |-> 0]
    <3>1. PICK w \in words : r = [w EXCEPT !.batch = 0]
      BY <2>1
    <3>2. w \in ItemRow
      BY <2>2
    <3>3. r = [id |-> w.id, value |-> w.value, batch |-> 0]
      BY <3>1, <3>2 DEF ItemRow
    <3>4. 0 \in 0 .. MaxId
      BY StoreAssumption
    <3> QED
      BY <3>2, <3>3, <3>4 DEF ItemRow
  <2>4. StoreTypeOK'
    <3>1. words' \subseteq ItemRow
      BY <2>3
    <3>2. issued' \in [words : 0 .. MaxId, wordBatches : 0 .. MaxId,
                      phrases : 0 .. MaxId, phraseBatches : 0 .. MaxId]
      BY <2>1 DEF Soundness, StoreTypeOK
    <3> QED
      BY <2>1, <3>1, <3>2 DEF Soundness, StoreTypeOK
  <2>5. KeysUnique'
    <3>1. /\ issued'.words = issued.words /\ issued'.phrases = issued.phrases
          /\ issued'.phraseBatches = issued.phraseBatches
      BY <2>1 DEF Soundness, StoreTypeOK
    <3>2. \A r, s \in words' : r.id = s.id => r = s
      BY <2>3 DEF Soundness, KeysUnique
    <3>3. \A r \in words' : r.id <= issued'.words
      BY <2>3, <3>1 DEF Soundness, KeysUnique
    <3> QED
      BY <2>1, <3>1, <3>2, <3>3 DEF Soundness, KeysUnique
  <2>6. Referential'
    BY <2>1, <2>3 DEF Soundness, Referential
  <2>7. SchemaRules'
    <3>1. DistinctValues => DistinctValues'
      BY <2>3 DEF DistinctValues
    <3>2. "unique values" \in has' <=> "unique values" \in has
      BY <2>1
    <3>3. "unique names" \in has' <=> "unique names" \in has
      BY <2>1
    <3>4. DistinctNames' <=> DistinctNames
      BY <2>1 DEF DistinctNames
    <3>5. \A w \in words' : w.batch = NoBatch
      BY <2>3
    <3> QED
      BY <2>1, <3>1, <3>2, <3>3, <3>4, <3>5 DEF SchemaRules
  <2>8. has' \subseteq Feature /\ ("words" \notin has' => words' = {})
    BY <2>1
  <2> QED
    BY <2>4, <2>5, <2>6, <2>7, <2>8 DEF Soundness
<1>4. CASE Down4
  <2>1. /\ has' = has \ {"phrases", "unique names"}
        /\ phrases' = {} /\ phraseBatches' = {}
        /\ issued' = [issued EXCEPT !.phrases = 0, !.phraseBatches = 0]
        /\ UNCHANGED <<words, wordBatches>>
    BY <1>4 DEF Down4
  <2>2. Soundness'
    <3>1. issued' \in [words : 0 .. MaxId, wordBatches : 0 .. MaxId,
                      phrases : 0 .. MaxId, phraseBatches : 0 .. MaxId]
      <4>1. issued \in [words : 0 .. MaxId, wordBatches : 0 .. MaxId,
                        phrases : 0 .. MaxId, phraseBatches : 0 .. MaxId]
        BY DEF Soundness, StoreTypeOK
      <4>2. 0 \in 0 .. MaxId
        OBVIOUS
      <4> HIDE DEF RowsPart
      <4> QED
        BY <2>1, <4>1, <4>2
    <3>2. /\ issued'.words = issued.words
          /\ issued'.wordBatches = issued.wordBatches
      BY <2>1 DEF Soundness, StoreTypeOK
    <3> QED
      BY <2>1, <3>1, <3>2 DEF Soundness, StoreTypeOK, KeysUnique, Referential
  <2> QED
    BY <2>1, <2>2 DEF SchemaRules, DistinctValues, DistinctNames, Feature
<1>5. CASE Down5
  <2>1. has' = has \ {"unique names"} /\ UNCHANGED tables
    BY <1>5 DEF Down5
  <2>2. Soundness'
    BY <2>1 DEF Soundness, StoreTypeOK, KeysUnique, Referential, tables
  <2> QED
    BY <2>1, <2>2 DEF SchemaRules, DistinctValues, DistinctNames, Feature, tables
<1> QED
  BY <1>1, <1>2, <1>3, <1>4, <1>5, DownCases

(* Ids of words and their batches that a violated constraint leaves drawn. *)
LEMMA DrawWordIdsSound ==
  ASSUME Soundness, NEW k \in {0, 1}, NEW vs \in Seq(Text), DrawWordIds(k, vs)
  PROVE  Soundness'
<1> USE DEF Soundness
<1>1. /\ issued.words \in 0 .. MaxId /\ issued.wordBatches \in 0 .. MaxId
      /\ Len(vs) \in Nat
      /\ issued.wordBatches + k <= MaxId /\ issued.words + Len(vs) <= MaxId
  BY DEF StoreTypeOK, DrawWordIds
<1>2. PICK drawn \in 0 .. Len(vs) :
        issued' = [issued EXCEPT !.wordBatches = @ + k, !.words = @ + drawn]
  BY DEF DrawWordIds
<1>3. UNCHANGED <<words, wordBatches, phrases, phraseBatches>>
  BY DEF DrawWordIds
<1>4. /\ issued'.words = issued.words + drawn /\ issued'.wordBatches = issued.wordBatches + k
      /\ issued'.phrases = issued.phrases
      /\ issued'.phraseBatches = issued.phraseBatches
  BY <1>2 DEF StoreTypeOK
<1>5. StoreTypeOK'
  <2>1. issued.words + drawn \in 0 .. MaxId /\ issued.wordBatches + k \in 0 .. MaxId
    BY <1>1
  <2>2. issued' \in [words : 0 .. MaxId, wordBatches : 0 .. MaxId,
                    phrases : 0 .. MaxId, phraseBatches : 0 .. MaxId]
    BY <1>2, <2>1 DEF StoreTypeOK
  <2> QED
    BY <1>3, <2>2 DEF StoreTypeOK
<1>6. KeysUnique'
  <2>1. \A r \in words : r.id \in Nat /\ r.id <= issued.words
    BY DEF StoreTypeOK, KeysUnique, ItemRow
  <2>2. \A r \in wordBatches : r.id \in Nat /\ r.id <= issued.wordBatches
    BY DEF StoreTypeOK, KeysUnique, BatchRow
  <2> QED
    BY <1>1, <1>3, <1>4, <2>1, <2>2 DEF KeysUnique
<1> QED
  BY <1>3, <1>5, <1>6 DEF Referential

(* Statements obey the rules of the schema they meet. *)
LEMMA WordStatementKeeps ==
  ASSUME RowsPart, UNCHANGED has,
         \/ \E v \in Text : CreateWordAt(v)
         \/ \E n \in Text, vs \in Lists : CreateWordsBatchAt(n, vs)
  PROVE  RowsPart' /\ Settled
<1>1. Soundness /\ SchemaRules /\ has \subseteq Feature
  BY DEF RowsPart
<1>2. ASSUME NEW k \in {0, 1}, NEW vs \in Seq(Text), DrawWordIds(k, vs), "words" \in has
      PROVE  RowsPart' /\ Settled
  <2>1. Soundness'
    BY <1>1, <1>2, DrawWordIdsSound
  <2>2. UNCHANGED <<words, wordBatches, phrases, phraseBatches>>
    BY <1>2 DEF DrawWordIds
  <2>3. Settled
    BY <2>2 DEF Settled
  <2> QED
    BY <1>1, <1>2, <2>1, <2>2, <2>3 DEF RowsPart, SchemaRules, DistinctValues, DistinctNames
<1>3. ASSUME NEW vs \in Seq(Text), NEW b \in 0 .. MaxId,
             words' = words \cup Unnested(vs, issued.words, b),
             issued.words + Len(vs) <= MaxId,
             ValuesAllowed(vs), "words" \in has,
             "batch_id" \in has \/ b = NoBatch,
             UNCHANGED <<phrases, phraseBatches>>
      PROVE  SchemaRules'
  <2> DEFINE New == Unnested(vs, issued.words, b)
  <2>1. issued.words \in 0 .. MaxId
    BY <1>1 DEF Soundness, StoreTypeOK
  <2>2. /\ \A r \in New : r.batch = b /\ r.value = vs[r.id - issued.words]
                          /\ r.id - issued.words \in 1 .. Len(vs) /\ r.id > issued.words
        /\ New \subseteq ItemRow
        /\ \A r, s \in New : r.id = s.id => r = s
    BY <1>3, <2>1, UnnestedRows
  <2> HIDE DEF New
  <2>3. words' = words \cup New
    BY <1>3 DEF New
  <2>4. "unique values" \in has => DistinctValues'
    <3> SUFFICES ASSUME "unique values" \in has PROVE DistinctValues'
      OBVIOUS
    <3>1. DistinctValues
      BY <1>1 DEF SchemaRules
    <3>2. \A i \in 1 .. Len(vs) : /\ \A j \in 1 .. Len(vs) : vs[i] = vs[j] => i = j
                                  /\ \A w \in words : w.value # vs[i]
      BY <1>3 DEF ValuesAllowed
    <3>3. \A r \in New : \E i \in 1 .. Len(vs) :
            r = [id |-> issued.words + i, value |-> vs[i], batch |-> b]
      BY DEF New, Unnested
    <3>4. ASSUME NEW r \in New, NEW s \in New, r.value = s.value PROVE r = s
      <4>1. PICK i \in 1 .. Len(vs) : r = [id |-> issued.words + i, value |-> vs[i], batch |-> b]
        BY <3>3
      <4>2. PICK j \in 1 .. Len(vs) : s = [id |-> issued.words + j, value |-> vs[j], batch |-> b]
        BY <3>3
      <4>3. vs[i] = vs[j]
        BY <3>4, <4>1, <4>2
      <4> QED
        BY <3>2, <4>1, <4>2, <4>3
    <3>5. ASSUME NEW r \in New, NEW w \in words PROVE r.value # w.value
      <4>1. PICK i \in 1 .. Len(vs) : r = [id |-> issued.words + i, value |-> vs[i], batch |-> b]
        BY <3>3
      <4>2. w.value # vs[i]
        BY <3>2
      <4> QED
        BY <4>1, <4>2
    <3> QED
      BY <2>3, <3>1, <3>4, <3>5 DEF DistinctValues
  <2>5. "batch_id" \notin has => \A w \in words' : w.batch = NoBatch
    BY <1>1, <1>3, <2>2, <2>3 DEF SchemaRules
  <2>6. "unique names" \in has => DistinctNames'
    BY <1>1, <1>3 DEF SchemaRules, DistinctNames
  <2> QED
    BY <1>1, <1>3, <2>4, <2>5, <2>6 DEF SchemaRules
<1>4. ASSUME NEW v \in Text, CreateWordAt(v) PROVE RowsPart' /\ Settled
  <2>1. <<v>> \in Seq(Text) /\ Len(<<v>>) = 1 /\ "words" \in has
    BY <1>4 DEF CreateWordAt
  <2>2. CASE ~ValuesAllowed(<<v>>)
    BY <1>2, <1>4, <2>1, <2>2 DEF CreateWordAt
  <2>3. CASE ValuesAllowed(<<v>>)
    <3>1. CreateWord(v)
      BY <1>4, <2>3 DEF CreateWordAt
    <3>2. Soundness' /\ Settled
      BY <1>1, <3>1, CreateWordSound, WordsSettled
    <3>3. /\ words' = words \cup Unnested(<<v>>, issued.words, NoBatch)
          /\ UNCHANGED <<phrases, phraseBatches>>
          /\ issued.words < MaxId
      BY <3>1 DEF CreateWord
    <3>4. NoBatch \in 0 .. MaxId /\ issued.words + Len(<<v>>) <= MaxId
      BY <1>1, <2>1, <3>3 DEF Soundness, StoreTypeOK
    <3>5. SchemaRules'
      BY <1>3, <2>1, <2>3, <3>3, <3>4
    <3> QED
      BY <1>1, <2>1, <3>2, <3>5 DEF RowsPart
  <2> QED
    BY <2>2, <2>3
<1>5. ASSUME NEW n \in Text, NEW vs \in Lists, CreateWordsBatchAt(n, vs)
      PROVE  RowsPart' /\ Settled
  <2>1. vs \in Seq(Text) /\ "words" \in has /\ "batch_id" \in has
    BY <1>5 DEF CreateWordsBatchAt
  <2>2. CASE ~ValuesAllowed(vs)
    BY <1>2, <1>5, <2>1, <2>2 DEF CreateWordsBatchAt
  <2>3. CASE ValuesAllowed(vs)
    <3>1. CreateWordsBatch(n, vs)
      BY <1>5, <2>3 DEF CreateWordsBatchAt
    <3>2. Soundness' /\ Settled
      BY <1>1, <3>1, CreateWordsBatchSound, WordsSettled
    <3> DEFINE b == issued.wordBatches + 1
    <3>3. /\ words' = words \cup Unnested(vs, issued.words, b)
          /\ UNCHANGED <<phrases, phraseBatches>>
          /\ issued.words + Len(vs) <= MaxId /\ issued.wordBatches < MaxId
      BY <3>1 DEF CreateWordsBatch
    <3>4. b \in 0 .. MaxId
      BY <1>1, <3>3 DEF Soundness, StoreTypeOK
    <3> HIDE DEF b
    <3>5. SchemaRules'
      BY <1>3, <2>1, <2>3, <3>3, <3>4
    <3> QED
      BY <1>1, <2>1, <3>2, <3>5 DEF RowsPart
  <2> QED
    BY <2>2, <2>3
<1> QED
  BY <1>4, <1>5

LEMMA PhraseStatementKeeps ==
  ASSUME RowsPart, UNCHANGED has, NEW n \in Text, NEW vs \in Lists,
         CreatePhrasesBatchAt(n, vs)
  PROVE  RowsPart' /\ Settled
<1>1. Soundness /\ SchemaRules /\ has \subseteq Feature
  BY DEF RowsPart
<1>2. /\ issued.phraseBatches < MaxId /\ issued.phrases + Len(vs) <= MaxId
      /\ UNCHANGED <<words, wordBatches>>
      /\ \/ DrawPhraseIds(vs)
         \/ /\ InsertPhrases(n, vs) /\ PhrasesFilled(n, vs)
            /\ "unique names" \in has => \A b \in phraseBatches : b.name # n
  BY DEF CreatePhrasesBatchAt, CreatePhrasesBatch, PhrasesAllowed
<1>3. Settled
  BY <1>1, <1>2, PhrasesSettled
<1>4. CASE DrawPhraseIds(vs)
  <2>1. Soundness'
    BY <1>1, <1>2, <1>4, DrawPhraseIdsSound
  <2>2. UNCHANGED <<phrases, phraseBatches>>
    BY <1>4 DEF DrawPhraseIds
  <2> QED
    BY <1>1, <1>2, <1>3, <2>1, <2>2 DEF RowsPart, SchemaRules, DistinctValues, DistinctNames
<1>5. CASE /\ InsertPhrases(n, vs) /\ PhrasesFilled(n, vs)
           /\ "unique names" \in has => \A b \in phraseBatches : b.name # n
  <2>1. /\ Soundness'
        /\ \A b \in phraseBatches' : b \in phraseBatches \/ b.name = n
        /\ \A b, c \in phraseBatches' : b \notin phraseBatches /\ c \notin phraseBatches => b = c
        /\ \A r \in phrases' : r \in phrases \/ \E i \in 1 .. Len(vs) : r.value = vs[i]
    BY <1>1, <1>2, <1>5, InsertPhrasesSound
  <2>2. n # Blank /\ \A i \in 1 .. Len(vs) : vs[i] # Blank
    BY <1>5 DEF PhrasesFilled
  <2>3. "unique names" \in has => DistinctNames'
    BY <1>1, <1>5, <2>1 DEF SchemaRules, DistinctNames
  <2>4. (\A b \in phraseBatches' : b.name # Blank) /\ (\A r \in phrases' : r.value # Blank)
    BY <1>1, <2>1, <2>2 DEF SchemaRules
  <2>5. SchemaRules'
    BY <1>1, <1>2, <2>3, <2>4 DEF SchemaRules, DistinctValues
  <2> QED
    BY <1>1, <1>2, <1>3, <2>1, <2>5 DEF RowsPart
<1> QED
  BY <1>2, <1>4, <1>5

(* The other part of it is about the migrator and the version. *)
MigratorPart ==
  /\ version \in 0 .. 5
  /\ dirty \in BOOLEAN
  /\ migrator \in {"stopped", "up", "upward", "upped", "downward", "downed"}
  /\ forces \in 0 .. MaxForces
  /\ migrator = "up" => ~dirty
  /\ migrator \in {"upward", "upped"} => dirty /\ version >= 1
  /\ migrator \in {"downward", "downed"} => dirty /\ version <= 4
  /\ migrator \in {"upped", "downed"} /\ forces = 0 => has = Features(version)
  /\ CleanTellsSchema

LEMMA MigrationParts == MigrationsIInv <=> RowsPart /\ MigratorPart
BY DEF MigrationsIInv, RowsPart, MigratorPart, MigrationsTypeOK, MigratorCourse, Soundness

LEMMA MigrationsInitParts == MigrationsInit => RowsPart /\ MigratorPart
<1> SUFFICES ASSUME MigrationsInit PROVE RowsPart /\ MigratorPart
  OBVIOUS
<1>1. Soundness
  BY InitIntegrity DEF MigrationsInit, Integrity, Soundness
<1>2. RowsPart
  BY <1>1 DEF MigrationsInit, StoreInit, RowsPart, SchemaRules, Feature
<1>3. CleanTellsSchema
  BY FeaturesOf DEF MigrationsInit, CleanTellsSchema
<1>4. MigratorPart
  <2>1. version = 0 /\ forces = 0 /\ dirty = FALSE /\ migrator = "stopped"
    BY DEF MigrationsInit
  <2>2. version \in 0 .. 5 /\ forces \in 0 .. MaxForces
    BY <2>1, MigrationsAssumption
  <2> QED
    BY <1>3, <2>1, <2>2 DEF MigratorPart
<1> QED
  BY <1>2, <1>4

(* The steps of the migrator but for the file itself, and of its operator. *)
LEMMA MigratorKeeps ==
  ASSUME MigratorPart, UNCHANGED has,
         Start \/ MarkUp \/ MarkDown \/ MarkClean \/ Stop \/ \E v \in 0 .. 5 : ForceVersion(v)
  PROVE  MigratorPart'
<1>1. CASE Start
  BY <1>1 DEF Start, MigratorPart, CleanTellsSchema
<1>2. CASE MarkUp
  <2>1. /\ migrator' = "upward" /\ dirty' = TRUE /\ UNCHANGED <<has, forces>>
        /\ version' \in 1 .. 5 /\ version' - 1 = version /\ version \in 0 .. 5
        /\ forces = 0 => has = Features(version)
    BY <1>2 DEF MarkUp, MigratorPart, CleanTellsSchema
  <2>2. CleanTellsSchema'
    BY <2>1 DEF CleanTellsSchema
  <2> QED
    BY <2>1, <2>2 DEF MigratorPart
<1>3. CASE MarkDown
  <2>1. /\ migrator' = "downward" /\ dirty' = TRUE /\ UNCHANGED <<has, forces>>
        /\ version' \in 0 .. 4 /\ version' + 1 = version /\ version \in 0 .. 5
        /\ forces = 0 => has = Features(version)
    BY <1>3 DEF MarkDown, MigratorPart, CleanTellsSchema
  <2>2. CleanTellsSchema'
    BY <2>1 DEF CleanTellsSchema
  <2> QED
    BY <2>1, <2>2 DEF MigratorPart
<1>4. CASE MarkClean
  BY <1>4 DEF MarkClean, MigratorPart, CleanTellsSchema
<1>5. CASE Stop
  BY <1>5 DEF Stop, MigratorPart, CleanTellsSchema
<1>6. ASSUME NEW v \in 0 .. 5, ForceVersion(v) PROVE MigratorPart'
  <2>1. /\ migrator = "stopped" /\ migrator' = "stopped" /\ dirty' = FALSE
        /\ version' \in 0 .. 5 /\ forces \in 0 .. MaxForces /\ forces < MaxForces
        /\ forces' = forces + 1
    BY <1>6 DEF ForceVersion, MigratorPart
  <2>2. forces' \in 0 .. MaxForces /\ forces' # 0
    BY <2>1, MigrationsAssumption
  <2> QED
    BY <2>1, <2>2 DEF MigratorPart, CleanTellsSchema
<1> QED
  BY <1>1, <1>2, <1>3, <1>4, <1>5, <1>6

LEMMA RunFileKeeps ==
  ASSUME RowsPart, MigratorPart, RunFile
  PROVE  RowsPart' /\ MigratorPart' /\ (migrator = "downward" \/ Settled)
<1> USE DEF MigratorPart, CleanTellsSchema
<1>1. UNCHANGED <<version, dirty, forces>>
  BY DEF RunFile
<1>2. CASE migrator = "upward"
  <2>1. version \in 1 .. 5 /\ Up(version) /\ migrator' = "upped"
    BY <1>2 DEF RunFile
  <2>2. RowsPart'
    BY <2>1, UpKeeps
  <2>3. forces = 0 => has' = Features(version)
    BY <1>2, <2>1, UpLeads
  <2>4. UNCHANGED tables
    BY <2>1, UpCases
  <2> QED
    BY <1>1, <1>2, <2>1, <2>2, <2>3, <2>4 DEF tables, Settled
<1>3. CASE migrator = "downward"
  <2>1. version + 1 \in 1 .. 5 /\ Down(version + 1) /\ migrator' = "downed"
    BY <1>3 DEF RunFile
  <2>2. RowsPart'
    BY <2>1, DownKeeps
  <2>3. forces = 0 => has' = Features(version)
    <3>1. forces = 0 => has' = Features((version + 1) - 1)
      BY <1>3, <2>1, DownLeads
    <3>2. (version + 1) - 1 = version
      OBVIOUS
    <3> QED
      BY <3>1, <3>2
  <2> QED
    BY <1>1, <1>3, <2>1, <2>2, <2>3
<1> QED
  BY <1>2, <1>3 DEF RunFile

LEMMA MigrationsNextParts ==
  ASSUME RowsPart, MigratorPart, [MigrationsNext]_migrationsVars
  PROVE  RowsPart' /\ MigratorPart' /\ (migrator = "downward" \/ Settled)
<1>1. CASE Start \/ MarkUp \/ MarkDown \/ MarkClean \/ Stop \/ \E v \in 0 .. 5 : ForceVersion(v)
  <2>1. UNCHANGED <<has, tables>>
    BY <1>1 DEF Start, MarkUp, MarkDown, MarkClean, Stop, ForceVersion
  <2>2. RowsPart' /\ Settled
    BY <2>1 DEF RowsPart, Soundness, StoreTypeOK, KeysUnique, Referential, SchemaRules,
       DistinctValues, DistinctNames, tables, Settled
  <2> QED
    BY <1>1, <2>1, <2>2, MigratorKeeps
<1>2. CASE RunFile
  BY <1>2, RunFileKeeps
<1>3. CASE Statement /\ UNCHANGED migrateVars
  <2>1. RowsPart' /\ Settled
    BY <1>3, WordStatementKeeps, PhraseStatementKeeps DEF Statement, migrateVars
  <2>2. MigratorPart'
    BY <1>3 DEF migrateVars, MigratorPart, CleanTellsSchema
  <2> QED
    BY <2>1, <2>2
<1>4. CASE UNCHANGED migrationsVars
  <2>1. UNCHANGED <<has, tables, migrateVars>>
    BY <1>4 DEF migrationsVars, migrateVars
  <2>2. RowsPart' /\ Settled
    BY <2>1 DEF RowsPart, Soundness, StoreTypeOK, KeysUnique, Referential, SchemaRules,
       DistinctValues, DistinctNames, tables, Settled
  <2>3. MigratorPart'
    BY <2>1 DEF migrateVars, MigratorPart, CleanTellsSchema
  <2> QED
    BY <2>2, <2>3
<1> QED
  BY <1>1, <1>2, <1>3, <1>4 DEF MigrationsNext, Migrate

(* MigrationsIInv is an invariant of the migrations and the statements.    *)
THEOREM MigrationsInvariance == MigrationsSpec => []MigrationsIInv
<1>1. RowsPart /\ MigratorPart /\ [MigrationsNext]_migrationsVars => (RowsPart /\ MigratorPart)'
  BY MigrationsNextParts
<1> QED
  BY <1>1, MigrationsInitParts, MigrationParts, PTL DEF MigrationsSpec

(* On whatever schema there is, ids identify the rows of every table.      *)
THEOREM MigrationsKeysUnique == MigrationsSpec => []KeysUnique
<1>1. MigrationsIInv => KeysUnique
  BY DEF MigrationsIInv
<1> QED
  BY <1>1, MigrationsInvariance, PTL

(* ... and every word or phrase of a batch has its batch.                  *)
THEOREM MigrationsReferential == MigrationsSpec => []Referential
<1>1. MigrationsIInv => Referential
  BY DEF MigrationsIInv
<1> QED
  BY <1>1, MigrationsInvariance, PTL

(* What the constraints of the schema promise holds for all rows.          *)
THEOREM RowsObeySchema == MigrationsSpec => []SchemaRules
<1>1. MigrationsIInv => SchemaRules
  BY DEF MigrationsIInv
<1> QED
  BY <1>1, MigrationsInvariance, PTL

(* A clean version tells the schema, until a version is forced.            *)
THEOREM CleanVersionTells == MigrationsSpec => []CleanTellsSchema
<1>1. MigrationsIInv => CleanTellsSchema
  BY DEF MigrationsIInv
<1> QED
  BY <1>1, MigrationsInvariance, PTL

(* Only a file down takes rows away or changes a batch.                    *)
THEOREM RowsOutliveMigrations == MigrationsSpec => OnlyDownLoses
<1>1. MigrationsIInv /\ [MigrationsNext]_migrationsVars
        => [migrator = "downward" \/ Settled]_migrationsVars
  BY MigrationParts, MigrationsNextParts
<1> QED
  BY <1>1, MigrationsInvariance, PTL DEF MigrationsSpec, OnlyDownLoses

(* On the schema of the last version the statements are those of Store.    *)
LEMMA LastSchemaStatements ==
  ASSUME has = Features(5)
  PROVE  Statement <=> StoreNext
<1>1. /\ {"words", "word_batches", "batch_id"} \subseteq has
      /\ "phrases" \in has /\ "unique names" \in has /\ "unique values" \notin has
  BY FeaturesOf
<1>2. \A vs : ValuesAllowed(vs)
  BY <1>1 DEF ValuesAllowed
<1>3. \A v : CreateWordAt(v) <=> CreateWord(v)
  BY <1>1, <1>2 DEF CreateWordAt
<1>4. \A n, vs : CreateWordsBatchAt(n, vs) <=> CreateWordsBatch(n, vs)
  BY <1>1, <1>2 DEF CreateWordsBatchAt
<1>5. \A n, vs : CreatePhrasesBatchAt(n, vs) <=> CreatePhrasesBatch(n, vs)
  BY <1>1 DEF CreatePhrasesBatchAt
<1> QED
  BY <1>3, <1>4, <1>5 DEF Statement, StoreNext

Migrated == forces = 0 /\ ~dirty /\ version = 5

(* When the migrations have succeeded, the database is what Store assumes: *)
(* its rows are sound, however many statements have met older schemas, ... *)
THEOREM MigratedIsSound == MigrationsSpec => [](Migrated => Integrity)
<1>1. MigrationsIInv => (Migrated => Integrity)
  <2> SUFFICES ASSUME MigrationsIInv, Migrated PROVE Integrity
    OBVIOUS
  <2>1. has = Features(5) /\ SchemaRules /\ StoreTypeOK /\ KeysUnique /\ Referential
    BY DEF MigrationsIInv, CleanTellsSchema, Migrated
  <2>2. "unique names" \in has
    BY <2>1, FeaturesOf
  <2>3. PhraseRules
    BY <2>1, <2>2 DEF SchemaRules, DistinctNames, PhraseRules
  <2> QED
    BY <2>1, <2>3 DEF Integrity
<1> QED
  BY <1>1, MigrationsInvariance, PTL

(* ... and its steps are steps of Store.                                   *)
THEOREM MigratedIsStore ==
  MigrationsSpec => [][Migrated /\ Migrated' => [StoreNext]_tables]_migrationsVars
<1>1. MigrationsIInv /\ [MigrationsNext]_migrationsVars
        => [Migrated /\ Migrated' => [StoreNext]_tables]_migrationsVars
  <2> SUFFICES ASSUME MigrationsIInv, MigrationsNext, Migrated, Migrated'
               PROVE  [StoreNext]_tables
    OBVIOUS
  <2>1. has = Features(5) /\ migrator \in {"stopped", "up"}
    BY DEF MigrationsIInv, CleanTellsSchema, Migrated, MigrationsTypeOK, MigratorCourse
  <2>2. CASE Statement
    BY <2>1, <2>2, LastSchemaStatements
  <2>3. CASE Migrate \/ \E v \in 0 .. 5 : ForceVersion(v)
    BY <2>1, <2>3 DEF Migrate, Start, MarkUp, MarkDown, RunFile, MarkClean, Stop, ForceVersion
  <2> QED
    BY <2>2, <2>3 DEF MigrationsNext
<1> QED
  BY <1>1, MigrationsInvariance, PTL DEF MigrationsSpec

-------------------------------------------------------------------------------
(* The API process. *)

USE PingAssumption DEF Effective

(* IInv holds when the process starts. *)
LEMMA InitIInv == Init => IInv
<1> SUFFICES ASSUME Init PROVE IInv
  OBVIOUS
<1>1. TypeOK
  <2>1. req \in [Request -> {"none", "active", "answered", "cut"}]
    BY DEF Init
  <2>2. tries \in 0 .. Effective + 1
    <3>1. Effective \in Nat
      OBVIOUS
    <3> QED
      BY <3>1 DEF Init, PingInit
  <2>3. PingTypeOK
    BY <2>2 DEF Init, PingInit, PingTypeOK
  <2> QED
    BY <2>1, <2>3 DEF Init, TypeOK, Place, Conn
<1>2. PoolKnows
  BY DEF Init, PingInit, PoolKnows
<1>3. Course /\ ServedAreBacked /\ CleanExitAnswersAll
  BY DEF Init, PingInit, Course, ServedAreBacked, CleanExitAnswersAll, Active
<1> QED
  BY <1>1, <1>2, <1>3 DEF IInv

(* The steps of retry.Ping keep what is known about tries and the pool. *)
LEMMA PingKeeps ==
  ASSUME PingTypeOK, PoolKnows, PingStep \/ Expire \/ Database
  PROVE  PingTypeOK' /\ PoolKnows'
<1> USE DEF PingTypeOK, PoolKnows
<1>1. CASE StartPing
  BY <1>1 DEF StartPing
<1>2. CASE CheckContext
  BY <1>2 DEF CheckContext
<1>3. CASE PingSucceeds
  BY <1>3 DEF PingSucceeds
<1>4. CASE PingFails
  BY <1>4 DEF PingFails, AfterFailure
<1>5. CASE Wake
  BY <1>5 DEF Wake
<1>6. CASE Expire
  BY <1>6 DEF Expire
<1>7. CASE Database
  BY <1>7 DEF Database
<1> QED
  BY <1>1, <1>2, <1>3, <1>4, <1>5, <1>6, <1>7 DEF PingStep

(* Every step of the process and its environment keeps IInv. *)
LEMMA NextIInv == IInv /\ [Next]_vars => IInv'
<1> SUFFICES ASSUME IInv, [Next]_vars PROVE IInv'
  OBVIOUS
<1> USE DEF IInv, TypeOK, Place, Conn, Course, ServedAreBacked, CleanExitAnswersAll,
            Active, Alive, startVars, pingVars, ReturnWith
<1> DEFINE PingPart == PingTypeOK /\ PoolKnows
<1>0. ASSUME UNCHANGED pingVars PROVE PingPart'
  BY <1>0 DEF PingTypeOK, PoolKnows
<1>1. CASE OpenPool
  BY <1>1 DEF OpenPool, PingTypeOK, PoolKnows
<1>2. CASE OpenFails
  BY <1>0, <1>2 DEF OpenFails
<1>3. CASE Pinging
  <2>1. PingPart'
    BY <1>3, PingKeeps DEF Pinging
  <2>2. pool' # "none" /\ (ping' = "ok" => pool' = "open")
    BY <1>3 DEF Pinging, PingStep, StartPing, CheckContext, PingSucceeds,
                PingFails, AfterFailure, Wake
  <2> QED
    BY <1>3, <2>1, <2>2 DEF Pinging
<1>4. CASE PingReturns
  BY <1>0, <1>4 DEF PingReturns, PoolKnows
<1>5. CASE Connect
  BY <1>0, <1>5 DEF Connect
<1>6. CASE ConnectFails
  BY <1>0, <1>6 DEF ConnectFails
<1>7. CASE StartListener
  BY <1>0, <1>7 DEF StartListener
<1>8. CASE Watch
  BY <1>0, <1>8 DEF Watch
<1>9. CASE Listen
  BY <1>0, <1>9 DEF Listen
<1>10. CASE ListenFails
  BY <1>0, <1>10 DEF ListenFails
<1>11. CASE Signal
  BY <1>0, <1>11 DEF Signal, CutAll
<1>12. CASE StopWaiting
  BY <1>0, <1>12 DEF StopWaiting
<1>13. CASE ReturnListenerError
  <2>1. PingPart'
    BY <1>0, <1>13 DEF ReturnListenerError
  <2>2. main' = "closing" /\ code' = 1 /\ watched' = FALSE /\ listener = "failed"
    BY <1>13 DEF ReturnListenerError
  <2>3. UNCHANGED <<listener, stopped, conn, req>>
    BY <1>13 DEF ReturnListenerError
  <2>4. TypeOK'
    BY <2>1, <2>2, <2>3
  <2>5. Course'
    <3>1. main' \notin {"opening", "pinging", "connecting", "starting",
                       "listening", "waiting", "stopping", "draining"}
      BY <2>2
    <3>2. main' \notin {"exited", "killed"} /\ main \notin {"exited", "killed"}
      BY <1>13, <2>2 DEF ReturnListenerError
    <3> QED
      BY <2>2, <2>3, <3>1, <3>2
  <2>6. ServedAreBacked' /\ CleanExitAnswersAll'
    BY <2>2
  <2> QED
    BY <2>1, <2>4, <2>5, <2>6
<1>14. CASE Shutdown
  BY <1>0, <1>14 DEF Shutdown
<1>15. CASE Drain
  BY <1>0, <1>15 DEF Drain
<1>16. CASE CloseConn
  BY <1>0, <1>16 DEF CloseConn
<1>17. CASE ClosePool
  BY <1>17 DEF ClosePool, PingTypeOK, PoolKnows
<1>18. CASE Exit
  BY <1>0, <1>18 DEF Exit, CutAll
<1>19. CASE Alive /\ (Expire \/ Database) /\ UNCHANGED <<startVars, req>>
  <2>1. PingPart'
    BY <1>19, PingKeeps
  <2>2. UNCHANGED <<ping, pool>>
    BY <1>19 DEF Expire, Database
  <2> QED
    BY <1>19, <2>1, <2>2
<1>20. ASSUME NEW r \in Request, Accept(r) PROVE IInv'
  BY <1>0, <1>20 DEF Accept
<1>21. ASSUME NEW r \in Request, Answer(r) PROVE IInv'
  BY <1>0, <1>21 DEF Answer
<1>22. CASE LoseConn
  BY <1>0, <1>22 DEF LoseConn
<1>23. CASE UNCHANGED vars
  BY <1>0, <1>23 DEF vars
<1> QED
  BY <1>1, <1>2, <1>3, <1>4, <1>5, <1>6, <1>7, <1>8, <1>9, <1>10, <1>11,
     <1>12, <1>13, <1>14, <1>15, <1>16, <1>17, <1>18, <1>19, <1>20, <1>21,
     <1>22, <1>23 DEF Next, Main, Environment

(* IInv is an invariant of the API process. *)
THEOREM ServerInvariance == Spec => []IInv
<1>1. Init => IInv
  BY InitIInv
<1>2. IInv /\ [Next]_vars => IInv'
  BY NextIInv
<1> QED
  BY <1>1, <1>2, PTL DEF Spec

(* Types; among them, that retry.Ping pings at most 1 + retries times.     *)
THEOREM ServerTypeCorrect == Spec => []TypeOK
<1>1. IInv => TypeOK
  BY DEF IInv
<1> QED
  BY <1>1, ServerInvariance, PTL

(* Until startCmd returns, it closes nothing under the handlers.           *)
THEOREM HandlersAreBacked == Spec => []ServedAreBacked
<1>1. IInv => ServedAreBacked
  BY DEF IInv
<1> QED
  BY <1>1, ServerInvariance, PTL

(* Exit code 0 means that every request that was accepted was answered.    *)
THEOREM CleanExits == Spec => []CleanExitAnswersAll
<1>1. IInv => CleanExitAnswersAll
  BY DEF IInv
<1> QED
  BY <1>1, ServerInvariance, PTL
===============================================================================
