----------------------------- MODULE StoreProofs -----------------------------
(***************************************************************************)
(* Proofs about the database for any texts, any lists and sequences of any *)
(* length: its types, keys, references and the rules of the phrase tables, *)
(* and that a batch never changes once it is stored.                       *)
(***************************************************************************)
EXTENDS Store, TLAPS

(* What holds on the way to the last schema as well; inductive by itself. *)
Soundness == StoreTypeOK /\ KeysUnique /\ Referential

(* All invariants of the tables; together they are inductive. *)
Integrity == StoreTypeOK /\ KeysUnique /\ Referential /\ PhraseRules

USE StoreAssumption DEF NoBatch

(* The rows of a list are rows of an item table: they keep the batch they  *)
(* are given, and their ids are those after last, one for each value.      *)
LEMMA UnnestedRows ==
  ASSUME NEW vs \in Seq(Text), NEW last \in 0 .. MaxId, NEW b \in 0 .. MaxId,
         last + Len(vs) <= MaxId
  PROVE  /\ Unnested(vs, last, b) \subseteq ItemRow
         /\ \A r \in Unnested(vs, last, b) :
              /\ r.id > last /\ r.id <= last + Len(vs)
              /\ r.batch = b
              /\ r.value = vs[r.id - last]
              /\ r.id - last \in 1 .. Len(vs)
         /\ \A r, s \in Unnested(vs, last, b) : r.id = s.id => r = s
<1>1. Len(vs) \in Nat
  OBVIOUS
<1>2. \A i \in 1 .. Len(vs) : vs[i] \in Text /\ last + i \in 1 .. MaxId
  BY <1>1
<1>3. Unnested(vs, last, b) \subseteq ItemRow
  BY <1>1, <1>2 DEF Unnested, ItemRow
<1>4. \A r \in Unnested(vs, last, b) :
        \E i \in 1 .. Len(vs) : r = [id |-> last + i, value |-> vs[i], batch |-> b]
  BY DEF Unnested
<1>5. ASSUME NEW r \in Unnested(vs, last, b)
      PROVE  /\ r.id > last /\ r.id <= last + Len(vs)
             /\ r.batch = b
             /\ r.value = vs[r.id - last]
             /\ r.id - last \in 1 .. Len(vs)
  <2>1. PICK i \in 1 .. Len(vs) : r = [id |-> last + i, value |-> vs[i], batch |-> b]
    BY <1>4
  <2>2. r.id = last + i /\ r.value = vs[i] /\ r.batch = b
    BY <2>1
  <2>3. r.id - last = i
    BY <1>1, <2>2
  <2> QED
    BY <1>1, <2>2, <2>3
<1>6. ASSUME NEW r \in Unnested(vs, last, b), NEW s \in Unnested(vs, last, b), r.id = s.id
      PROVE  r = s
  <2>1. PICK i \in 1 .. Len(vs) : r = [id |-> last + i, value |-> vs[i], batch |-> b]
    BY <1>4
  <2>2. PICK j \in 1 .. Len(vs) : s = [id |-> last + j, value |-> vs[j], batch |-> b]
    BY <1>4
  <2>3. i = j
    BY <1>1, <1>6, <2>1, <2>2
  <2> QED
    BY <2>1, <2>2, <2>3
<1> QED
  BY <1>3, <1>5, <1>6

(* The empty database is sound. *)
LEMMA InitIntegrity == StoreInit => Integrity
<1> SUFFICES ASSUME StoreInit PROVE Integrity
  OBVIOUS
<1> USE DEF StoreInit
<1>1. StoreTypeOK
  BY DEF StoreTypeOK
<1>2. KeysUnique /\ Referential /\ PhraseRules
  BY DEF KeysUnique, Referential, PhraseRules
<1> QED
  BY <1>1, <1>2 DEF Integrity

(* New rows whose ids the sequence has not issued yet keep a table's keys. *)
LEMMA FreshKeys ==
  ASSUME NEW T, NEW New, NEW last \in Nat,
         \A r \in T : r.id \in Nat /\ r.id <= last,
         \A r \in New : r.id \in Nat /\ r.id > last,
         \A r, s \in T : r.id = s.id => r = s,
         \A r, s \in New : r.id = s.id => r = s
  PROVE  \A r, s \in T \cup New : r.id = s.id => r = s
<1> SUFFICES ASSUME NEW r \in T \cup New, NEW s \in T \cup New, r.id = s.id
             PROVE  r = s
  OBVIOUS
<1>1. CASE r \in T /\ s \in New
  BY <1>1
<1>2. CASE r \in New /\ s \in T
  BY <1>2
<1> QED
  BY <1>1, <1>2

(* INSERT INTO words of one value. *)
LEMMA CreateWordSound ==
  ASSUME Soundness, NEW v \in Text, CreateWord(v)
  PROVE  Soundness'
<1> DEFINE New == Unnested(<<v>>, issued.words, NoBatch)
<1> USE DEF Soundness
<1>1. issued.words \in 0 .. MaxId /\ issued.words + 1 <= MaxId
  BY DEF StoreTypeOK, CreateWord
<1>2. <<v>> \in Seq(Text) /\ Len(<<v>>) = 1
  OBVIOUS
<1>3. /\ New \subseteq ItemRow
      /\ \A r \in New : r.id > issued.words /\ r.id <= issued.words + 1 /\ r.batch = NoBatch
      /\ \A r, s \in New : r.id = s.id => r = s
  <2>1. issued.words + Len(<<v>>) <= MaxId /\ NoBatch \in 0 .. MaxId
    BY <1>1, <1>2
  <2>2. /\ New \subseteq ItemRow
        /\ \A r \in New : r.id > issued.words /\ r.id <= issued.words + Len(<<v>>) /\ r.batch = NoBatch
        /\ \A r, s \in New : r.id = s.id => r = s
    BY <1>1, <1>2, <2>1, UnnestedRows
  <2> QED
    BY <1>2, <2>2
<1>4. /\ words' = words \cup New
      /\ issued' = [issued EXCEPT !.words = @ + 1]
      /\ UNCHANGED <<wordBatches, phrases, phraseBatches>>
  BY DEF CreateWord
<1> HIDE DEF New
<1>5. StoreTypeOK'
  BY <1>1, <1>3, <1>4 DEF StoreTypeOK
<1>6. KeysUnique'
  <2>1. \A r \in words : r.id \in Nat /\ r.id <= issued.words
    BY DEF StoreTypeOK, KeysUnique, ItemRow
  <2>2. \A r \in New : r.id \in Nat
    BY <1>3 DEF ItemRow
  <2>3. \A r, s \in words' : r.id = s.id => r = s
    BY <1>1, <1>3, <1>4, <2>1, <2>2, FreshKeys DEF KeysUnique
  <2>4. \A r \in words' : r.id <= issued'.words
    BY <1>1, <1>3, <1>4, <2>1, <2>2 DEF StoreTypeOK
  <2> QED
    BY <1>4, <2>3, <2>4 DEF KeysUnique, StoreTypeOK
<1>7. Referential'
  BY <1>3, <1>4 DEF Referential
<1> QED
  BY <1>5, <1>6, <1>7

LEMMA CreateWordIntegrity ==
  ASSUME Integrity, NEW v \in Text, CreateWord(v)
  PROVE  Integrity'
<1>1. Soundness'
  BY CreateWordSound DEF Integrity, Soundness
<1>2. PhraseRules'
  BY DEF Integrity, PhraseRules, CreateWord
<1> QED
  BY <1>1, <1>2 DEF Integrity, Soundness

(* The statement that inserts a batch of words. *)
LEMMA CreateWordsBatchSound ==
  ASSUME Soundness, NEW n \in Text, NEW vs \in Lists, CreateWordsBatch(n, vs)
  PROVE  Soundness'
<1> DEFINE b == issued.wordBatches + 1
           New == Unnested(vs, issued.words, b)
           Batch == [id |-> b, name |-> n]
<1> USE DEF Soundness
<1>1. /\ issued.words \in 0 .. MaxId /\ issued.words + Len(vs) <= MaxId
      /\ issued.wordBatches \in 0 .. MaxId /\ b \in 1 .. MaxId
      /\ vs \in Seq(Text) /\ Len(vs) \in Nat
  BY DEF StoreTypeOK, CreateWordsBatch
<1>2. /\ New \subseteq ItemRow
      /\ \A r \in New : r.id > issued.words /\ r.id <= issued.words + Len(vs) /\ r.batch = b
      /\ \A r, s \in New : r.id = s.id => r = s
  <2>1. b \in 0 .. MaxId
    BY <1>1
  <2> HIDE DEF b
  <2> QED
    BY <1>1, <2>1, UnnestedRows
<1>3. /\ words' = words \cup New
      /\ wordBatches' = wordBatches \cup {Batch}
      /\ issued' = [issued EXCEPT !.wordBatches = @ + 1, !.words = @ + Len(vs)]
      /\ UNCHANGED <<phrases, phraseBatches>>
  BY DEF CreateWordsBatch
<1> HIDE DEF New
<1>4. Batch \in BatchRow /\ Batch.id = issued.wordBatches + 1
  BY <1>1 DEF BatchRow
<1>5. /\ issued'.words = issued.words + Len(vs)
      /\ issued'.wordBatches = issued.wordBatches + 1
      /\ issued'.phrases = issued.phrases /\ issued'.phraseBatches = issued.phraseBatches
  BY <1>3 DEF StoreTypeOK
<1>6. StoreTypeOK'
  <2>1. /\ words' \subseteq ItemRow /\ wordBatches' \subseteq BatchRow
        /\ phrases' \subseteq ItemRow /\ phraseBatches' \subseteq BatchRow
    BY <1>2, <1>3, <1>4 DEF StoreTypeOK
  <2>2. issued.words + Len(vs) \in 0 .. MaxId /\ issued.wordBatches + 1 \in 0 .. MaxId
    BY <1>1
  <2>3. issued' \in [words : 0 .. MaxId, wordBatches : 0 .. MaxId,
                    phrases : 0 .. MaxId, phraseBatches : 0 .. MaxId]
    BY <1>3, <2>2 DEF StoreTypeOK
  <2> QED
    BY <2>1, <2>3 DEF StoreTypeOK
<1> HIDE DEF Batch
<1>7. KeysUnique'
  <2>1. \A r \in words : r.id \in Nat /\ r.id <= issued.words
    BY DEF StoreTypeOK, KeysUnique, ItemRow
  <2>2. \A r \in New : r.id \in Nat
    BY <1>2 DEF ItemRow
  <2>3. \A r, s \in words' : r.id = s.id => r = s
    BY <1>1, <1>2, <1>3, <2>1, <2>2, FreshKeys DEF KeysUnique
  <2>4. \A r \in words' : r.id <= issued'.words
    BY <1>1, <1>2, <1>3, <1>5, <2>1, <2>2
  <2>5. \A r \in wordBatches : r.id \in Nat /\ r.id <= issued.wordBatches
    BY DEF StoreTypeOK, KeysUnique, BatchRow
  <2>6. \A r, s \in wordBatches' : r.id = s.id => r = s
    BY <1>1, <1>3, <1>4, <2>5, FreshKeys DEF KeysUnique
  <2>7. \A r \in wordBatches' : r.id <= issued'.wordBatches
    BY <1>1, <1>3, <1>4, <1>5, <2>5
  <2> QED
    BY <1>3, <1>5, <2>3, <2>4, <2>6, <2>7 DEF KeysUnique
<1>8. Referential'
  BY <1>2, <1>3, <1>4 DEF Referential
<1> QED
  BY <1>6, <1>7, <1>8

LEMMA CreateWordsBatchIntegrity ==
  ASSUME Integrity, NEW n \in Text, NEW vs \in Lists, CreateWordsBatch(n, vs)
  PROVE  Integrity'
<1>1. Soundness'
  BY CreateWordsBatchSound DEF Integrity, Soundness
<1>2. PhraseRules'
  BY DEF Integrity, PhraseRules, CreateWordsBatch
<1> QED
  BY <1>1, <1>2 DEF Integrity, Soundness

(* The ids that a violated constraint leaves drawn. *)
LEMMA DrawPhraseIdsSound ==
  ASSUME Soundness, NEW vs \in Lists,
         issued.phraseBatches < MaxId, issued.phrases + Len(vs) <= MaxId,
         DrawPhraseIds(vs), UNCHANGED <<words, wordBatches>>
  PROVE  Soundness'
<1> USE DEF Soundness
<1>1. /\ issued.phrases \in 0 .. MaxId /\ issued.phraseBatches \in 0 .. MaxId
      /\ Len(vs) \in Nat
  BY DEF StoreTypeOK
<1>2. PICK drawn \in 0 .. Len(vs) :
        issued' = [issued EXCEPT !.phraseBatches = @ + 1, !.phrases = @ + drawn]
  BY DEF DrawPhraseIds
<1>3. UNCHANGED <<words, wordBatches, phrases, phraseBatches>>
  BY DEF DrawPhraseIds
<1>4. /\ issued'.words = issued.words /\ issued'.wordBatches = issued.wordBatches
      /\ issued'.phrases = issued.phrases + drawn
      /\ issued'.phraseBatches = issued.phraseBatches + 1
  BY <1>2 DEF StoreTypeOK
<1>5. StoreTypeOK'
  <2>1. issued.phrases + drawn \in 0 .. MaxId /\ issued.phraseBatches + 1 \in 0 .. MaxId
    BY <1>1
  <2>2. issued' \in [words : 0 .. MaxId, wordBatches : 0 .. MaxId,
                    phrases : 0 .. MaxId, phraseBatches : 0 .. MaxId]
    BY <1>2, <2>1 DEF StoreTypeOK
  <2> QED
    BY <1>3, <2>2 DEF StoreTypeOK
<1>6. KeysUnique'
  <2>1. \A r \in phrases : r.id \in Nat /\ r.id <= issued.phrases
    BY DEF StoreTypeOK, KeysUnique, ItemRow
  <2>2. \A r \in phraseBatches : r.id \in Nat /\ r.id <= issued.phraseBatches
    BY DEF StoreTypeOK, KeysUnique, BatchRow
  <2> QED
    BY <1>1, <1>3, <1>4, <2>1, <2>2 DEF KeysUnique
<1> QED
  BY <1>3, <1>5, <1>6 DEF Referential

(* The rows of a batch of phrases, and what the constraints say of them. *)
LEMMA InsertPhrasesSound ==
  ASSUME Soundness, NEW n \in Text, NEW vs \in Lists,
         issued.phraseBatches < MaxId, issued.phrases + Len(vs) <= MaxId,
         InsertPhrases(n, vs), UNCHANGED <<words, wordBatches>>
  PROVE  /\ Soundness'
         /\ \A b \in phraseBatches' : b \in phraseBatches \/ b.name = n
         /\ \A b, c \in phraseBatches' : b \notin phraseBatches /\ c \notin phraseBatches => b = c
         /\ \A r \in phrases' : r \in phrases \/ \E i \in 1 .. Len(vs) : r.value = vs[i]
<1> DEFINE b == issued.phraseBatches + 1
           New == Unnested(vs, issued.phrases, b)
           Batch == [id |-> b, name |-> n]
<1> USE DEF Soundness
<1>1. /\ issued.phrases \in 0 .. MaxId /\ issued.phrases + Len(vs) <= MaxId
      /\ issued.phraseBatches \in 0 .. MaxId /\ b \in 1 .. MaxId
      /\ vs \in Seq(Text) /\ Len(vs) \in Nat
  BY DEF StoreTypeOK
<1>2. \A r \in phrases : r.id \in Nat /\ r.id <= issued.phrases
  BY DEF StoreTypeOK, KeysUnique, ItemRow
<1>3. \A r \in phraseBatches : r.id \in Nat /\ r.id <= issued.phraseBatches
  BY DEF StoreTypeOK, KeysUnique, BatchRow
<1>4. /\ New \subseteq ItemRow
      /\ \A r \in New : /\ r.id > issued.phrases /\ r.id <= issued.phrases + Len(vs)
                        /\ r.batch = b
                        /\ \E i \in 1 .. Len(vs) : r.value = vs[i]
      /\ \A r, s \in New : r.id = s.id => r = s
  <2>1. b \in 0 .. MaxId
    BY <1>1
  <2> HIDE DEF b, New
  <2>2. /\ New \subseteq ItemRow
        /\ \A r \in New : /\ r.id > issued.phrases /\ r.id <= issued.phrases + Len(vs)
                          /\ r.batch = b
                          /\ r.value = vs[r.id - issued.phrases]
                          /\ r.id - issued.phrases \in 1 .. Len(vs)
        /\ \A r, s \in New : r.id = s.id => r = s
    BY <1>1, <2>1, UnnestedRows DEF New
  <2> QED
    BY <2>2
<1>5. /\ phrases' = phrases \cup New
      /\ phraseBatches' = phraseBatches \cup {Batch}
      /\ issued' = [issued EXCEPT !.phraseBatches = @ + 1, !.phrases = @ + Len(vs)]
      /\ UNCHANGED <<words, wordBatches>>
  BY DEF InsertPhrases
<1> HIDE DEF New
<1>6. Batch \in BatchRow /\ Batch.id = issued.phraseBatches + 1 /\ Batch.name = n
  BY <1>1 DEF BatchRow
<1>7. /\ issued'.words = issued.words /\ issued'.wordBatches = issued.wordBatches
      /\ issued'.phrases = issued.phrases + Len(vs)
      /\ issued'.phraseBatches = issued.phraseBatches + 1
  BY <1>5 DEF StoreTypeOK
<1>8. StoreTypeOK'
  <2>1. /\ words' \subseteq ItemRow /\ wordBatches' \subseteq BatchRow
        /\ phrases' \subseteq ItemRow /\ phraseBatches' \subseteq BatchRow
    BY <1>4, <1>5, <1>6 DEF StoreTypeOK
  <2>2. issued.phrases + Len(vs) \in 0 .. MaxId /\ issued.phraseBatches + 1 \in 0 .. MaxId
    BY <1>1
  <2>3. issued' \in [words : 0 .. MaxId, wordBatches : 0 .. MaxId,
                    phrases : 0 .. MaxId, phraseBatches : 0 .. MaxId]
    BY <1>5, <2>2 DEF StoreTypeOK
  <2> QED
    BY <2>1, <2>3 DEF StoreTypeOK
<1> HIDE DEF Batch
<1>9. KeysUnique'
  <2>1. \A r \in New : r.id \in Nat
    BY <1>4 DEF ItemRow
  <2>2. \A r, s \in phrases' : r.id = s.id => r = s
    BY <1>1, <1>2, <1>4, <1>5, <2>1, FreshKeys DEF KeysUnique
  <2>3. \A r \in phrases' : r.id <= issued'.phrases
    BY <1>1, <1>2, <1>4, <1>5, <1>7, <2>1
  <2>4. \A r, s \in phraseBatches' : r.id = s.id => r = s
    BY <1>1, <1>3, <1>5, <1>6, FreshKeys DEF KeysUnique
  <2>5. \A r \in phraseBatches' : r.id <= issued'.phraseBatches
    BY <1>1, <1>3, <1>5, <1>6, <1>7
  <2> QED
    BY <1>5, <1>7, <2>2, <2>3, <2>4, <2>5 DEF KeysUnique
<1>10. Referential'
  BY <1>4, <1>5, <1>6 DEF Referential
<1> QED
  BY <1>4, <1>5, <1>6, <1>8, <1>9, <1>10

(* The statement that inserts a batch of phrases, when the constraints     *)
(* allow it and when they do not.                                          *)
LEMMA CreatePhrasesBatchIntegrity ==
  ASSUME Integrity, NEW n \in Text, NEW vs \in Lists, CreatePhrasesBatch(n, vs)
  PROVE  Integrity'
<1>1. /\ Soundness /\ PhraseRules
      /\ issued.phraseBatches < MaxId /\ issued.phrases + Len(vs) <= MaxId
      /\ UNCHANGED <<words, wordBatches>>
  BY DEF Integrity, Soundness, CreatePhrasesBatch
<1>2. CASE ~PhrasesAllowed(n, vs)
  <2>1. DrawPhraseIds(vs)
    BY <1>2 DEF CreatePhrasesBatch
  <2>2. Soundness'
    BY <1>1, <2>1, DrawPhraseIdsSound
  <2>3. PhraseRules'
    BY <1>1, <2>1 DEF DrawPhraseIds, PhraseRules
  <2> QED
    BY <2>2, <2>3 DEF Integrity, Soundness
<1>3. CASE PhrasesAllowed(n, vs)
  <2>1. InsertPhrases(n, vs)
    BY <1>3 DEF CreatePhrasesBatch
  <2>2. /\ Soundness'
        /\ \A b \in phraseBatches' : b \in phraseBatches \/ b.name = n
        /\ \A b, c \in phraseBatches' : b \notin phraseBatches /\ c \notin phraseBatches => b = c
        /\ \A r \in phrases' : r \in phrases \/ \E i \in 1 .. Len(vs) : r.value = vs[i]
    BY <1>1, <2>1, InsertPhrasesSound
  <2>3. PhraseRules'
    BY <1>1, <1>3, <2>2 DEF PhraseRules, PhrasesAllowed, PhrasesFilled
  <2> QED
    BY <2>2, <2>3 DEF Integrity, Soundness
<1> QED
  BY <1>2, <1>3

(* Every statement keeps the database sound. *)
LEMMA NextIntegrity == Integrity /\ [StoreNext]_tables => Integrity'
<1> SUFFICES ASSUME Integrity, [StoreNext]_tables PROVE Integrity'
  OBVIOUS
<1>1. CASE UNCHANGED tables
  BY <1>1 DEF tables, Integrity, StoreTypeOK, KeysUnique, Referential, PhraseRules
<1> QED
  BY <1>1, CreateWordIntegrity, CreateWordsBatchIntegrity,
     CreatePhrasesBatchIntegrity DEF StoreNext

(* Integrity is an invariant of the database. *)
THEOREM StoreInvariance == StoreSpec => []Integrity
<1>1. StoreInit => Integrity
  BY InitIntegrity
<1>2. Integrity /\ [StoreNext]_tables => Integrity'
  BY NextIntegrity
<1> QED
  BY <1>1, <1>2, PTL DEF StoreSpec

(* The tables keep their types. *)
THEOREM StoreTypeCorrect == StoreSpec => []StoreTypeOK
<1>1. Integrity => StoreTypeOK
  BY DEF Integrity
<1> QED
  BY <1>1, StoreInvariance, PTL

(* Ids identify the rows of every table. *)
THEOREM StoreKeysUnique == StoreSpec => []KeysUnique
<1>1. Integrity => KeysUnique
  BY DEF Integrity
<1> QED
  BY <1>1, StoreInvariance, PTL

(* Every word or phrase of a batch has its batch. *)
THEOREM StoreReferential == StoreSpec => []Referential
<1>1. Integrity => Referential
  BY DEF Integrity
<1> QED
  BY <1>1, StoreInvariance, PTL

(* Names of phrase batches are unique, names and phrases not blank. *)
THEOREM StorePhraseRules == StoreSpec => []PhraseRules
<1>1. Integrity => PhraseRules
  BY DEF Integrity
<1> QED
  BY <1>1, StoreInvariance, PTL

(* The ids of stored batches are not NULL and have been issued before. *)
LEMMA StoredBatches ==
  ASSUME Soundness
  PROVE  /\ issued.wordBatches \in Nat /\ issued.phraseBatches \in Nat
         /\ \A b \in wordBatches : b.id \in Nat \ {0} /\ b.id <= issued.wordBatches
         /\ \A b \in phraseBatches : b.id \in Nat \ {0} /\ b.id <= issued.phraseBatches
BY DEF Soundness, StoreTypeOK, KeysUnique, BatchRow

(* A statement gives its rows no batch or a batch of its own. *)
LEMMA WordsSettled ==
  ASSUME Soundness,
         \/ \E v \in Text : CreateWord(v)
         \/ \E n \in Text, vs \in Lists : CreateWordsBatch(n, vs)
  PROVE  Settled
<1>1. ASSUME NEW v \in Text, CreateWord(v) PROVE Settled
  <2>1. \A r \in Unnested(<<v>>, issued.words, NoBatch) : r.batch = 0
    BY DEF Unnested
  <2>2. /\ words' = words \cup Unnested(<<v>>, issued.words, NoBatch)
        /\ UNCHANGED <<wordBatches, phrases, phraseBatches>>
    BY <1>1 DEF CreateWord
  <2> QED
    BY <2>1, <2>2, StoredBatches DEF Settled
<1>2. ASSUME NEW n \in Text, NEW vs \in Lists, CreateWordsBatch(n, vs) PROVE Settled
  <2> DEFINE New == Unnested(vs, issued.words, issued.wordBatches + 1)
  <2>1. \A r \in New : r.batch = issued.wordBatches + 1
    BY DEF Unnested
  <2>2. words' = words \cup New /\ UNCHANGED <<phrases, phraseBatches>>
    BY <1>2 DEF CreateWordsBatch
  <2> HIDE DEF New
  <2> QED
    BY <2>1, <2>2, StoredBatches DEF Settled
<1> QED
  BY <1>1, <1>2

LEMMA PhrasesSettled ==
  ASSUME Soundness, NEW n \in Text, NEW vs \in Lists,
         InsertPhrases(n, vs) \/ DrawPhraseIds(vs), UNCHANGED <<words, wordBatches>>
  PROVE  Settled
<1> DEFINE New == Unnested(vs, issued.phrases, issued.phraseBatches + 1)
<1>1. \A r \in New : r.batch = issued.phraseBatches + 1
  BY DEF Unnested
<1>2. phrases' = phrases \cup New \/ phrases' = phrases
  BY DEF InsertPhrases, DrawPhraseIds
<1> HIDE DEF New
<1> QED
  BY <1>1, <1>2, StoredBatches DEF Settled

LEMMA StepSettled == Integrity /\ StoreNext => Settled
<1> SUFFICES ASSUME Integrity, StoreNext PROVE Settled
  OBVIOUS
<1>1. Soundness
  BY DEF Integrity, Soundness
<1>2. ASSUME NEW n \in Text, NEW vs \in Lists, CreatePhrasesBatch(n, vs) PROVE Settled
  <2>1. InsertPhrases(n, vs) \/ DrawPhraseIds(vs)
    BY <1>2 DEF CreatePhrasesBatch
  <2>2. UNCHANGED <<words, wordBatches>>
    BY <1>2 DEF CreatePhrasesBatch
  <2> QED
    BY <1>1, <2>1, <2>2, PhrasesSettled
<1> QED
  BY <1>1, <1>2, WordsSettled DEF StoreNext

(* No statement changes the rows of a stored batch. *)
THEOREM StoreBatchesSettled == StoreSpec => BatchesSettled
<1>1. Integrity /\ [StoreNext]_tables => [Settled]_tables
  BY StepSettled
<1> QED
  BY <1>1, StoreInvariance, PTL DEF StoreSpec, BatchesSettled
==============================================================================
