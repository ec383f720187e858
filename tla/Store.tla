-------------------------------- MODULE Store --------------------------------
(***************************************************************************)
(* The database of the program after all migrations, and the statements    *)
(* that internal/database sends to it.  No query is ever run in a          *)
(* transaction of its own making (Queries.WithTx is never called), so each *)
(* statement commits or fails as a whole, whichever process sends it.      *)
(*                                                                         *)
(* Rows are records.  created_at is left out, and so is deleted_at: no     *)
(* statement ever sets it.                                                 *)
(***************************************************************************)
EXTENDS Integers, Sequences

CONSTANTS
  Text,    \* the values of TEXT columns: words, phrases, batch names
  Blank,   \* the empty one
  Invalid, \* those PostgreSQL refuses as a parameter: a NUL, broken UTF-8
  Lists,   \* the lists of values that a batch statement may be given
  MaxId    \* where the BIGSERIAL sequences end (2^63 - 1 in PostgreSQL)

ASSUME StoreAssumption ==
  /\ Blank \in Text \ Invalid
  /\ Lists \subseteq Seq(Text)
  /\ MaxId \in Nat

VARIABLES
  words,         \* rows of words
  wordBatches,   \* rows of word_batches
  phrases,       \* rows of phrases
  phraseBatches, \* rows of phrase_batches
  issued         \* the last value of each table's id sequence

tables == <<words, wordBatches, phrases, phraseBatches, issued>>

NoBatch == 0   \* batch_id IS NULL

ItemRow  == [id : 1 .. MaxId, value : Text, batch : 0 .. MaxId]
BatchRow == [id : 1 .. MaxId, name : Text]

StoreTypeOK ==
  /\ words \subseteq ItemRow
  /\ wordBatches \subseteq BatchRow
  /\ phrases \subseteq ItemRow
  /\ phraseBatches \subseteq BatchRow
  /\ issued \in [words : 0 .. MaxId, wordBatches : 0 .. MaxId,
                 phrases : 0 .. MaxId, phraseBatches : 0 .. MaxId]

StoreInit ==
  /\ words = {} /\ wordBatches = {} /\ phrases = {} /\ phraseBatches = {}
  /\ issued = [words |-> 0, wordBatches |-> 0, phrases |-> 0, phraseBatches |-> 0]

-------------------------------------------------------------------------------
(* The rows of UNNEST(vs), with the ids that follow last, in batch b. *)
Unnested(vs, last, b) ==
  {[id |-> last + i, value |-> vs[i], batch |-> b] : i \in 1 .. Len(vs)}

(* Can the statement run at all: a refused parameter draws no id. *)
Sendable(n, vs) == n \notin Invalid /\ \A i \in 1 .. Len(vs) : vs[i] \notin Invalid

(* Bug: one id too many is drawn at the end of the sequence. *)
CreateWordPastEnd(v) ==
  /\ v \notin Invalid
  /\ issued.words <= MaxId
  /\ words' = words \cup Unnested(<<v>>, issued.words, NoBatch)
  /\ issued' = [issued EXCEPT !.words = @ + 1]
  /\ UNCHANGED <<wordBatches, phrases, phraseBatches>>

(* Bug: the id is computed as MAX(id) + 1 of another table. *)
CreateWordOtherSequence(v) ==
  /\ v \notin Invalid
  /\ issued.words < MaxId /\ issued.phrases < MaxId
  /\ words' = words \cup Unnested(<<v>>, issued.phrases, NoBatch)
  /\ issued' = [issued EXCEPT !.words = @ + 1]
  /\ UNCHANGED <<wordBatches, phrases, phraseBatches>>

(* INSERT INTO words (value): a duplicate or blank value is accepted, the  *)
(* unique constraint is gone since migration 2.                            *)
CreateWord(v) ==
  /\ v \notin Invalid
  /\ issued.words < MaxId
  /\ words' = words \cup Unnested(<<v>>, issued.words, NoBatch)
  /\ issued' = [issued EXCEPT !.words = @ + 1]
  /\ UNCHANGED <<wordBatches, phrases, phraseBatches>>

(* Bug: the words get the id of the first word for that of the batch. *)
CreateWordsBatchWrongId(n, vs) ==
  /\ Sendable(n, vs)
  /\ issued.wordBatches < MaxId /\ issued.words + Len(vs) <= MaxId
  /\ wordBatches' = wordBatches \cup {[id |-> issued.wordBatches + 1, name |-> n]}
  /\ words' = words \cup Unnested(vs, issued.words, issued.words + 1)
  /\ issued' = [issued EXCEPT !.wordBatches = @ + 1, !.words = @ + Len(vs)]
  /\ UNCHANGED <<phrases, phraseBatches>>

(* Bug: a batch of the same name is extended instead of a new one made. *)
CreateWordsBatchUpsert(n, vs) ==
  /\ Sendable(n, vs)
  /\ issued.wordBatches < MaxId /\ issued.words + Len(vs) <= MaxId
  /\ IF \E b \in wordBatches : b.name = n
     THEN /\ UNCHANGED wordBatches
          /\ \E b \in wordBatches :
               /\ b.name = n
               /\ words' = words \cup Unnested(vs, issued.words, b.id)
     ELSE /\ wordBatches' = wordBatches \cup {[id |-> issued.wordBatches + 1, name |-> n]}
          /\ words' = words \cup Unnested(vs, issued.words, issued.wordBatches + 1)
  /\ issued' = [issued EXCEPT !.wordBatches = @ + 1, !.words = @ + Len(vs)]
  /\ UNCHANGED <<phrases, phraseBatches>>

(* One statement inserts the batch and its words.  The batch is inserted   *)
(* for an empty list as well.  Batches may share a name.                   *)
CreateWordsBatch(n, vs) ==
  /\ Sendable(n, vs)
  /\ issued.wordBatches < MaxId /\ issued.words + Len(vs) <= MaxId
  /\ wordBatches' = wordBatches \cup {[id |-> issued.wordBatches + 1, name |-> n]}
  /\ words' = words \cup Unnested(vs, issued.words, issued.wordBatches + 1)
  /\ issued' = [issued EXCEPT !.wordBatches = @ + 1, !.words = @ + Len(vs)]
  /\ UNCHANGED <<phrases, phraseBatches>>

(* The CHECK constraints of migration 4: no name and no phrase is blank. *)
PhrasesFilled(n, vs) ==
  /\ n # Blank
  /\ \A i \in 1 .. Len(vs) : vs[i] # Blank

(* Bug: the unique name constraint of migration 5 is missing. *)
PhrasesAllowedTwice(n, vs) == PhrasesFilled(n, vs)

(* ... and the UNIQUE constraint of migration 5: the name is new. *)
PhrasesAllowed(n, vs) ==
  PhrasesFilled(n, vs) /\ \A b \in phraseBatches : b.name # n

InsertPhrases(n, vs) ==
  /\ phraseBatches' = phraseBatches \cup {[id |-> issued.phraseBatches + 1, name |-> n]}
  /\ phrases' = phrases \cup Unnested(vs, issued.phrases, issued.phraseBatches + 1)
  /\ issued' = [issued EXCEPT !.phraseBatches = @ + 1, !.phrases = @ + Len(vs)]

(* A violated constraint undoes the rows, but not the ids drawn before. *)
DrawPhraseIds(vs) ==
  /\ \E drawn \in 0 .. Len(vs) :
       issued' = [issued EXCEPT !.phraseBatches = @ + 1, !.phrases = @ + drawn]
  /\ UNCHANGED <<phraseBatches, phrases>>

(* One statement inserts the batch and its phrases, or nothing. *)
CreatePhrasesBatch(n, vs) ==
  /\ Sendable(n, vs)
  /\ issued.phraseBatches < MaxId /\ issued.phrases + Len(vs) <= MaxId
  /\ IF PhrasesAllowed(n, vs) THEN InsertPhrases(n, vs) ELSE DrawPhraseIds(vs)
  /\ UNCHANGED <<words, wordBatches>>

StoreNext ==
  \/ \E v \in Text : CreateWord(v)
  \/ \E n \in Text, vs \in Lists : CreateWordsBatch(n, vs)
  \/ \E n \in Text, vs \in Lists : CreatePhrasesBatch(n, vs)

StoreSpec == StoreInit /\ [][StoreNext]_tables

-------------------------------------------------------------------------------
(* The words of the batches named n: what "list words by batch name" is    *)
(* about.                                                                  *)
WordsOfBatch(n) ==
  {w \in words : \E b \in wordBatches : b.name = n /\ w.batch = b.id}

(* What the statement of that name joins: the id of a batch with the id of *)
(* a word.                                                                 *)
ListWordsByBatchName(n) ==
  {w \in words : \E b \in wordBatches : b.name = n /\ b.id = w.id}

-------------------------------------------------------------------------------
(* Ids identify: no two rows of a table share one, and none is beyond what *)
(* its sequence has issued, gaps of failed statements included.            *)
KeysUnique ==
  /\ \A r, s \in words : r.id = s.id => r = s
  /\ \A r, s \in wordBatches : r.id = s.id => r = s
  /\ \A r, s \in phrases : r.id = s.id => r = s
  /\ \A r, s \in phraseBatches : r.id = s.id => r = s
  /\ \A r \in words : r.id <= issued.words
  /\ \A r \in wordBatches : r.id <= issued.wordBatches
  /\ \A r \in phrases : r.id <= issued.phrases
  /\ \A r \in phraseBatches : r.id <= issued.phraseBatches

(* Every word or phrase that names a batch names a stored one: the CTEs    *)
(* give the rows the id of the batch row of the same statement.            *)
Referential ==
  /\ \A r \in words : r.batch # NoBatch => \E b \in wordBatches : b.id = r.batch
  /\ \A r \in phrases : \E b \in phraseBatches : b.id = r.batch

(* Phrase batches are found by name: a name never means two batches, and   *)
(* neither names nor phrases are blank.                                    *)
PhraseRules ==
  /\ \A a, b \in phraseBatches : a.name = b.name => a = b
  /\ \A b \in phraseBatches : b.name # Blank
  /\ \A r \in phrases : r.value # Blank

(* A batch is settled by the statement that creates it: no later statement *)
(* adds a row to it, changes or removes one.                               *)
Settled ==
  /\ \A b \in wordBatches :
       {r \in words' : r.batch = b.id} = {r \in words : r.batch = b.id}
  /\ \A b \in phraseBatches :
       {r \in phrases' : r.batch = b.id} = {r \in phrases : r.batch = b.id}
  /\ words \subseteq words' /\ phrases \subseteq phrases'

BatchesSettled == [][Settled]_tables

(* db_integration_test.go:213 "list_words_by_batch_name_returns_batch_ids_ *)
(* and_related_words": the statement returns the words of the batch.       *)
ListsRelatedWords ==
  \A n \in Text : ListWordsByBatchName(n) = WordsOfBatch(n)
===============================================================================
