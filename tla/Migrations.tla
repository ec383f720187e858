------------------------------ MODULE Migrations ------------------------------
(***************************************************************************)
(* The schema of the database from nothing to what Store assumes, through  *)
(* the files of db/migrations, while processes that do not wait for them   *)
(* (the words commands) send the statements of Store.                      *)
(*                                                                         *)
(* The files are run by golang-migrate, which is not part of the           *)
(* repository.  Before a file it records the version the file leads to as  *)
(* dirty, it sends the file as one query, so that PostgreSQL executes it   *)
(* as one transaction, and behind it records the version as clean.  A      *)
(* dirty version stops every later run, until an operator forces a         *)
(* version, which may not be the one the schema has.                       *)
(***************************************************************************)
EXTENDS Store

CONSTANT MaxForces   \* how often an operator forces a version

ASSUME MigrationsAssumption == MaxForces \in Nat

VARIABLES
  has,      \* what the schema has, see Feature
  version,  \* the recorded version, 0 for none
  dirty,    \* is it recorded as dirty
  migrator, \* the running migrate: "stopped", "up", or where it is in a file
  forces    \* how often a version has been forced

migrateVars    == <<has, version, dirty, migrator, forces>>
migrationsVars == <<migrateVars, tables>>

Feature == {"words", "unique values", "word_batches", "batch_id", "phrases",
            "unique names"}

(* What a schema of version v has. *)
Features(v) ==
  CASE v = 0 -> {}
    [] v = 1 -> {"words", "unique values"}
    [] v = 2 -> {"words"}
    [] v = 3 -> {"words", "word_batches", "batch_id"}
    [] v = 4 -> {"words", "word_batches", "batch_id", "phrases"}
    [] v = 5 -> {"words", "word_batches", "batch_id", "phrases", "unique names"}

MigrationsInit ==
  /\ StoreInit
  /\ has = {}
  /\ version = 0 /\ dirty = FALSE
  /\ migrator = "stopped"
  /\ forces = 0

DistinctValues == \A v, w \in words : v.value = w.value => v = w
DistinctNames  == \A a, b \in phraseBatches : a.name = b.name => a = b

-------------------------------------------------------------------------------
(* The files, up.  Each is guarded by what makes one of its statements     *)
(* fail, and with it the whole file; none touches a row.                   *)
Up1 == "words" \notin has /\ has' = has \cup {"words", "unique values"}

Up2 == "words" \in has /\ has' = has \ {"unique values"}

Up3 == /\ "words" \in has /\ "batch_id" \notin has
       /\ has' = has \cup {"word_batches", "batch_id"}

Up4 == "phrases" \notin has /\ has' = has \cup {"phrases"}

(* Bug: duplicates are tolerated, and the constraint with them is left out. *)
Up5IfItCan ==
  has' = IF "phrases" \in has /\ DistinctNames THEN has \cup {"unique names"} ELSE has

(* Bug: the constraint is added without looking at the rows there are. *)
Up5NotValid ==
  /\ "unique names" \notin has
  /\ has' = IF "phrases" \in has THEN has \cup {"unique names"} ELSE has

(* ALTER TABLE IF EXISTS: without the table it does nothing, and succeeds. *)
Up5 == IF "phrases" \in has
       THEN /\ "unique names" \notin has /\ DistinctNames
            /\ has' = has \cup {"unique names"}
       ELSE UNCHANGED has

(* Bug: where a name is taken twice, only the first batch is kept, and the *)
(* phrases of the others go with them (ON DELETE CASCADE).                 *)
UpWithoutDuplicates(v) ==
  LET First == {b \in phraseBatches : \A a \in phraseBatches : a.name = b.name => b.id <= a.id}
  IN  IF v = 5 /\ "phrases" \in has
      THEN /\ has' = has \cup {"unique names"}
           /\ phraseBatches' = First
           /\ phrases' = {r \in phrases : \E b \in First : b.id = r.batch}
           /\ UNCHANGED <<words, wordBatches, issued>>
      ELSE /\ (v = 1 /\ Up1) \/ (v = 2 /\ Up2) \/ (v = 3 /\ Up3) \/ (v = 4 /\ Up4) \/ (v = 5 /\ Up5)
           /\ UNCHANGED tables

Up(v) ==
  /\ (v = 1 /\ Up1) \/ (v = 2 /\ Up2) \/ (v = 3 /\ Up3) \/ (v = 4 /\ Up4) \/ (v = 5 /\ Up5)
  /\ UNCHANGED tables

(* The files, down.  A dropped table takes its rows and its sequence along. *)
Down1 ==
  /\ "words" \in has
  /\ has' = has \ {"words", "unique values", "batch_id"}
  /\ words' = {} /\ issued' = [issued EXCEPT !.words = 0]
  /\ UNCHANGED <<wordBatches, phrases, phraseBatches>>

Down2 ==
  /\ "words" \in has /\ "unique values" \notin has /\ DistinctValues
  /\ has' = has \cup {"unique values"}
  /\ UNCHANGED tables

(* Bug: the column stays, only the constraint and the table go. *)
Down3KeepingIds ==
  /\ "batch_id" \in has
  /\ has' = has \ {"word_batches", "batch_id"}
  /\ wordBatches' = {} /\ issued' = [issued EXCEPT !.wordBatches = 0]
  /\ UNCHANGED <<words, phrases, phraseBatches>>

Down3 ==
  /\ "batch_id" \in has
  /\ has' = has \ {"word_batches", "batch_id"}
  /\ words' = {[w EXCEPT !.batch = NoBatch] : w \in words}
  /\ wordBatches' = {} /\ issued' = [issued EXCEPT !.wordBatches = 0]
  /\ UNCHANGED <<phrases, phraseBatches>>

(* DROP TABLE IF EXISTS: it never fails. *)
Down4 ==
  /\ has' = has \ {"phrases", "unique names"}
  /\ phrases' = {} /\ phraseBatches' = {}
  /\ issued' = [issued EXCEPT !.phrases = 0, !.phraseBatches = 0]
  /\ UNCHANGED <<words, wordBatches>>

Down5 == has' = has \ {"unique names"} /\ UNCHANGED tables

Down(v) ==
  (v = 1 /\ Down1) \/ (v = 2 /\ Down2) \/ (v = 3 /\ Down3) \/ (v = 4 /\ Down4)
    \/ (v = 5 /\ Down5)

-------------------------------------------------------------------------------
(* migrate-entrypoint.sh: migrate up; nothing is done on a dirty version. *)
Start ==
  /\ migrator = "stopped" /\ ~dirty
  /\ migrator' = "up"
  /\ UNCHANGED <<has, version, dirty, forces, tables>>

MarkUp ==
  /\ migrator = "up" /\ version < 5
  /\ version' = version + 1 /\ dirty' = TRUE
  /\ migrator' = "upward"
  /\ UNCHANGED <<has, forces, tables>>

(* migrate down 1, by an operator. *)
MarkDown ==
  /\ migrator = "stopped" /\ ~dirty /\ version > 0
  /\ version' = version - 1 /\ dirty' = TRUE
  /\ migrator' = "downward"
  /\ UNCHANGED <<has, forces, tables>>

RunFile ==
  /\ \/ migrator = "upward" /\ Up(version)
     \/ migrator = "downward" /\ Down(version + 1)
  /\ migrator' = IF migrator = "upward" THEN "upped" ELSE "downed"
  /\ UNCHANGED <<version, dirty, forces>>

MarkClean ==
  /\ migrator \in {"upped", "downed"}
  /\ dirty' = FALSE
  /\ migrator' = IF migrator = "upped" THEN "up" ELSE "stopped"
  /\ UNCHANGED <<has, version, forces, tables>>

(* The last file is done, a statement fails, or the process dies: before   *)
(* its file has been committed, or behind it.                              *)
Stop ==
  /\ migrator # "stopped"
  /\ migrator' = "stopped"
  /\ UNCHANGED <<has, version, dirty, forces, tables>>

(* migrate force v, by an operator. *)
ForceVersion(v) ==
  /\ migrator = "stopped" /\ forces < MaxForces
  /\ version' = v /\ dirty' = FALSE
  /\ forces' = forces + 1
  /\ UNCHANGED <<has, migrator, tables>>

Migrate == Start \/ MarkUp \/ MarkDown \/ RunFile \/ MarkClean \/ Stop

-------------------------------------------------------------------------------
(* The statements of Store on whatever schema there is.  Without its       *)
(* tables a statement fails at once; a violated constraint undoes its      *)
(* rows, but not the ids it has drawn.                                     *)
ValuesAllowed(vs) ==
  "unique values" \in has =>
    \A i \in 1 .. Len(vs) : /\ \A j \in 1 .. Len(vs) : vs[i] = vs[j] => i = j
                            /\ \A w \in words : w.value # vs[i]

DrawWordIds(batches, vs) ==
  /\ issued.wordBatches + batches <= MaxId /\ issued.words + Len(vs) <= MaxId
  /\ \E drawn \in 0 .. Len(vs) :
       issued' = [issued EXCEPT !.wordBatches = @ + batches, !.words = @ + drawn]
  /\ UNCHANGED <<words, wordBatches, phrases, phraseBatches>>

CreateWordAt(v) ==
  /\ "words" \in has
  /\ IF ValuesAllowed(<<v>>) THEN CreateWord(v) ELSE DrawWordIds(0, <<v>>)

CreateWordsBatchAt(n, vs) ==
  /\ {"words", "word_batches", "batch_id"} \subseteq has
  /\ IF ValuesAllowed(vs) THEN CreateWordsBatch(n, vs)
                          ELSE Sendable(n, vs) /\ DrawWordIds(1, vs)

CreatePhrasesBatchAt(n, vs) ==
  /\ "phrases" \in has
  /\ IF "unique names" \in has
     THEN CreatePhrasesBatch(n, vs)
     ELSE /\ Sendable(n, vs)
          /\ issued.phraseBatches < MaxId /\ issued.phrases + Len(vs) <= MaxId
          /\ IF PhrasesFilled(n, vs) THEN InsertPhrases(n, vs) ELSE DrawPhraseIds(vs)
          /\ UNCHANGED <<words, wordBatches>>

Statement ==
  \/ \E v \in Text : CreateWordAt(v)
  \/ \E n \in Text, vs \in Lists :
       CreateWordsBatchAt(n, vs) \/ CreatePhrasesBatchAt(n, vs)

MigrationsNext ==
  \/ Migrate
  \/ \E v \in 0 .. 5 : ForceVersion(v)
  \/ Statement /\ UNCHANGED migrateVars

MigrationsSpec == MigrationsInit /\ [][MigrationsNext]_migrationsVars

-------------------------------------------------------------------------------
(* What the constraints of the schema promise holds for the rows stored    *)
(* before the constraint came as well: a file that cannot have it so       *)
(* fails, and leaves the version dirty.                                    *)
SchemaRules ==
  /\ "unique values" \in has => DistinctValues
  /\ "unique names" \in has => DistinctNames
  /\ \A b \in phraseBatches : b.name # Blank
  /\ \A r \in phrases : r.value # Blank
  /\ "batch_id" \notin has => \A w \in words : w.batch = NoBatch

(* A clean version tells the schema, however often the migrator has died   *)
(* in the middle of a file or a file has failed: until an operator forces  *)
(* a version.  So the API, which waits for a successful migrate up         *)
(* (docker-compose.yml:6-14), starts on the schema it needs.               *)
CleanTellsSchema ==
  forces = 0 =>
    /\ ~dirty => has = Features(version)
    /\ migrator = "upward" => has = Features(version - 1)
    /\ migrator = "downward" => has = Features(version + 1)
    /\ dirty => \E v \in {version - 1, version, version + 1} \cap (0 .. 5) :
                  has = Features(v)

(* Rows are only lost by a migration down, and by nothing else is a stored *)
(* batch changed: not by a migration up, which may fail, and not by a      *)
(* statement that meets a schema it was not written for.                   *)
OnlyDownLoses == [][migrator = "downward" \/ Settled]_migrationsVars

MigrationsTypeOK ==
  /\ has \subseteq Feature
  /\ version \in 0 .. 5
  /\ dirty \in BOOLEAN
  /\ migrator \in {"stopped", "up", "upward", "upped", "downward", "downed"}
  /\ forces \in 0 .. MaxForces

(* Behind them: where the migrator is tells whether the version is dirty   *)
(* and what the file has done, and a table that is not there has no rows.  *)
MigratorCourse ==
  /\ migrator = "up" => ~dirty
  /\ migrator \in {"upward", "upped"} => dirty /\ version >= 1
  /\ migrator \in {"downward", "downed"} => dirty /\ version <= 4
  /\ migrator \in {"upped", "downed"} /\ forces = 0 => has = Features(version)
  /\ "words" \notin has => words = {}

MigrationsIInv ==
  /\ StoreTypeOK /\ KeysUnique /\ Referential
  /\ MigrationsTypeOK /\ MigratorCourse
  /\ SchemaRules /\ CleanTellsSchema
===============================================================================
