------------------------------- MODULE Commands -------------------------------
(***************************************************************************)
(* The commands, each a process of its own, of which one is run: "words    *)
(* add" and "words add many" insert; "words", "words rank" and "words      *)
(* frequency" list; "healthz" asks the API server and may then try the     *)
(* database.  These ping the database and connect to it under a deadline   *)
(* of 15 (words: 10) seconds.  "words frequency analyze" is an Analysis.   *)
(* The words of a file are the keys of a map: each comes once, and in any  *)
(* order.  Other processes insert words meanwhile.                         *)
(***************************************************************************)
EXTENDS Listings, Ping, Analysis

CONSTANTS
  Input,     \* the commands: [kind, values to insert, argument]
  Elsewhere, \* the words other processes insert
  self       \* the process of the command, among those of Analysis

Listing == {"list", "rank", "frequency"}
Kind    == Listing \cup {"add", "absent", "null", "unreadable", \* the words to add
                        "healthz", "analyze"}

ASSUME CommandsAssumption ==
  /\ \A i \in Input : i.kind \in Kind /\ i.values \subseteq Text
                      /\ i.arg \in Int \cup {None, NoNumber}
  /\ Elsewhere \subseteq Text \ Invalid
  /\ self \in Process

VARIABLES
  input,    \* which command it is, with its input
  place,    \* where the command is
  code,     \* the exit code; 2 for a panic
  deadline, \* are the 15 seconds over
  conn,     \* its connection: "none", "open", "lost" or "closed"
  todo,     \* the words it has not sent yet
  current,  \* the word it has sent last
  acked,    \* the words it has logged as inserted
  listed,   \* the words it has listed
  present,  \* the words stored when it had connected
  server,   \* the API server is "ok", "sick" (not 200), "down" or "hung"
  heard,    \* its answer: "nothing" or one of these
  reply,    \* of the last statement sent: "none", "sent", "ok" or "failed"
  mine      \* the rows it has inserted

command == <<input, place, code, deadline, conn, todo, current, acked>>
outside == <<listed, present, server, heard, reply, mine, pingVars, tables,
             analysisVars>>
vars    == <<command, outside>>

Place == {"asking", "analyzing", "opening", "pinging", "connecting", "reading", "looping",
          "inserting", "listing", "closing", "exited"}

TypeOK ==
  /\ StoreTypeOK /\ PingTypeOK /\ AnalysisTypeOK
  /\ input \in Input
  /\ place \in Place
  /\ code \in 0 .. 2
  /\ deadline \in BOOLEAN
  /\ conn \in {"none", "open", "lost", "closed"}
  /\ todo \subseteq Text /\ acked \subseteq Text
  /\ current \in Text
  /\ present \subseteq Text
  /\ server \in {"ok", "sick", "down", "hung"}
  /\ heard \in {"nothing", "ok", "sick", "down"}
  /\ reply \in {"none", "sent", "ok", "failed"}
  /\ mine \subseteq words

Init ==
  /\ StoreInit /\ PingInit /\ AnalysisInit
  /\ input \in Input
  /\ place = CASE input.kind = "healthz" -> "asking"
               [] input.kind = "analyze" -> "analyzing"
               [] OTHER                  -> "opening"
  /\ code = 0
  /\ deadline = FALSE
  /\ conn = "none"
  /\ todo = {} /\ acked = {}
  /\ current = Blank
  /\ listed = <<>> /\ present = {}
  /\ server = "ok" /\ heard = "nothing"
  /\ reply = "none" /\ mine = {}

(* The command returns or panics: its deferred calls run. *)
ReturnWith(c) == place' = "closing" /\ code' = c

-------------------------------------------------------------------------------
(* healthz: GET /api/v1/healthz, by a client without timeout.  An answer   *)
(* other than 200 is logged, and the database tried.                       *)
Ask ==
  /\ place = "asking" /\ server # "hung"
  /\ heard' = server
  /\ CASE server = "ok"   -> ReturnWith(0)
       [] server = "down" -> ReturnWith(1)
       [] OTHER           -> place' = "opening" /\ UNCHANGED code
  /\ UNCHANGED <<input, deadline, conn, todo, current, acked, listed, present,
                 server, reply, mine, pingVars, tables, analysisVars>>

OpenPool ==
  /\ place = "opening"
  /\ place' = "pinging"
  /\ pool' = "open"
  /\ UNCHANGED <<input, code, deadline, conn, todo, current, acked, listed, present,
                 server, heard, reply, mine, ping, tries, late, db, tables, analysisVars>>

(* The configuration is missing or incomplete. *)
OpenFails ==
  /\ place \in {"opening", "asking"}
  /\ ReturnWith(1)
  /\ UNCHANGED <<input, deadline, conn, todo, current, acked, outside>>

Pinging ==
  /\ place = "pinging" /\ PingStep
  /\ UNCHANGED <<command, listed, present, server, heard, reply, mine, tables, analysisVars>>

PingReturns ==
  /\ place = "pinging"
  /\ \/ ping = "ok" /\ place' = "connecting" /\ UNCHANGED code
     \/ ping = "failed" /\ ReturnWith(1)
  /\ UNCHANGED <<input, deadline, conn, todo, current, acked, outside>>

Connect ==
  /\ place = "connecting" /\ db = "up" /\ ~deadline
  /\ place' = "reading"
  /\ conn' = "open"
  /\ UNCHANGED <<input, code, deadline, todo, current, acked, outside>>

ConnectFails ==
  /\ place = "connecting" /\ (db = "down" \/ deadline)
  /\ ReturnWith(1)
  /\ UNCHANGED <<input, deadline, conn, todo, current, acked, outside>>

(* A missing argument, and JSON that is null, are only noticed by a panic; *)
(* a file of another kind has no words.  healthz has seen enough.          *)
ReadInput ==
  /\ place = "reading"
  /\ CASE input.kind = "add"        -> place' = "looping" /\ UNCHANGED code
       [] input.kind \in Listing    -> place' = "listing" /\ UNCHANGED code
       [] input.kind = "healthz"    -> ReturnWith(0)
       [] input.kind = "unreadable" -> ReturnWith(1)
       [] OTHER                     -> ReturnWith(2)
  /\ todo' = IF input.kind = "add" THEN input.values ELSE {}
  /\ present' = Stored
  /\ UNCHANGED <<input, deadline, conn, current, acked, listed, server, heard, reply,
                 mine, pingVars, tables, analysisVars>>

-------------------------------------------------------------------------------
(* CreateWord for the next key of the map. *)
Send(w) ==
  /\ place = "looping" /\ w \in todo
  /\ conn = "open" /\ ~deadline
  /\ place' = "inserting"
  /\ todo' = todo \ {w}
  /\ current' = w
  /\ reply' = "sent"
  /\ UNCHANGED <<input, code, deadline, conn, acked, listed, present, server, heard,
                 mine, pingVars, tables, analysisVars>>

(* ... on a lost connection, or too late: nothing is sent. *)
SendFails ==
  /\ place = "looping" /\ todo # {}
  /\ conn = "lost" \/ deadline
  /\ ReturnWith(1)
  /\ UNCHANGED <<input, deadline, conn, todo, current, acked, outside>>

(* PostgreSQL executes the statement, perhaps after the command has given  *)
(* it up or has ended.                                                     *)
Execute ==
  /\ reply = "sent"
  /\ IF current \in Invalid \/ issued.words = MaxId
     THEN reply' = "failed" /\ UNCHANGED tables
     ELSE reply' = "ok" /\ CreateWord(current)
  /\ mine' = mine \cup (words' \ words)
  /\ UNCHANGED <<command, listed, present, server, heard, pingVars, analysisVars>>

(* Bug: the word is logged as inserted before its error is looked at. *)
ReceiveAndLog ==
  /\ place = "inserting" /\ reply \in {"ok", "failed"}
  /\ acked' = acked \cup {current}
  /\ IF reply = "ok" THEN place' = "looping" /\ UNCHANGED code
                     ELSE ReturnWith(1)
  /\ UNCHANGED <<input, deadline, conn, todo, current, outside>>

Receive ==
  /\ place = "inserting" /\ reply \in {"ok", "failed"}
  /\ IF reply = "ok"
     THEN place' = "looping" /\ acked' = acked \cup {current} /\ UNCHANGED code
     ELSE ReturnWith(1) /\ UNCHANGED acked
  /\ UNCHANGED <<input, deadline, conn, todo, current, outside>>

(* Bug: the error is logged, and the next word is tried. *)
GiveUpAndGoOn ==
  /\ place = "inserting" /\ (conn = "lost" \/ deadline)
  /\ place' = "looping"
  /\ UNCHANGED <<input, code, deadline, conn, todo, current, acked, outside>>

(* Bug: the statement gets a context without a deadline. *)
GiveUpIfLost ==
  /\ place = "inserting" /\ conn = "lost"
  /\ ReturnWith(1)
  /\ UNCHANGED <<input, deadline, conn, todo, current, acked, outside>>

(* CreateWord returns an error for the connection or the deadline. *)
GiveUp ==
  /\ place = "inserting" /\ (conn = "lost" \/ deadline)
  /\ ReturnWith(1)
  /\ UNCHANGED <<input, deadline, conn, todo, current, acked, outside>>

Finish ==
  /\ place = "looping" /\ todo = {}
  /\ ReturnWith(0)
  /\ UNCHANGED <<input, deadline, conn, todo, current, acked, outside>>

(* words takes no argument but a number of 32 bits, rank and frequency any;*)
(* PostgreSQL takes no negative limit.                                     *)
Limit    == IF input.kind = "list" THEN ListArgument(input.arg) ELSE Argument(input.arg)
LimitErr == IsInt32(Limit) => Limit < 0

(* One statement, whose rows are printed when all have arrived. *)
List ==
  /\ place = "listing" /\ conn = "open" /\ ~deadline /\ ~LimitErr
  /\ listed' \in CASE input.kind = "list"      -> {ListWords(Limit, 0)}
                   [] input.kind = "rank"      -> ListWordRankings(Limit)
                   [] input.kind = "frequency" -> ListWordFrequencies(Limit)
  /\ ReturnWith(0)
  /\ UNCHANGED <<input, deadline, conn, todo, current, acked, present, server, heard,
                 reply, mine, pingVars, tables, analysisVars>>

ListFails ==
  /\ place = "listing"
  /\ conn = "lost" \/ deadline \/ LimitErr
  /\ ReturnWith(1)
  /\ UNCHANGED <<input, deadline, conn, todo, current, acked, outside>>

Analyzing ==
  /\ place = "analyzing" /\ Analyze(self)
  /\ UNCHANGED <<command, listed, present, server, heard, reply, mine, pingVars, tables>>

AnalysisReturns ==
  /\ place = "analyzing"
  /\ \/ analysis[self] = "written" /\ ReturnWith(0)
     \/ analysis[self] = "failed" /\ ReturnWith(1)
  /\ UNCHANGED <<input, deadline, conn, todo, current, acked, outside>>

(* conn.Close, pool.Close, and the end of the process. *)
Exit ==
  /\ place = "closing"
  /\ place' = "exited"
  /\ conn' = IF conn = "none" THEN "none" ELSE "closed"
  /\ pool' = IF pool = "none" THEN "none" ELSE "closed"
  /\ UNCHANGED <<input, code, deadline, todo, current, acked, listed, present,
                 server, heard, reply, mine, ping, tries, late, db, tables, analysisVars>>

Command ==
  \/ Ask \/ OpenPool \/ OpenFails \/ Pinging \/ PingReturns \/ Connect \/ ConnectFails
  \/ ReadInput \/ (\E w \in Text : Send(w)) \/ SendFails \/ Receive \/ GiveUp
  \/ Finish \/ List \/ ListFails
  \/ Analyzing \/ AnalysisReturns \/ Exit

(* The 15 seconds are over; those of Ping, 5 of them, always are before.   *)
Late ==
  /\ place \notin {"asking", "analyzing", "opening", "pinging", "exited"} /\ ~deadline
  /\ deadline' = TRUE
  /\ UNCHANGED <<input, place, code, conn, todo, current, acked, outside>>

Lose ==
  /\ conn = "open"
  /\ conn' = "lost"
  /\ UNCHANGED <<input, place, code, deadline, todo, current, acked, outside>>

PingEnvironment ==
  /\ Expire \/ (place \in {"pinging", "connecting"} /\ Database)
  /\ UNCHANGED <<command, listed, present, server, heard, reply, mine, tables, analysisVars>>

(* The API server comes, goes, hangs or is another one. *)
Serve ==
  /\ place = "asking"
  /\ server' \in {"ok", "sick", "down", "hung"} \ {server}
  /\ UNCHANGED <<command, listed, present, heard, reply, mine, pingVars, tables, analysisVars>>

(* Another process inserts a word. *)
InsertElsewhere ==
  /\ place \notin {"analyzing", "exited"}
  /\ \E v \in Elsewhere : CreateWord(v)
  /\ UNCHANGED <<command, listed, present, server, heard, reply, mine, pingVars, analysisVars>>

(* Another analysis that has come to the same name. *)
AnalyzeElsewhere ==
  /\ input.kind = "analyze"
  /\ \E p \in Process \ {self} : Analyze(p)
  /\ UNCHANGED <<command, listed, present, server, heard, reply, mine, pingVars, tables>>

Next ==
  \/ Command \/ Execute
  \/ Late \/ Lose \/ PingEnvironment \/ Serve \/ InsertElsewhere \/ AnalyzeElsewhere

Spec == Init /\ [][Next]_vars

(* The command runs and time passes; PostgreSQL need not answer, nor need  *)
(* the API server.                                                         *)
Fairness ==
  /\ WF_vars(Command)
  /\ WF_vars(Late)
  /\ WF_vars(Expire /\ PingEnvironment)

FairSpec == Spec /\ Fairness

-------------------------------------------------------------------------------
Inserted == {w.value : w \in mine}

(* Exit code 0 of a command that inserts means that it has stored every    *)
(* word of its input, once: the retries of Ping, the deadline and a lost   *)
(* connection never end in it.                                             *)
ExitZeroStoresAll ==
  place = "exited" /\ code = 0 /\ input.kind = "add" =>
    /\ Inserted = input.values
    /\ \A v, w \in mine : v.value = w.value => v = w

(* The words are no transaction, but whatever the exit code, those logged  *)
(* as inserted are stored, and at most the one sent last in addition: a    *)
(* failed command can be resumed from its log, but for one word.           *)
LogTellsAllButOne ==
  /\ acked \subseteq Inserted
  /\ Inserted \subseteq acked \cup {current}
  /\ Inserted \cap todo = {}

(* A listing leaves out a word that was there when it began only if the    *)
(* limit it was asked for is reached, as far as 32 bits can tell it: a     *)
(* number that is too large is not forgotten.  Only to rank and frequency, *)
(* an argument that is no number asks for nothing; they name no word       *)
(* twice.  And nothing else is listed than words that are stored.          *)
InFull ==
  /\ listed \in Seq(Stored)
  /\ input.kind # "list" =>
       \A i, j \in DOMAIN listed : listed[i] = listed[j] => i = j
  /\ \/ \A v \in present : \E i \in DOMAIN listed : listed[i] = v
     \/ input.arg = NoNumber /\ input.kind # "list"
     \/ input.arg = None /\ Len(listed) = IF input.kind = "list" THEN MaxInt32
                                                                ELSE CommandLimit
     \/ input.arg \in Int /\ Len(listed) = Lesser(input.arg, MaxInt32)

(* A listing that ends with exit code 0 is in full.                        *)
OmissionsAreAskedFor ==
  place = "exited" /\ code = 0 /\ input.kind \in Listing => InFull

(* What ties the places of the command to what it has and has done: which  *)
(* commands come to a place, and with what, ...                            *)
Course ==
  /\ place = "asking" => input.kind = "healthz" /\ heard = "nothing"
  /\ place = "analyzing" => input.kind = "analyze"
  /\ place \in {"looping", "inserting"} => input.kind = "add"
  /\ place = "listing" => input.kind \in Listing
  /\ place \in {"asking", "analyzing", "opening"} => pool = "none"
  /\ place \in {"connecting", "reading"} => ping = "ok"
  /\ place = "reading" => conn # "none"
  /\ code # 0 => place \in {"closing", "exited"}

(* ... that a word is under way, logged, or still to be sent: the reply to *)
(* the last statement tells which of the words are stored, ...             *)
Ledger ==
  /\ input.kind # "add" => todo = {} /\ reply = "none"
  /\ place \in {"opening", "pinging", "connecting", "reading"} => reply = "none" /\ todo = {}
  /\ reply = "none" => mine = {} /\ acked = {}
  /\ reply \in {"sent", "failed"} => Inserted = acked /\ current \notin acked
  /\ reply = "ok" => Inserted = acked \cup {current}
  /\ reply = "sent" => place \in {"inserting", "closing", "exited"}
  /\ place = "inserting" => reply # "none" /\ current \notin acked
                            /\ acked \cup {current} \cup todo = input.values
  /\ place = "looping" => reply \in {"none", "ok"} /\ acked = Inserted
                          /\ acked \cup todo = input.values
  /\ (acked \cup (IF reply = "none" THEN {} ELSE {current})) \cap todo = {}
  /\ \A v, w \in mine : v.value = w.value => v = w
  /\ place \in {"closing", "exited"} /\ code = 0 /\ input.kind = "add" =>
       reply # "sent" /\ Inserted = input.values

(* ... and whose word healthz has taken: exit code 0 tells less than what  *)
(* healthz.go:21 says, "Checks health of http API server": an answer of    *)
(* 200, or any other and a database that could be connected to.            *)
Health ==
  input.kind = "healthz" =>
    /\ place \in {"opening", "pinging", "connecting", "reading"} => heard = "sick"
    /\ place \in {"closing", "exited"} /\ code = 0 =>
         heard = "ok" \/ (heard = "sick" /\ ping = "ok" /\ conn # "none")

IInv ==
  /\ TypeOK /\ KeysUnique /\ Referential /\ PhraseRules
  /\ PoolKnows
  /\ Course /\ Ledger /\ Health
  /\ AnalysesAreKept

(* With it: what a listing has printed stays in full while other processes *)
(* insert words, and nothing else brings a listing to code 0.              *)
Answer ==
  /\ present \subseteq Stored
  /\ place \in {"closing", "exited"} /\ code = 0 /\ input.kind \in Listing => InFull

(* A command ends, even if the database says nothing; only healthz waits   *)
(* for ever, for a server that accepts its request and hangs.              *)
CommandEnds ==
  (input.kind = "healthz" => <>[](server # "hung")) => <>(place = "exited")
===============================================================================
