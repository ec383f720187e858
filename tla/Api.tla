--------------------------------- MODULE Api ---------------------------------
(***************************************************************************)
(* The HTTP API, on top of Store: net/http runs the handler of every       *)
(* request in a goroutine of its own, and all handlers send their          *)
(* statements through the one *pgx.Conn that cmd/api/start.go opens.  A    *)
(* pgx.Conn is not meant to be shared.  A call builds its parameters in    *)
(* the connection's own builder and starts the connection's own            *)
(* ResultReader anew before it tries the lock, which is a mere status: a   *)
(* call that finds it set fails at once ("conn busy"), but has taken the   *)
(* reader from the call in progress by then; and two calls in front of the *)
(* lock at once corrupt the connection.  It is never opened again once it  *)
(* is closed, and pgx closes it when the context of a request is cancelled *)
(* while its statement runs.                                               *)
(*                                                                         *)
(* A handler up to its first statement is one step, Arrive: until then it  *)
(* shares nothing with the others.  From there on the steps are those of   *)
(* the connection.                                                         *)
(***************************************************************************)
EXTENDS Store

CONSTANTS
  Request,  \* the requests of all clients
  Form      \* what each request may carry

Op == {"word",     \* POST words: createWordHandler
       "file",     \* POST words/file: uploadWordsHandler
       "image",    \* POST words/image: uploadImageWordsHandler
       "phrases",  \* POST phrases: uploadImagePhrasesHandler
       "list"}     \* GET words and words/batches: the list handlers

Sent == {"good",
         "missing",    \* no such file in the form, no JSON, no number in the query
         "failing",    \* a read, the scanner or the OCR of the content fails
         "nontext",    \* DetectContentType refuses the first 512 bytes
         "foreign"}    \* the name of the file is not that of an image on the server

(* What may be sent to which handler.  values are the words or phrases     *)
(* found in it: one for POST words, none that is blank from the scanners   *)
(* of words.                                                               *)
Possible(f) ==
  /\ f.op = "word" => Len(f.values) = 1
  /\ f.op \in {"word", "list"} => f.sent \in {"good", "missing"}
  /\ f.op = "phrases" => f.sent \in {"good", "missing", "failing"}
  /\ f.sent = "foreign" => f.op = "image"
  /\ f.op \in {"file", "image"} => \A i \in 1 .. Len(f.values) : f.values[i] # Blank

Forms == UNION {Form[r] : r \in Request}

ASSUME FormAssumption ==
  /\ Forms \subseteq [op : Op, sent : Sent, name : Text, values : Lists]
  /\ \A f \in Forms : Possible(f)

VARIABLES
  up,       \* is the process running
  conn,     \* the status of the connection, see Status
  torn,     \* have two calls been in front of its open lock at once
  reader,   \* the call that has started its ResultReader anew last, {} when
            \* that has been used up by the reply to another call
  form,     \* what each request carries
  pc,       \* where its handler is
  step,     \* how many of its statements are behind it
  status,   \* the status code it has written; only the first counts
  gone,     \* has its client gone, which cancels its context
  at,       \* the statement of it that has gone out last, 0 before the first
  reply,    \* what has become of that statement
  ran       \* how many of its statements have taken effect

handler == <<form, pc, step, status, gone>>
wire    == <<at, reply, ran>>
link    == <<conn, torn, reader>>
vars    == <<tables, up, link, handler, wire>>

Status == {"idle",    \* not locked
           "busy",    \* locked by a call in progress
           "stuck",   \* locked, and nobody is left to release it
           "torn",    \* locked or not: two calls have set it at once
           "closed"}

Lost == {"stuck", "closed"}

PC == {"new",       \* not received yet
       "ready",     \* before its next statement, or before its answer
       "entered",   \* in conn.Query: parameters built, reader started anew
       "locked",    \* has the lock, its statement is not out yet
       "refused",   \* has not got the lock, its reader is not read yet
       "waiting",   \* its statement is out, it reads the reply
       "answered",  \* has returned
       "aborted"}   \* has panicked, or its process has died

(* Where a call uses what the connection has only one of, its builder and  *)
(* its reader, with nothing to keep another call from doing the same.      *)
InFront == {"entered", "locked", "refused"}

(* The statements a request asks for: one per word of a file, else one. *)
Count(f) == IF f.op = "file" THEN Len(f.values) ELSE 1

NoForm == [op |-> "none", sent |-> "good", name |-> Blank, values |-> <<>>]

TypeOK ==
  /\ up \in BOOLEAN /\ torn \in BOOLEAN
  /\ conn \in Status
  /\ reader = {} \/ \E r \in Request : reader = {r}
  /\ form \in [Request -> Forms \cup {NoForm}]
  /\ pc \in [Request -> PC]
  /\ \A r \in Request : pc[r] = "new" \/ form[r] \in Forms
  /\ step \in [Request -> Nat]
  /\ status \in [Request -> {0, 200, 400, 500}]
  /\ gone \in [Request -> BOOLEAN]
  /\ at \in [Request -> Nat]
  /\ reply \in [Request -> {"none", "sent", "ok", "failed", "passed"}]
  /\ ran \in [Request -> Nat]

Init ==
  /\ StoreInit
  /\ up = TRUE /\ conn = "idle" /\ torn = FALSE /\ reader = {}
  /\ form = [r \in Request |-> NoForm]
  /\ pc = [r \in Request |-> "new"]
  /\ step = [r \in Request |-> 0]
  /\ status = [r \in Request |-> 0]
  /\ gone = [r \in Request |-> FALSE]
  /\ at = [r \in Request |-> 0]
  /\ reply = [r \in Request |-> "none"]
  /\ ran = [r \in Request |-> 0]

-------------------------------------------------------------------------------
(* The handlers up to their first statement. *)

(* A status is written and the handler returns. *)
Returns(f) ==
  \/ f.op \in {"word", "phrases", "list"} /\ f.sent = "missing"
  \/ f.op = "phrases" /\ f.sent = "failing"

(* The two older upload handlers do not return after a failed FormFile:    *)
(* "defer f.Close()" panics on the nil file.  The service panics on a      *)
(* blank word.  net/http recovers and drops the client's connection, with  *)
(* whatever had been written to it.                                        *)
Panics(f) ==
  \/ f.op \in {"file", "image"} /\ f.sent = "missing"
  \/ f.op = "word" /\ f.sent # "missing" /\ f.values[1] = Blank

(* uploadImageWordsHandler runs the OCR on the server's own file of that   *)
(* name.  If it fails, result is nil, and a goroutine of result.Words(),   *)
(* where nothing recovers, dereferences it: the process dies.              *)
Kills(f) == f.op = "image" /\ f.sent = "foreign"

(* Bug: a refused file is answered with 415, which no client expects. *)
WrittenUnsupported(f) ==
  IF f.sent = "nontext" THEN 415
  ELSE IF f.sent = "missing" THEN 400 ELSE IF f.sent = "failing" THEN 500 ELSE 0

(* The status a handler writes on its way; the upload handlers go on.      *)
Written(f) ==
  IF f.sent \in {"missing", "nontext"} THEN 400 ELSE IF f.sent = "failing" THEN 500 ELSE 0

Arrive(r, f) ==
  /\ up /\ pc[r] = "new" /\ ~Kills(f)
  /\ form' = [form EXCEPT ![r] = f]
  /\ pc' = [pc EXCEPT ![r] =
              IF Panics(f) THEN "aborted" ELSE IF Returns(f) THEN "answered" ELSE "ready"]
  /\ status' = [status EXCEPT ![r] = IF Panics(f) THEN 0 ELSE Written(f)]
  /\ UNCHANGED <<tables, up, link, step, gone, wire>>

(* The process dies with every handler in it; nothing restarts it, and its *)
(* connection ends.  A statement on its way may still be executed.         *)
Crash(r, f) ==
  /\ up /\ pc[r] = "new" /\ Kills(f)
  /\ form' = [form EXCEPT ![r] = f]
  /\ pc' = [q \in Request |->
              IF q = r \/ pc[q] \in InFront \cup {"ready", "waiting"} THEN "aborted" ELSE pc[q]]
  /\ up' = FALSE
  /\ conn' = "closed"
  /\ UNCHANGED <<tables, torn, reader, step, status, gone, wire>>

-------------------------------------------------------------------------------
(* What a handler does with the outcome of a statement. *)

(* Bug: the file handler skips a word that fails and answers nothing. *)
FailSilently(r) ==
  /\ step' = [step EXCEPT ![r] = @ + 1]
  /\ status' = [status EXCEPT ![r] = IF @ = 0 /\ form[r].op # "file" THEN 500 ELSE @]
  /\ pc' = [pc EXCEPT ![r] = IF form[r].op = "file" THEN "ready" ELSE "answered"]

(* Bug: a statement that fails is sent again. *)
FailAndRetry(r) ==
  /\ pc' = [pc EXCEPT ![r] = "ready"]
  /\ UNCHANGED <<step, status>>

(* An error: the file handler writes 500 and goes on with its next word,   *)
(* every other handler writes 500 and returns.                             *)
Fail(r) ==
  /\ step' = [step EXCEPT ![r] = @ + 1]
  /\ status' = [status EXCEPT ![r] = IF @ = 0 THEN 500 ELSE @]
  /\ pc' = [pc EXCEPT ![r] = IF form[r].op = "file" THEN "ready" ELSE "answered"]

Proceed(r) ==
  /\ step' = [step EXCEPT ![r] = @ + 1]
  /\ pc' = [pc EXCEPT ![r] = "ready"]
  /\ UNCHANGED status

(* All statements are behind the handler: it encodes its answer. *)
Finish(r) ==
  /\ up /\ pc[r] = "ready" /\ step[r] = Count(form[r])
  /\ pc' = [pc EXCEPT ![r] = "answered"]
  /\ status' = [status EXCEPT ![r] = IF @ = 0 THEN 200 ELSE @]
  /\ UNCHANGED <<tables, up, link, form, step, gone, wire>>

-------------------------------------------------------------------------------
(* The connection, seen from a call. *)

(* Is a call before its next statement. *)
Calls(r) == up /\ pc[r] = "ready" /\ step[r] < Count(form[r])

(* Is no other call in front of the lock. *)
Alone(r) == conn # "torn" /\ \A q \in Request \ {r} : pc[q] \notin InFront

(* The connection is closed; or the statement has not been prepared yet,   *)
(* and Prepare finds the lock taken.  (With the lock, the first Prepare of *)
(* a statement is part of "entered".)                                      *)
FailAtOnce(r) ==
  /\ Calls(r) /\ (conn = "closed" \/ (conn # "idle" /\ Alone(r)))
  /\ Fail(r)
  /\ UNCHANGED <<tables, up, link, form, gone, wire>>

(* ExecPrepared: pgConn.resultReader is overwritten, and only then is the  *)
(* lock tried.                                                             *)
Enter(r) ==
  /\ Calls(r) /\ conn # "closed" /\ Alone(r)
  /\ reader' = {r}
  /\ pc' = [pc EXCEPT ![r] = "entered"]
  /\ UNCHANGED <<tables, up, conn, torn, form, step, status, gone, wire>>

(* Another call is in front of the lock: the two use one builder and one   *)
(* reader, and both may find the lock free.                                *)
Clash(r) ==
  /\ Calls(r) /\ conn # "closed" /\ ~Alone(r)
  /\ torn' = TRUE /\ conn' = "torn" /\ reader' = {}
  /\ pc' = [pc EXCEPT ![r] = "entered"]
  /\ UNCHANGED <<tables, up, form, step, status, gone, wire>>

(* The lock is taken or the connection closed; or the context is done, and *)
(* the lock is given back.  The reader is concluded with the error ...     *)
Refuse(r) ==
  /\ up /\ pc[r] = "entered" /\ conn # "torn" /\ (conn # "idle" \/ gone[r])
  /\ pc' = [pc EXCEPT ![r] = "refused"]
  /\ UNCHANGED <<tables, up, link, form, step, status, gone, wire>>

(* ... which Scan finds in it. *)
ReadRefused(r) ==
  /\ up /\ pc[r] = "refused"
  /\ Fail(r)
  /\ UNCHANGED <<tables, up, link, form, gone, wire>>

Lock(r) ==
  /\ up /\ pc[r] = "entered" /\ conn = "idle" /\ ~gone[r]
  /\ conn' = "busy"
  /\ pc' = [pc EXCEPT ![r] = "locked"]
  /\ UNCHANGED <<tables, up, torn, reader, form, step, status, gone, wire>>

(* A result without an error and without a row: Scan fails, a list is      *)
(* answered as an empty one.                                               *)
NoRows(r) == Fail(r) \/ (form[r].op = "list" /\ Proceed(r))

(* The lock is taken, but the reply to the call before has been read to    *)
(* its end with this call's reader.  It counts as closed: nothing is sent, *)
(* and nothing releases the lock.                                          *)
LockInVain(r) ==
  /\ up /\ pc[r] = "entered" /\ conn = "idle" /\ ~gone[r]
  /\ r \notin reader
  /\ conn' = "stuck"
  /\ NoRows(r)
  /\ UNCHANGED <<tables, up, torn, reader, form, gone, wire>>

(* The statement goes out; on a torn connection, be it without the lock.   *)
Send(r) ==
  /\ up /\ pc[r] \in (IF conn = "torn" THEN InFront ELSE {"locked"})
  /\ conn # "closed"
  /\ pc' = [pc EXCEPT ![r] = "waiting"]
  /\ at' = [at EXCEPT ![r] = step[r] + 1]
  /\ reply' = [reply EXCEPT ![r] = "sent"]
  /\ UNCHANGED <<tables, up, link, form, step, status, gone, ran>>

Waits(r) == up /\ pc[r] = "waiting" /\ conn = "busy"

(* Another call has overwritten the reader and not yet tried the lock.     *)
Overtaken(r) == \E q \in reader \ {r} : pc[q] = "entered"

(* Bug: the row of QueryRow is dropped without Scan, which keeps the lock. *)
ReadWithoutScan(r) ==
  /\ Waits(r) /\ reply[r] \in {"ok", "failed"} /\ r \in reader
  /\ Proceed(r)
  /\ UNCHANGED <<tables, up, link, form, gone, wire>>

(* Row.Scan: the reply is read and the lock released.  With the reader of  *)
(* another call Scan may miss what has been read before, and uses it up.   *)
Read(r) ==
  /\ Waits(r) /\ reply[r] \in {"ok", "failed"}
  /\ r \in reader \/ Overtaken(r)
  /\ \/ reply[r] = "ok" /\ Proceed(r)
     \/ (reply[r] = "failed" \/ r \notin reader) /\ Fail(r)
  /\ conn' = "idle"
  /\ reader' \in (IF r \in reader THEN {reader} ELSE {reader, {}})
  /\ UNCHANGED <<tables, up, torn, form, gone, wire>>

(* The reader is overwritten between the last message of the reply and the *)
(* look whether there was one: the call waits for a message that PostgreSQL*)
(* does not send.                                                          *)
ReadPast(r) ==
  /\ Waits(r) /\ reply[r] \in {"ok", "failed"} /\ Overtaken(r)
  /\ reply' = [reply EXCEPT ![r] = "passed"]
  /\ UNCHANGED <<tables, up, link, handler, at, ran>>

(* The reader was used up before: it holds no row and no error.            *)
ReadUsed(r) ==
  /\ Waits(r) /\ reply[r] \in {"ok", "failed"} /\ reader = {}
  /\ conn' = "idle"
  /\ NoRows(r)
  /\ UNCHANGED <<tables, up, torn, reader, form, gone, wire>>

(* The reader holds the "conn busy" of another call: the call fails with   *)
(* it, and unless it was about to release the lock, it keeps it.           *)
ReadBusy(r) ==
  /\ Waits(r) /\ reply[r] # "passed"
  /\ reader \notin {{}, {r}} /\ ~Overtaken(r)
  /\ conn' = "stuck" \/ (reply[r] # "sent" /\ conn' = "idle")
  /\ Fail(r)
  /\ UNCHANGED <<tables, up, torn, reader, form, gone, wire>>

(* The context is cancelled while the call holds the connection: pgx       *)
(* closes it under the call.                                               *)
CancelCall(r) ==
  /\ up /\ pc[r] \in {"locked", "waiting"} /\ gone[r] /\ conn # "closed"
  /\ conn' = "closed"
  /\ Fail(r)
  /\ UNCHANGED <<tables, up, torn, reader, form, gone, wire>>

(* The call finds the connection closed under it. *)
ReadClosed(r) ==
  /\ up /\ pc[r] \in {"locked", "waiting"} /\ conn = "closed"
  /\ Fail(r)
  /\ UNCHANGED <<tables, up, link, form, gone, wire>>

(* On a torn connection a call may take the reply to another for its own,  *)
(* fail or panic, at any time.                                             *)
Muddle(r) ==
  /\ up /\ conn = "torn" /\ pc[r] \in InFront \cup {"waiting"}
  /\ \/ Proceed(r)
     \/ Fail(r)
     \/ pc' = [pc EXCEPT ![r] = "aborted"] /\ UNCHANGED <<step, status>>
  /\ UNCHANGED <<tables, up, link, form, gone, wire>>

-------------------------------------------------------------------------------
(* The other side of the connection. *)

(* Does statement k of f change the tables. *)
TakesEffect(f, k) ==
  \/ f.op \in {"word", "file"} /\ f.values[k] \notin Invalid
  \/ f.op = "image" /\ Sendable(f.name, f.values)
  \/ f.op = "phrases" /\ Sendable(f.name, f.values)
                       /\ PhrasesAllowed(f.name, f.values)

(* Bug: the INSERT of a batch has no RETURNING, so that Scan finds no row. *)
SucceedsWithoutReturning(f, k) ==
  f.op = "list" \/ (f.op \in {"word", "file"} /\ TakesEffect(f, k))

(* Does its call succeed: a batch without values is stored, but returns no *)
(* row for Scan to read.                                                   *)
Succeeds(f, k) == f.op = "list" \/ (TakesEffect(f, k) /\ Len(f.values) > 0)

(* Bug: the words of an image are inserted without their batch. *)
StatementWithoutBatch(f, k) ==
  \/ f.op \in {"word", "file"} /\ CreateWord(f.values[k])
  \/ /\ f.op = "image"
     /\ words' = words \cup Unnested(f.values, issued.words, 1)
     /\ issued' = [issued EXCEPT !.words = @ + Len(f.values)]
     /\ UNCHANGED <<wordBatches, phrases, phraseBatches>>
  \/ f.op = "phrases" /\ CreatePhrasesBatch(f.name, f.values)
  \/ f.op = "list" /\ UNCHANGED tables

Statement(f, k) ==
  \/ f.op \in {"word", "file"} /\ CreateWord(f.values[k])
  \/ f.op = "image" /\ CreateWordsBatch(f.name, f.values)
  \/ f.op = "phrases" /\ CreatePhrasesBatch(f.name, f.values)
  \/ /\ \/ f.op = "list"
        \/ f.op \in {"word", "file"} /\ f.values[k] \in Invalid
        \/ f.op \in {"image", "phrases"} /\ ~Sendable(f.name, f.values)
     /\ UNCHANGED tables

(* The number of the statement whose parameters q has built last. *)
InHand(q) == IF pc[q] \in InFront THEN step[q] + 1 ELSE at[q]

(* Which of them fit the statement of r. *)
Fits(q, r) ==
  \/ {form[q].op, form[r].op} \in {{"word", "file"}, {"image", "phrases"}}
  \/ form[q].op = form[r].op

(* PostgreSQL executes the statement that r has sent, even after the call  *)
(* or the process has gone.                                                *)
Execute(r) ==
  /\ reply[r] = "sent" /\ ~torn
  /\ Statement(form[r], at[r])
  /\ reply' = [reply EXCEPT ![r] = IF Succeeds(form[r], at[r]) THEN "ok" ELSE "failed"]
  /\ ran' = [ran EXCEPT ![r] = IF TakesEffect(form[r], at[r]) THEN @ + 1 ELSE @]
  /\ UNCHANGED <<up, link, handler, at>>

(* On a torn connection its parameters may be those of another call, or be *)
(* refused; whose reply it gets is left open, and it is not counted.       *)
ExecuteTorn(r) ==
  /\ reply[r] = "sent" /\ torn
  /\ \/ \E q \in Request :
          /\ InHand(q) > 0 /\ Fits(q, r)
          /\ Statement([form[q] EXCEPT !.op = form[r].op], InHand(q))
     \/ UNCHANGED tables
  /\ reply' = [reply EXCEPT ![r] = "passed"]
  /\ UNCHANGED <<up, link, handler, at, ran>>

(* The connection breaks, or PostgreSQL goes away. *)
Drop ==
  /\ up /\ conn # "closed"
  /\ conn' = "closed"
  /\ UNCHANGED <<tables, up, torn, reader, handler, wire>>

(* A client goes away before its answer; that matters as long as the       *)
(* connection is whole.                                                    *)
Disconnect(r) ==
  /\ up /\ conn \notin {"torn", "closed"}
  /\ pc[r] \in InFront \cup {"ready", "waiting"} /\ ~gone[r]
  /\ gone' = [gone EXCEPT ![r] = TRUE]
  /\ UNCHANGED <<tables, up, link, form, pc, step, status, wire>>

(* What the goroutine of a request does next. *)
Handler(r) ==
  \/ Finish(r) \/ FailAtOnce(r) \/ Enter(r) \/ Clash(r) \/ Refuse(r) \/ ReadRefused(r)
  \/ Lock(r) \/ LockInVain(r) \/ Send(r)
  \/ Read(r) \/ ReadPast(r) \/ ReadUsed(r) \/ ReadBusy(r)
  \/ CancelCall(r) \/ ReadClosed(r) \/ Muddle(r)

Next ==
  \/ \E r \in Request :
       \/ \E f \in Form[r] : Arrive(r, f) \/ Crash(r, f)
       \/ Handler(r) \/ Execute(r) \/ ExecuteTorn(r) \/ Disconnect(r)
  \/ Drop

Spec == Init /\ [][Next]_vars

(* Handlers keep running, and PostgreSQL executes what it has received as  *)
(* long as the connection stands.                                          *)
Fairness ==
  \A r \in Request :
    /\ WF_vars(Handler(r))
    /\ WF_vars(conn # "closed" /\ Execute(r))

FairSpec == Spec /\ Fairness

-------------------------------------------------------------------------------
Answered(r, code) == pc[r] = "answered" /\ status[r] = code

Writes(f) == f.op # "list"

EmptyBatch(f) == f.op \in {"image", "phrases"} /\ Len(f.values) = 0

(* The inductive invariant.  Where a handler is determines how many of its *)
(* statements have gone out, ...                                           *)
Progress(r) ==
  /\ pc[r] = "new" => step[r] = 0 /\ status[r] = 0
  /\ pc[r] = "ready" => at[r] <= step[r] /\ step[r] <= Count(form[r])
  /\ pc[r] \in InFront => at[r] <= step[r] /\ step[r] < Count(form[r])
  /\ pc[r] = "waiting" => at[r] = step[r] + 1 /\ reply[r] # "none"
  /\ at[r] > 0 => pc[r] # "new" /\ at[r] <= Count(form[r])
  /\ reply[r] = "sent" => at[r] > 0
  /\ ran[r] > 0 => pc[r] # "new"

(* ... how many of them have taken effect; a reply that is still to come   *)
(* belongs to a call that waits, or the connection is lost;                *)
Ledger(r) ==
  /\ ran[r] <= at[r]
  /\ reply[r] = "sent" => ran[r] < at[r] /\ (pc[r] = "waiting" \/ conn \in Lost)
  /\ Writes(form[r]) =>
       /\ status[r] = 0 /\ pc[r] \in InFront \cup {"ready"} =>
            at[r] = step[r] /\ ran[r] = step[r] /\ reply[r] # "sent"
       /\ status[r] = 0 /\ pc[r] = "waiting" /\ reply[r] = "sent" => ran[r] = step[r]
       /\ status[r] = 0 /\ pc[r] = "waiting" /\ reply[r] = "ok" => ran[r] = step[r] + 1
       /\ status[r] = 200 => pc[r] = "answered" /\ ran[r] = Count(form[r]) /\ reply[r] # "sent"

(* ... and what an error that has been answered leaves open.               *)
Errors(r) ==
  form[r].op # "file" =>
    /\ reply[r] = "failed" /\ ran[r] > 0 => EmptyBatch(form[r])
    /\ reply[r] = "sent" => pc[r] = "waiting" \/ conn = "closed" \/ r \notin reader
    /\ form[r].sent = "good" /\ pc[r] \in InFront \cup {"ready", "waiting"} => status[r] = 0

(* As long as no two calls have torn the connection, status 200 can be     *)
(* relied on: every statement of the request has taken effect, once.  No   *)
(* busy connection, overwritten reader, refused parameter, cancelled       *)
(* context or lost connection ends in a 200.                               *)
AckedIsStored ==
  ~torn => \A r \in Request :
             Answered(r, 200) /\ Writes(form[r]) => ran[r] = Count(form[r])

(* No handler sends a statement twice: whatever fails, a request never     *)
(* takes effect more often than it asks for.                               *)
AtMostOnce ==
  ~torn => \A r \in Request : ran[r] <= at[r] /\ at[r] <= Count(form[r])

(* Has the call the lock. *)
Holds(r) == pc[r] \in {"locked", "waiting"}

(* Short of tearing it, the calls exclude each other: at most one is in    *)
(* front of the lock, at most one holds it, and an open connection that is *)
(* busy is held by a call that has not returned.                           *)
OneCallAtATime ==
  ~torn /\ conn # "closed" =>
    /\ \A r, q \in Request : pc[r] \in InFront /\ pc[q] \in InFront => r = q
    /\ \A r, q \in Request : Holds(r) /\ Holds(q) => r = q
    /\ conn = "busy" <=> \E r \in Request : Holds(r)

(* An error answered for a request of one statement, sent as it should be, *)
(* means that nothing was stored, with three exceptions: a batch without   *)
(* values, stored and then reported as an error, a connection closed under *)
(* a call, and a reader that another call has overwritten or used up.      *)
FailureIsExplained ==
  ~torn => \A r \in Request :
    /\ Answered(r, 500) /\ ran[r] > 0
    /\ form[r].op # "file" /\ form[r].sent = "good"
    => EmptyBatch(form[r]) \/ conn = "closed" \/ r \notin reader

IInv ==
  /\ TypeOK
  /\ conn = "torn" => torn
  /\ \A r \in Request : Progress(r)
  /\ OneCallAtATime
  /\ ~torn => \A r \in Request : Ledger(r) /\ Errors(r)
  /\ FailureIsExplained

(* Of two uploads of phrases under one name at most one is acknowledged.   *)
OneOwnerPerName ==
  ~torn => \A r, q \in Request :
    /\ Answered(r, 200) /\ form[r].op = "phrases"
    /\ Answered(q, 200) /\ form[q].op = "phrases"
    /\ form[r].name = form[q].name
    => r = q

(* One lost connection is the end of the service, be it closed or locked   *)
(* by a call that has gone: nothing is sent on it any more, and a request  *)
(* is only acknowledged afterwards if all its statements had gone out      *)
(* before, and their replies had been read.                                *)
AckedBefore ==
  /\ conn = "closed" => conn' = "closed" /\ at' = at
  /\ conn \in Lost /\ ~torn' =>
       /\ conn' \in Lost /\ at' = at
       /\ \A r \in Request : Writes(form[r]) /\ status'[r] = 200 =>
            status[r] = 200 \/ (step[r] = Count(form[r]) /\ at[r] = Count(form[r]))

NoAckAfterClose == [][AckedBefore]_vars

(* Whatever the handlers do to the connection, the tables only ever change *)
(* by whole statements.                                                    *)
ImplementsStore == StoreSpec

(* Has the call read past its reply, with its client still there. *)
Stranded(r) == pc[r] = "waiting" /\ reply[r] = "passed" /\ ~gone[r]

(* On a connection that is not torn every handler returns or is aborted,   *)
(* whatever becomes of the connection, but for one that has read past its  *)
(* reply: that one waits for its client to go away.                        *)
HandlersEnd ==
  [](~torn) => \A r \in Request :
                 pc[r] = "ready" ~> pc[r] \in {"answered", "aborted"} \/ Stranded(r)

(* handlers.go:199, "check if it's a text", and handlers.go:217, "not      *)
(* allowed. Upload text file": the words of a file that is refused are not *)
(* stored.                                                                 *)
RefusedStoresNothing ==
  \A r \in Request : Answered(r, 400) => ran[r] = 0
===============================================================================
