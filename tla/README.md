# A formal model of piccrack

piccrack reads words and phrases from screenshots (OCR) and keeps them in
PostgreSQL, as a command line program and as an HTTP API. This directory holds
TLA+ modules translated from its Go and SQL, the TLC configurations that check
them on small instances, and TLAPS proofs of what they promise for instances
of any size. Paths are relative to `src/`.

## What the system consists of

| Part | State | Operations | Hard behaviour | What makes it correct |
|---|---|---|---|---|
| `pkg/pproc` walk | two unbuffered channels, a WaitGroup, one goroutine per file | `Walk`, ranged over by `ocr.ScanDir` | races of readers, errors and cancellation against one receive | no send on a closed channel; a drained channel is complete; everything ends |
| `pkg/ocr` | a tesseract client, `Result` | `ScanFile`, `ScanDir`, `ScanFrom`, `Words` | a nil result in a goroutine; a fixed read buffer | nothing truncated or lost silently |
| `pkg/textproc`, `pkg/picphrase` | goroutines and channels of lines and phrases | `ScanLines`, `ScanAt`, `ScanDir`, `ScanReader` | producers that outlive their consumer, cancellation | a stream ends only when it is complete |
| `internal/database` | four tables, their id sequences, constraints | three inserting statements, listings | concurrent statements, failed ones that use up ids, pages without a snapshot | keys, references, unique names; batches whole; paging misses no value |
| `db/migrations` | the schema, the recorded version and whether it is dirty | five files up, five down, run by golang-migrate | a migrator that dies, files that fail on the rows there are, a version forced by hand | the version tells the schema; constraints hold for old rows, too |
| `internal/api/v1` handlers and service | per request | five kinds of requests | handlers that go on after an error, panics, a goroutine that takes the process down | an answer that can be relied on |
| the connection (`cmd/api/start.go`) | one `*pgx.Conn`: its lock, its one `resultReader`, whether it is open | used by all handlers | unsynchronised sharing: a call that finds it busy spoils the one in progress; cancellation closes it for everybody | what is answered as stored is stored, errors have one of a few causes |
| `internal/api/v1` server | listener, signals | `Start`, shutdown | shutdown with a context already cancelled | requests in progress are finished |
| `pkg/retry` | attempts, a pool | `Ping` | retries after the pool was closed, a silent database, a deadline | a success is the database's word, and there is an end |
| `pkg/middleware` rate limit | a map, a mutex, a tick | `LimitRate` | handler under the mutex; a delay between a tick and its call | at most one call for each tick, no request locked out |
| `cmd/words`, `cmd/scan`, `cmd/api healthz` | none of their own | one process each | second writers of the tables; deadlines; a server that hangs | an exit code that can be relied on |
| `pkg/openf`, `pkg/textproc` analysis | output files | `Open`, counting | two processes with one file name | what is written is kept |
| `pkg/imgsniff` | pure | `IsPNG`, `IsJPG` | short inputs | |
| `extension` | selection in a page | | registered with a misspelt method; never reaches the API | |

Parts meet in four ways: calls down to the database (handlers and commands),
channels (walk to OCR to phrases), the shared connection (all handlers of the
API), and the tables (several processes).

## Modules

| Module | What it is |
|---|---|
| `Stream` | abstract: a call that fails or hands out a channel, and a channel that ends only when everything was received |
| `Walk` | `pproc.Walk` and the loop of `ocr.ScanDir`; implements `Stream` |
| `WalkProofs` | its theorems |
| `Store` | the tables after all migrations and the statements of `internal/database` |
| `StoreProofs` | its theorems |
| `Api` | handlers, service and the shared connection, on top of `Store`; implements `StoreSpec` |
| `ApiProofs` | its theorems, with those of `StoreProofs` carried over |
| `Lines` | `textproc.ScanLines` and `picphrase.ScanDir`: one goroutine per text; implements `Stream` if no line is over 64 KB |
| `Phrases` | `picphrase.ScanReader`, `picphrase.ScanAt` and `Result.Words`: one goroutine per item; implements `Stream` |
| `LinesProofs`, `PhrasesProofs` | their theorems |
| `Ping` | `retry.Ping`, a component without a process of its own |
| `Server` | `startCmd` and `server.Start`, on top of `Ping`: the API process from start to exit |
| `Migrations` | the files of `db/migrations` as golang-migrate runs them, and the statements of `Store` on whatever schema there is |
| `DeploymentProofs` | the theorems of what `docker-compose.yml` starts one after the other: of `Migrations`, and of `Ping` and `Server` |
| `Listings` | the listing statements, on top of `Store`, and how limits and offsets are read |
| `Analysis` | the file of `words frequency analyze`, with other processes that have its name |
| `Commands` | the `words` commands and `healthz`, on top of `Ping`, `Listings` and `Analysis` |
| `Paging` | a client of the API that pages through the words, beside `Commands` |
| `CommandsProofs` | the theorems of `Commands`, `Listings`, `Analysis` and `Paging` |
| `RateLimit` | `middleware.LimitRate` |
| `RateLimitProofs` | its theorems |
| `MCWalk`, `MCStore`, `MCMigrations`, `MCApi`, `MCLines`, `MCPhrases`, `MCServer`, `MCCommands`, `MCRateLimit` | instances for TLC |

Definitions named after a bug (their comment starts with "Bug:") are not part
of any specification. Each is a plausible wrong version of the definition
below it, kept to show that the properties notice.

### Walk

`N` entries in the order of `filepath.Walk`; each has a `kind`, chosen in
`Init`: not regular, an error for the WalkFunc, unreadable, dropped by the
filter, kept. The contents of files are abstracted to that. `walker` is the goroutine
of line 55 of `pproc.go`, `reader[i]` that of line 68, `closer` that of line
91, `caller` is `Walk` itself ("waiting" in `<-errc`) and then the range loop of
`ocr.go:138`. A rendezvous on an unbuffered channel is one step of sender and
receiver: `SendResult` and `SendError` on `errc`, `SendEntry` on `c`. `wg.Add(1)` happens
in `StartReader`, before the goroutine exists, so the WaitGroup's counter is
the number of readers neither "none" nor "done" (`WgZero`). `Cancel` may happen at
any time, and the select of line 78 may take either branch when both are
ready. A `kind` is fixed: a file that disappears between the traversal and
`ReadFile` is one that was "unreadable" from the start, which makes no difference to anyone.

### Store

Rows are records, sequences are `issued`. One action per inserting statement,
each atomic: no caller opens a transaction, and a statement is one. Values
are `Text`, of which `Blank` violates the `CHECK`s and `Invalid` (a NUL character, broken
UTF-8) never gets past PostgreSQL's parsing of parameters. A statement that
violates a constraint inserts nothing, but ids it has drawn are gone; how many, the
action leaves open. `created_at` and `deleted_at` are left out (nothing in the program sets
or compares them, apart from `deleted_at IS NULL`, which always holds). Statements of
different sessions that run at once draw interleaved ids in PostgreSQL; the
model gives each statement a block of its own, which no property tells apart.
`MaxId` is the end of a `BIGSERIAL`; a statement that would run past it is not taken.

### Api

A `form` is what a request carries: the handler (`op`), how it is `sent`
(fine, incomplete, unreadable, refused type, a file name unknown on the server), a name and
the list of words or phrases in it. Up to its first statement a handler touches
nothing shared, so `Arrive` is one step; what it does there follows the source closely,
above all the missing returns: the two older upload handlers write a status and go on, panic on a
nil file (`defer f.Close()`), and one takes the process down (`Crash`: `ScanFile` on the *client's file name*
fails, `result` is nil, a goroutine of `result.Words()` dereferences it).

From then on steps are those of the connection. pgx's `ExecPrepared` starts the connection's own `resultReader` anew and only then
tries the lock, a status field without synchronisation. So a call enters (`Enter`: parameters in the shared builder, the reader
its own), and then has the lock (`Lock`) or finds it taken or the connection closed (`Refuse`), which its `Scan` finds in the reader (`ReadRefused`). A
statement that is not prepared yet needs the lock for its `Prepare` first and fails there without touching the reader (`FailAtOnce`); that a
`Prepare` may also have the lock is part of "entered". `Send` is the statement on its way, `Execute` the server's side, `Read` the reply,
`CancelCall` pgconn's closing of the connection when the context of a running call is done. `Disconnect` (a client goes away, net/http
cancels the context) and `Drop` (network or server loss) may happen at any time. Nothing
reopens the connection, as in the source. A statement on its way may be
executed after its call has been given up. `step`, `at` and `ran` count the statements behind the handler, sent, and
in effect; `status` is the first status written.

A call that finds the connection busy fails, but by then it has taken the reader from the call in progress. `reader` says whose it is, and what
becomes of the call in progress depends on where it is:

* it finds the other's "conn busy" in the reader and answers 500, though its statement may be stored, and unless it was about to release the
  lock, nobody does any more (`ReadBusy`; the connection is "stuck" for ever);
* it meets the reader before the other has concluded it, and reads its reply with it (`Read`), or misses the last message and waits for another one, which ends when
  its client goes (`ReadPast`, `Stranded`);
* in turn, a reader that has been used up by another call's reply has no row and no error for its own (`ReadUsed`, `LockInVain`): a `Scan` of one row
  fails, and a list is answered 200 without rows (`NoRows`).

Two calls in front of the lock at once (`Clash`) share the builder and may both take the lock: a data race.
`torn` records it, and from then on a call may read another call's reply and a
statement may go out with another call's parameters (`Muddle`, `ExecuteTorn`). A statement itself stays whole.

Not in `Api`: the 20 s read and write timeouts of the server (they end as a `Disconnect` does), `/metrics` and
`/healthz`, handlers that panic for a file shorter than a signature (as `Panics`), shutdown.

### Lines and Phrases

Both have goroutines that send on one unbuffered channel, a WaitGroup, a closer and a
caller that ranges. In `Lines` each forwarder passes on many lines, which it receives from a
`doScan` of its own; `Pass` is the rendezvous of the two, `Send` that of forwarder and caller. How many lines a
text has is chosen in `Init` (`lines`), and which of them is the first over 64 KB (`long`): `bufio.Scanner` stops there as it does at the
end, and `doScan` never asks it why (`Scan`). So the lines of a text from a long one on are missing silently, and `Lines` is not the `Stream` of lines
that `scan_lines.go:27` describes: a run shows it. What a drained channel does have is every line before the first long one of its text (`DrainedIsComplete`), and without
long lines `Lines` implements `Stream` (a theorem). `ScanDir` receives
from a `ScanLines` of one text, where `Lines` has a `doScan`. Before that it runs `ocr.ScanDir`, which is `Walk`'s
part: it may give the texts (`Start`), fail (`Fail`), or hang for ever, so that nothing forces `Start` of a `ScanDir`.

In `Phrases` each goroutine sends once. The three calls differ in three places only, which
their actions name: who starts the goroutines (the call itself, or a goroutine of `Words` that is
counted by the WaitGroup, too), whether the call returns before that, and whether a sender may give up
(`ScanAt`). The lines `ScanReader` and `ScanAt` loop over come from `ScanLines`, so that their loop (`Spawn`) always goes on. A
caller may stop ranging (`StopRange`) and ctx may be cancelled at any time, although every caller in the program ranges to the
end and `cmd/scan` passes a context nobody cancels: what `ScanAt` has a select for is part of what it promises.
A cancelled `ScanAt` ends like a complete one. `Stream` does not allow that, and so the refinement maps a
`ScanAt` that is drained without having everything to a stream that is still open, one that was given up.

### Ping and Server

`Ping` has one action per place of `op`: the check of the context, the ping, what follows
a failed one, the backoff's sleep. `late` is its context; the database may be up, down or silent. A
closed pool fails every ping (pgxpool), so the retries cannot help, whatever the database does in between (`PoolKnows`, a part of the server's invariant).

`Server` has `main`, the place of `startCmd`, through `server.Start` to the deferred calls, which run while handlers may
still be running; the goroutine of `ListenAndServe`; and signals, which do what `NotifyContext` makes of them:
before it is registered and after `stop()` they kill the process. `Drain` is `Shutdown(ctx)` with the context that is
already cancelled: it looks for active requests once, and returns `ctx.Err()` if there is one (net/http
may look again, which is the same step taken later). A request is "active" from the moment net/http counts its connection. What
handlers do with the connection is `Api`'s part; there, the end of the process is `Crash`'s kind of end. What `Server` has of it is that the connection
may be lost at any time, to a cancelled request or the network (`LoseConn`), and stays with the handlers, which then answer errors. `ServedAreBacked` says that
no request is served before the database has answered a ping and the connection was open, nor when `startCmd` has closed the pool or the connection itself.

### Migrations

`has` is what the schema has, by the features the files add and remove; `Features(v)` is what a schema of version `v` has. Each file is a
definition: what makes one of its statements fail is its guard (a table that is not there or already there, rows that violate a
constraint to be added), and since golang-migrate sends a file as one query without a transaction of its own, PostgreSQL
executes it as one transaction: a file has all of its effect or none. The tool is not part of the repository; what the model has of it
is that it records the version a file leads to as dirty before it runs the file, and as clean behind it (`MarkUp`, `RunFile`,
`MarkClean`), and that it does nothing on a dirty version. It may die anywhere (`Stop`), also between the commit of a file
and the clean version. An operator may migrate down by one, and force a version (`ForceVersion`).

`docker-compose.yml` starts the API when the migrator has ended well. The `words` commands do not wait for it, and so `Statement` has those of
`Store` on every schema: without its tables a statement fails and changes nothing; with `words_value_unique` or without `phrase_batches_name_unique`
other rows are refused. Ids drawn by a failed statement are gone.

### Listings and Paging

A listing is a function of the tables: `ListWords` sorts by value (`Collation`) and cuts out a page, `Grouped` gives all results
`GROUP BY` with ties may give. The limits are read in three ways, which is what the definitions keep apart: the API takes an
unsigned number and falls back to the default if it does not fit 32 bits signed (`limitValue`, `offsetValue`), answering 400 to what is no
number; `words` refuses to start with anything but a 32 bit number; `words rank` and `words frequency` log the error and use
what `ParseInt` returned with it, which is the nearest number or zero (`Argument`). `Paging` is a client that
moves its offset by the rows it has got; it is not part of the repository, the handler that answers it is.

### Analysis

`words frequency analyze` reads a text, counts its words and writes the counts to a file named after the minute and a random number below 10000.
`openf.Open` creates and truncates the file and seeks its start; the flags have `O_APPEND`. Processes that have drawn the same name are
modelled, one action per system call; the counting is not (a loop over a map).

### Commands

One process, which is one of the commands (`input`). `add` is `add many` with one word. Words of a file are the keys of a map, hence
a set, and `Send` takes any of them. A statement that has been sent may be executed after the command has given it up. The three
listing commands send one statement. `healthz` asks the API server, which may answer 200, something else, refuse, or hang (`server`), and goes
on to ping and connect to the database after an answer other than 200. What the commands share with `startCmd` (pool, ping, connect) has a
deadline here. Words are inserted elsewhere at any time while a command is running (`InsertElsewhere`).

### RateLimit

One action per stretch between two operations on the mutex or the channel. `tick` is the buffer of `time.Tick`, which holds one tick and drops
those that come while it is full. The first call of an id runs the handler under the mutex and then, as every call does, waits for a
tick (`TakeTick`) and runs it again (`CallPaced`); between the two its goroutine may be delayed for any time. A panic of the handler is recovered by net/http, and the
mutex stays locked. `free`, `since` and `delayed` are there for the properties: the runs of an id without a tick, the calls that began with one
since the clock ticked last, and those that held one by then and had not begun.

## Runs

| Run | Checks | Bounds, and why they are enough |
|---|---|---|
| `MCWalk.cfg` | `FailureIsJustified`, refinement of `Stream`, `WalkReturns`, `HealthyWalkEnds` | 4 entries, every tree: two readers racing, an error and an aborted walk fit in one tree |
| `MCWalkLeak.cfg` | the claims of the comment on `Walk`, violated | 2 entries |
| `MCMigrations.cfg` | `KeysUnique`, `Referential`, `SchemaRules`, `CleanTellsSchema`, `OnlyDownLoses` | sequences end at 2, which is a duplicate, or a batch with its rows before and after a migration; `MaxForces = 1`: one wrong version, after which every later one is possible. The last version is `Store`'s schema, so its statements are checked here with all the others |
| `MCStoreList.cfg` | listing by batch name, violated | sequences end at 3: two batches, of which one has words of other ids |
| `MCApi.cfg` | the answers' reliability, `OneCallAtATime`, `FailureIsExplained`, `OneOwnerPerName`, `NoAckAfterClose`, refinement of `StoreSpec`, `HandlersEnd` | 2 requests, since races on the connection need two: `r1` may be any of 20 forms, one per way through the handlers, `r2` one form for each kind of statement. Without symmetry, which is not sound for `HandlersEnd` |
| `MCApiRefused.cfg` | "not allowed", violated | as `MCApi.cfg` |
| `MCLines.cfg` | `InOrder`, `DrainedIsComplete`, `AllEnds` | 2 texts of 0 to 3 lines, any of them too long: an empty text beside a long one |
| `MCLinesLong.cfg` | refinement of `Stream`, which is the comment on `ScanLines`, violated | as `MCLines.cfg` |
| `MCPhrases.cfg` | `DrainedIsComplete`, refinement of `Stream`, `RangeEnds`, `CancelFrees` | 4 items: some received, some given up, some not yet started |
| `MCServer.cfg` | `ServedAreBacked`, `CleanExitAnswersAll`, `PingEnds`, `StartSettles`, `SignalStops` | 3 retries as in the program; 2 requests, one answered and one active |
| `MCCommands.cfg` | `ExitZeroStoresAll`, `LogTellsAllButOne`, `OmissionsAreAskedFor`, `AnalysesAreKept`, `PageMissesNothing`, `CommandEnds` | up to 3 words, one of them refused by PostgreSQL; every way to read the input; limits that are missing, no number, too large, too small and negative for `MaxInt32 = 2`; tables of up to 3 rows (`MaxId`), more than one page and more than `MaxInt32`; default limits of 2 (`PageLimit`) and 1 (`CommandLimit`); `Retries = 1`, since only the first ping can succeed; a client pages beside one command only (`Paged`), the one that inserts the word in front of all others; two analyses of one name |
| `MCRateLimit.cfg` | `OneFreeCall`, `PacedByTicks`, `ServedUnlessLockedOut` | 3 calls, 2 ids: two that share an id and one that does not |

What is proved for every instance is not checked again where no mutant of the code needs it to be noticed: the type invariants, `NoSendOnClosed`, and
`DrainedIsComplete` of `Walk` (which `ImplementsStream` contains) are in the theorem modules. Deadlock checking is off
everywhere but in `MCRateLimit.cfg`, because all these systems may stop: every request
is answered or waits in vain, every process or goroutine ended, or (in `Walk`, and in `Phrases` without its caller) blocked for ever, which is
what the liveness properties are about. `MaxId = 8` in `MCApi*.cfg` is never
reached: two requests cannot draw as many ids.

### What the runs found

* `pproc.go:48` says "Caller must consume the channel to prevent leaks". Consuming does not
  suffice: when a file cannot be read after the traversal's result was received, its reader blocks on `errc`
  for ever, the channel is never closed, and the consuming caller hangs with it.
  `pproc.go:50` says "Context cancellation stops the walk"; after `Walk` has returned
  it leads to the same place, since the reader goes from the select to a send on `errc` nobody receives.
* `ListWordsByBatchName` joins the id of the batch with the id of the *word*
  (`words.sql.go:237`), so it lists a word of another batch, or none.
* `uploadWordsHandler` answers "not allowed" and goes on to insert the words.
* `scan_lines.go:27` says of the channel of `ScanLines` that it "receives lines of the texts". A text with a line over 64 KB loses this line and all behind it, the
  channel is closed as if it were complete, and nobody gets the error that `buf.Err()` (`scan_lines.go:17` does not ask for it) would have.

Three more disagreements between the code and what is written beside it have no run, but show in what is checked and proved:

* The comments at `retry.go:23` and `:31` stop further retries when the context is cancelled, as if they were of use until then. The pool is closed behind the first
  failed ping, so no retry can succeed (`PoolKnows`).
* `healthz.go:21` says "Checks health of http API server". After an answer other than 200, exit code 0 only means that the database has answered a
  ping and a connection (`Health`).
* `ratelimit_test.go:30` names its case `intervals_between_handler_calls_equals_duration`. There is no such interval: a call that was delayed behind `<-tick` begins beside the call of
  a later tick, which is why `PacedByTicks` counts ticks received and calls begun in one interval. The loop that would look at the intervals never runs.

More holds of the model, as of the code, that a reader may not expect; no document says otherwise, so
it is stated as it is.

* A request that finds the connection busy does not only fail. The one in progress may be answered 500 although it is stored, the connection may stay
  locked for ever, a list may come back empty with 200, and a handler may wait until its client goes away (`FailureIsExplained`,
  `NoAckAfterClose`, `HandlersEnd` and their exceptions). No such thing makes a 200 of an insertion false (`AckedIsStored`), short of a torn connection.
* A signal ends the API at once, and what it cuts off shows in the exit code only (`CleanExitAnswersAll`, `SignalStops`).
* `api start` has no deadline for `Connect`: the start settles only if the database does not stay silent (`StartSettles`). `healthz` has
  none for its request (`CommandEnds`).
* The first call of an id runs the handler twice, and one that panics under the mutex locks all ids out (`OneFreeCall`, `ServedUnlessLockedOut`).
* A migration up may fail on the rows there are and leave the version dirty (two batches of one name before 000005), and so may one down
  (two equal words at 000002); 000005 on a forced version without `phrase_batches` does nothing and is recorded as done. Only with a
  version that was never forced, a clean version tells the schema (`CleanTellsSchema`).
* Paging by offset may give a word twice but misses no value, since words are never deleted (`PageMissesNothing`). Of rows with equal values any may
  be seen twice and another not at all, since `ORDER BY value` (`words.sql.go:198`) has nothing to tell them apart: the property counts values, not rows.
* Two analyses of one name either truncate each other or leave two JSON documents behind each other: `AnalysesAreKept` says that nothing else happens
  to what has been written, not that the file is of use.
* `imgsniff` has the signature of a JPEG 2000 codestream as that of jpg, and the `.jpg` files the tests read hold PNG data: JPEG files
  are "dropped" in `Walk`. It slices eight bytes behind the white space a file begins with, which a long file of white space does not have:
  a panic. Neither is in a model beyond that.

## Fairness

`Walk`: weak fairness of each goroutine (Go's scheduler is fair to runnable
goroutines, and a channel operation that stays possible is eventually taken)
and of the caller's loop. Nothing forces `Cancel`. `Api`: weak fairness of each handler, and of `Execute` while the
connection stands: PostgreSQL executes what it has received. Nothing forces `Arrive`, `Disconnect`, `Drop` or
`Crash`. `Lines`, `Phrases`: each goroutine of a call and its caller are scheduled; in `Lines` nothing forces `Start` of a `ScanDir`, since the loop over `Walk` before it may
hang (`HealthyWalkEnds` needs a tree without errors), so that `AllEnds` is about calls of `ScanLines`, and of `ScanDir` behind its OCR; in `Phrases` nothing forces
the caller to stop or the context to be cancelled, and nothing undoes either. `Server`, `Commands`: the main goroutine
runs and deadlines pass; nothing makes the database answer, a handler end, or a signal come, so that `PingEnds`, `SignalStops` and `CommandEnds` rest on
deadlines and cancelled contexts alone; `StartSettles` (a database that is not silent for good) and `CommandEnds` for `healthz` (a server that does not
hang for good) say what else they need. `RateLimit`: each call is scheduled and its handler returns or panics, and the clock ticks. A
mutex that is free is given to each waiting call in the end (Go's mutex hands itself over to one that starves); weak fairness suffices in
the model because a call locks it a bounded number of times. `Migrations` has no liveness property: nothing makes an operator act. `HandlersEnd` is stated for a connection that is not torn: on a torn one a call may
wait for a reply another call has read. On one that is not, a call that has read past its reply (`Stranded`) waits until its client goes, which nothing forces.

## Proofs

All proofs hold for every value of the constants that satisfies the named assumptions
(`NAssumption`, `StoreAssumption`, `FormAssumption`, `LinesAssumption`, `PhrasesAssumption`,
`PingAssumption`, `IdAssumption`, `CommandsAssumption`, `ListingsAssumption`, `PagingAssumption`,
`MigrationsAssumption`). Two of them say more than what a constant is: the collation has every text once, which is
what makes `ORDER BY value` an order, and the default limit of the API is not 0 (it is 1000), without which a client could come to an
empty page in the middle of the words. Every safety property of a passing run is stated by a theorem.

* `WalkProofs`. `IInv` adds to the properties what ties the goroutines together: readers
  exist only for entries already visited (`VisitedInOrder`), what a reader's place says of its
  file (`ReaderKnows`), and who has handed over to whom (`Handover`). `DrainedIsComplete` does not follow from
  types: it needs that a reader can be done without delivering a kept entry only when
  `Walk` has failed. `ImplementsStream` follows step by step from the invariant.
* `StoreProofs`. `Integrity` (types, keys, references, phrase rules) is inductive as it stands:
  `KeysUnique` contains its own strengthening, that no id is beyond what its
  sequence has issued. `BatchesSettled` follows: the batch id of a new row is new. `Soundness`, which is `Integrity` without what the last
  schema adds to it, is kept by each insertion whatever the constraints are, so that `Migrations` can use the same lemmas.
* `ApiProofs`. `IInv` has the place of each handler (`Progress`), how many of its statements have
  taken effect at each place (`Ledger`), and what an error leaves open (`Errors`). The ledger needs `OneCallAtATime`:
  the reply a call reads is its own only because nobody else waits, even when the reader it reads it with is not. That an error with something stored has a cause (`FailureIsExplained`) needs
  that a reader, once lost, never comes back to its call. `ImplementsStore` holds on a torn connection as well, so
  `Integrity` carries over to every state of the API (`ApiKeepsIntegrity`). `OneOwnerPerName` needs an invariant of its own (`Owners`): an upload
  that was told its batch is stored has a row of that name, so the `UNIQUE` constraint refuses the next one.

* `LinesProofs`, `PhrasesProofs`. `Progress` ties the places of the goroutines to each other: in `Lines` that a source is closed only
  behind its last line and a forwarder ends only behind its source; in `Phrases` that an item is without goroutine exactly
  if the loop has not reached it, and that one whose goroutine is done was received or given up. A closed channel has then
  delivered everything (`ClosedIsComplete`), which is the step of the refinement that is not immediate. In `Lines` that is every line before a long one; `LinesImplementStream` assumes that
  no text has one (`AllFit`).
* `DeploymentProofs`, the migrations. `MigrationsIInv` has two parts. `MigratorPart` ties the migrator's place, the version and whether it is dirty to
  the schema: `CleanTellsSchema` is not inductive without it, because a file that has just run is recorded by the next step
  (`MigratorCourse`). That each file leads from the schema of its version to that of the next is a lemma of its own, up (`UpLeads`) and
  down (`DownLeads`). `RowsPart` needs no version: a file that adds a constraint looks at the rows, and behind it the statements are refused, whatever an
  operator has forced. It has one clause for tables that are not there, since 000001 creates `words` with a `UNIQUE` constraint and looks at no row.
  `MigratedIsSound` and `MigratedIsStore` join `Migrations` to `Store`: at the last version, clean and never forced, the rows satisfy `Integrity`
  however many statements have met older schemas, and the steps between such states are steps of `Store`. That is what the proofs
  about the API and the commands start from, which take the migrations for done.
* `DeploymentProofs`, the server. `PoolKnows` ties the pool to the attempts: it is open at a ping only if that is the first.
  `Course` says what `startCmd` has at each place, with a connection that may be lost at any of them. `CleanExitAnswersAll` needs that the listener is closed before
  `Drain` looks: without it, a request could still come.

* `RateLimitProofs`. `Locked` says who may hold the mutex, `Accounted` that an id whose handler has run without a tick is in the map or
  its call holds the mutex still, so that the next one finds it. `TickIsOne` says that one tick is in the channel, on its way to a handler
  call, or behind one, which is what a dropped tick is good for.
* `CommandsProofs`. `Course` says which command comes to a place and with what; `Ledger` that each word of the input is logged, under way
  or still to be sent, and that the reply to the last statement tells which of them are stored, whether or not the command still waits for
  it; `Health` whose word `healthz` has taken. `ExitZeroStoresAll` needs that a command that has given up its last statement never returns with 0.
  The parts are proved by the variables they are about, since a step changes few of them. Each step is one of `Store` or none (`CommandsImplementStore`).
* `CommandsProofs`, what is listed. `ListWords` chooses the k-th row by how many rows come before a value. That there is
  one for each k, and one only, rests on the rows being finite and every value having an interval of rows of its own: `EarlierEnds` (the interval of an earlier
  value ends where a later one begins, or before), and `UpToValue`. Where an induction over the rows is meant, the proof takes
  the least or the last counterexample (`Least`, from `WFMin`, which needs no operator as a parameter). From `ListedRows` follow
  that a page is sorted and a piece of the whole list (`ListIsSorted`, `PagesArePieces`), and that an unlimited list has every value (`ListsAll`);
  `RankingsExist` says the same set of values can be ranked on every table, so that the action `List` is never disabled by its rows.
  `OmissionsAreAskedFor` is not inductive, since the answer is found before the command exits: `Answer` has it from then on, and that the rows
  a listing found are still there.
* `CommandsProofs`, paging. `PageMissesNothing` is about the moment at which the client finds an empty page; `MissingIsAhead` says how it gets there: of a value that is
  still missing m times, at least m of its rows lie behind the offset (in the order of the list). An insertion moves rows back only, and a page takes
  off `missing` what it takes off the interval. An empty page means that the offset is at the end, or a limit of 0, which no client asks for. Behind `MaxInt32` the server starts from the first row, where
  a page is not empty because there are rows (the clause `Rows > 0`). A client takes no part in what the commands do
  (`PagingImplementsCommands`).

Model-checked only: the liveness properties (`WalkReturns`, `HealthyWalkEnds`,
`HandlersEnd`, `AllEnds`, `RangeEnds`, `CancelFrees`, `PingEnds`, `StartSettles`, `SignalStops`, `CommandEnds`, `ServedUnlessLockedOut`): fairness is `ENABLED`,
which the prover does not reason about.

## Not modelled

tesseract, language detection and Prometheus (libraries); logging, metrics and configuration (pure output, or read once at start); the
test helpers; the browser extension, which never reaches the API; the stop words and `FileWriter` of `textproc` and the preparation of paths in
`openf`, which have no caller; `readFull` of `ocr`, a loop of one goroutine over one buffer, whose content no property tells apart;
the bytes `imgsniff` compares; `listWordBatchesHandler`, which has no route.

## Plan

1. `Walk`, `Store`, `Api` and their theorems (done).
2. `Lines`, `Phrases` and their theorems (done).
3. `Ping`, `Server` and their theorems (done).
4. `RateLimit` and its theorems, `Migrations`, `Listings`, `Analysis`, `Commands`, `Paging` (done).
5. The theorems of `Commands`, and `OneOwnerPerName` for any number of requests (done).
6. `OmissionsAreAskedFor` and `PageMissesNothing` for tables and limits of any size (done).
7. The theorems of `Migrations`, and what they are good for to `Store` (done).
8. Left: nothing a run checks, but for liveness. Lemmas about `Grouped` (that the values ranked first have the largest counts of all) could be stated beside
   `ListIsSorted`.
