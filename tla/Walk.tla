--------------------------------- MODULE Walk ---------------------------------
(***************************************************************************)
(* pkg/pproc.Walk: one goroutine traverses a directory tree with           *)
(* filepath.Walk and starts a goroutine per regular file; each of those    *)
(* reads its file, applies the filter and offers the entry on the          *)
(* unbuffered channel c.  Errors of the readers and the result of the      *)
(* traversal all go through one unbuffered channel errc, from which Walk   *)
(* receives exactly once before it returns.  A last goroutine closes c     *)
(* once the WaitGroup of the readers is down to zero.                      *)
(*                                                                         *)
(* The caller is the one caller in the program, ocr.ScanDir: it ranges     *)
(* over the returned channel until the channel is closed.                  *)
(***************************************************************************)
EXTENDS Naturals

CONSTANT N   \* how many entries the tree has; filepath.Walk orders them 1..N

ASSUME NAssumption == N \in Nat

Entry == 1 .. N

(* What an entry turns out to be when the code gets to it: not a regular   *)
(* file; one filepath.Walk reports an error for; a regular file that       *)
(* cannot be read; one the filter drops; one the filter keeps.             *)
Kind == {"dir", "walkerr", "unreadable", "dropped", "kept"}

VARIABLES
  kind,       \* the tree: what each entry is
  next,       \* the entry the traversal visits next
  walker,     \* the traversing goroutine: "walking", "sending", "done"
  walkErr,    \* did filepath.Walk end with an error
  reader,     \* the goroutine of each entry
  closer,     \* the goroutine that closes c: "none", "waiting", "done"
  caller,     \* "waiting" for errc, "open" ranging over c, "failed", "drained"
  got,        \* the entries the caller has received from c
  cancelled   \* is ctx cancelled

vars == <<kind, next, walker, walkErr, reader, closer, caller, got, cancelled>>

ReaderState ==
  {"none",      \* not started
   "reading",   \* between its start and the outcome of ReadFile and filter
   "offering",  \* in the select between c <- entry and ctx.Done()
   "failing",   \* in a send on errc
   "done"}      \* has called wg.Done()

Kept == {i \in Entry : kind[i] = "kept"}

TypeOK ==
  /\ kind \in [Entry -> Kind]
  /\ next \in 1 .. N + 1
  /\ walker \in {"walking", "sending", "done"}
  /\ walkErr \in BOOLEAN
  /\ reader \in [Entry -> ReaderState]
  /\ closer \in {"none", "waiting", "done"}
  /\ caller \in {"waiting", "open", "failed", "drained"}
  /\ got \subseteq Entry
  /\ cancelled \in BOOLEAN

Init ==
  /\ kind \in [Entry -> Kind]
  /\ next = 1
  /\ walker = "walking"
  /\ walkErr = FALSE
  /\ reader = [i \in Entry |-> "none"]
  /\ closer = "none"
  /\ caller = "waiting"
  /\ got = {}
  /\ cancelled = FALSE

-------------------------------------------------------------------------------
(* The traversing goroutine. *)

(* Bug: the entry after a directory is skipped with it. *)
SkipEntryTooFar ==
  /\ walker = "walking" /\ next \in Entry
  /\ kind[next] = "dir"
  /\ next' = next + 2
  /\ UNCHANGED <<kind, walker, walkErr, reader, closer, caller, got, cancelled>>

(* The WalkFunc on an entry that is not a regular file. *)
SkipEntry ==
  /\ walker = "walking" /\ next \in Entry
  /\ kind[next] = "dir"
  /\ next' = next + 1
  /\ UNCHANGED <<kind, walker, walkErr, reader, closer, caller, got, cancelled>>

(* The WalkFunc on a regular file: wg.Add(1), then the reader is started. *)
StartReader ==
  /\ walker = "walking" /\ next \in Entry
  /\ kind[next] \in {"unreadable", "dropped", "kept"}
  /\ reader' = [reader EXCEPT ![next] = "reading"]
  /\ next' = next + 1
  /\ UNCHANGED <<kind, walker, walkErr, closer, caller, got, cancelled>>

(* The WalkFunc is given an error and returns it, which ends the traversal. *)
AbortWalk ==
  /\ walker = "walking" /\ next \in Entry
  /\ kind[next] = "walkerr"
  /\ walker' = "sending"
  /\ walkErr' = TRUE
  /\ UNCHANGED <<kind, next, reader, closer, caller, got, cancelled>>

FinishWalk ==
  /\ walker = "walking" /\ next = N + 1
  /\ walker' = "sending"
  /\ UNCHANGED <<kind, next, walkErr, reader, closer, caller, got, cancelled>>

(* Bug: wg.Wait() before the send on errc instead of in the closer. *)
SendResultAfterWait ==
  /\ walker = "sending" /\ caller = "waiting"
  /\ \A i \in Entry : reader[i] \in {"none", "done"}
  /\ walker' = "done"
  /\ caller' = IF walkErr THEN "failed" ELSE "open"
  /\ closer' = "waiting"
  /\ UNCHANGED <<kind, next, walkErr, reader, got, cancelled>>

(* errc <- filepath.Walk(...) meets Walk's receive; the closer is started. *)
SendResult ==
  /\ walker = "sending" /\ caller = "waiting"
  /\ walker' = "done"
  /\ caller' = IF walkErr THEN "failed" ELSE "open"
  /\ closer' = "waiting"
  /\ UNCHANGED <<kind, next, walkErr, reader, got, cancelled>>

Walker == SkipEntry \/ StartReader \/ AbortWalk \/ FinishWalk \/ SendResult

-------------------------------------------------------------------------------
(* The goroutine of the regular file i. *)

(* Bug: a file the filter drops is reported on errc too. *)
AfterReadReportDropped(k) ==
  IF k \in {"unreadable", "dropped"} THEN "failing" ELSE IF k = "kept" THEN "offering" ELSE "done"

(* Where ReadFile and the filter send the reader of a file of kind k: to   *)
(* the send on errc, to the select, or to its deferred wg.Done().          *)
AfterRead(k) ==
  IF k = "unreadable" THEN "failing" ELSE IF k = "kept" THEN "offering" ELSE "done"

Read(i) ==
  /\ reader[i] = "reading"
  /\ reader' = [reader EXCEPT ![i] = AfterRead(kind[i])]
  /\ UNCHANGED <<kind, next, walker, walkErr, closer, caller, got, cancelled>>

(* c <- entry meets the receive of the caller's range loop. *)
SendEntry(i) ==
  /\ reader[i] = "offering" /\ caller = "open"
  /\ reader' = [reader EXCEPT ![i] = "done"]
  /\ got' = got \cup {i}
  /\ UNCHANGED <<kind, next, walker, walkErr, closer, caller, cancelled>>

(* Bug: the cancelled select returns without sending on errc. *)
GiveUpSilently(i) ==
  /\ reader[i] = "offering" /\ cancelled
  /\ reader' = [reader EXCEPT ![i] = "done"]
  /\ UNCHANGED <<kind, next, walker, walkErr, closer, caller, got, cancelled>>

(* The select takes <-ctx.Done(): the reader turns to errc <- ctx.Err(). *)
GiveUp(i) ==
  /\ reader[i] = "offering" /\ cancelled
  /\ reader' = [reader EXCEPT ![i] = "failing"]
  /\ UNCHANGED <<kind, next, walker, walkErr, closer, caller, got, cancelled>>

(* A reader's send on errc meets Walk's receive: Walk returns the error. *)
SendError(i) ==
  /\ reader[i] = "failing" /\ caller = "waiting"
  /\ reader' = [reader EXCEPT ![i] = "done"]
  /\ caller' = "failed"
  /\ UNCHANGED <<kind, next, walker, walkErr, closer, got, cancelled>>

Reader(i) == Read(i) \/ SendEntry(i) \/ GiveUp(i) \/ SendError(i)

-------------------------------------------------------------------------------
(* Bug: wg.Add(1) is done by the reader itself, once it has read its file. *)
WgAddInReader == \A i \in Entry : reader[i] \in {"none", "reading", "done"}

(* The WaitGroup is zero: no started reader is short of its wg.Done(). *)
WgZero == \A i \in Entry : reader[i] \in {"none", "done"}

(* wg.Wait() returns; c is closed. *)
Close ==
  /\ closer = "waiting" /\ WgZero
  /\ closer' = "done"
  /\ UNCHANGED <<kind, next, walker, walkErr, reader, caller, got, cancelled>>

(* The caller's range loop sees the closed channel and ends. *)
EndRange ==
  /\ caller = "open" /\ closer = "done"
  /\ caller' = "drained"
  /\ UNCHANGED <<kind, next, walker, walkErr, reader, closer, got, cancelled>>

(* The owner of ctx cancels it, at any time. *)
Cancel ==
  /\ ~cancelled
  /\ cancelled' = TRUE
  /\ UNCHANGED <<kind, next, walker, walkErr, reader, closer, caller, got>>

Next == Walker \/ (\E i \in Entry : Reader(i)) \/ Close \/ EndRange \/ Cancel

Spec == Init /\ [][Next]_vars

(* Every goroutine that can take a step is eventually scheduled, and the   *)
(* caller keeps ranging; nobody has to cancel.                             *)
Fairness ==
  /\ WF_vars(Walker)
  /\ \A i \in Entry : WF_vars(Reader(i))
  /\ WF_vars(Close)
  /\ WF_vars(EndRange)

FairSpec == Spec /\ Fairness

-------------------------------------------------------------------------------
(* No goroutine of the call is left. *)
Stopped ==
  /\ walker = "done"
  /\ closer = "done"
  /\ \A i \in Entry : reader[i] \in {"none", "done"}

Healthy == \A i \in Entry : kind[i] \in {"dir", "dropped", "kept"}

(* A reader never sends on the closed channel (a panic that would take the *)
(* process down): by the time the closer has closed c, no reader is short  *)
(* of its last use of c, and no reader can still be started.               *)
NoSendOnClosed ==
  closer = "done" =>
    /\ walker = "done"
    /\ \A i \in Entry : reader[i] \in {"none", "done"}

(* What ties the goroutines together: the inductive invariant from which   *)
(* the safety properties follow.                                           *)
VisitedInOrder ==
  /\ \A i \in Entry : i >= next => reader[i] = "none"
  /\ \A i \in Entry : i < next =>
       /\ kind[i] # "walkerr"
       /\ kind[i] # "dir" => reader[i] # "none"
  /\ walker # "walking" /\ ~walkErr => next = N + 1
  /\ walkErr => \E i \in Entry : kind[i] = "walkerr"

ReaderKnows ==
  \A i \in Entry :
    /\ reader[i] # "none" => kind[i] # "dir"
    /\ reader[i] = "offering" => kind[i] = "kept"
    /\ reader[i] = "failing" => kind[i] = "unreadable" \/ cancelled
    /\ i \in got => reader[i] = "done" /\ kind[i] = "kept"
    /\ reader[i] = "done" => kind[i] = "dropped" \/ i \in got \/ caller = "failed"

Handover ==
  /\ walker = "done" <=> closer # "none"
  /\ caller = "waiting" => walker # "done"
  /\ caller \in {"open", "drained"} => walker = "done" /\ ~walkErr
  /\ got # {} => caller # "waiting"
  /\ caller = "drained" => closer = "done"

(* The end of the channel means completeness: when the caller's range loop *)
(* ends, it has received every entry the filter keeps and no other, and    *)
(* no entry of the tree has had an error.  ocr.ScanDir relies on it: it    *)
(* has no other way to learn of a lost image.                              *)
DrainedIsComplete ==
  caller = "drained" =>
    /\ got = Kept
    /\ \A i \in Entry : kind[i] \notin {"walkerr", "unreadable"}

(* Walk fails only for a reason: an entry with an error, or cancellation.  *)
FailureIsJustified ==
  caller = "failed" =>
    \/ cancelled
    \/ \E i \in Entry : kind[i] \in {"walkerr", "unreadable"}

IInv ==
  /\ TypeOK /\ VisitedInOrder /\ ReaderKnows /\ Handover
  /\ NoSendOnClosed /\ FailureIsJustified

(* Walk with its caller is a drained stream of the entries the filter      *)
(* keeps: errors, cancellation and the race of the readers never lose,     *)
(* repeat or invent an entry.                                              *)
Out == INSTANCE Stream WITH
  items <- Kept,
  got   <- got,
  state <- CASE caller = "waiting" -> "opening"
             [] caller = "drained" -> "closed"
             [] OTHER              -> caller

ImplementsStream == Out!Spec

(* Walk itself always returns: whatever the tree and whenever ctx is       *)
(* cancelled, its one receive from errc meets a sender.                    *)
WalkReturns == <>(caller # "waiting")

(* On a tree without errors, and if nobody cancels, the caller's loop ends *)
(* and the call leaves no goroutine behind.                                *)
HealthyWalkEnds ==
  (Healthy /\ [](~cancelled)) => <>(caller = "drained" /\ Stopped)

(* pproc.go:48, "Caller must consume the channel to prevent leaks", and     *)
(* pproc.go:50, "Context cancellation stops the walk": a caller that keeps *)
(* consuming the channel it was given leaks no goroutine, cancelled or not.*)
ConsumingPreventsLeaks == caller = "open" ~> Stopped
===============================================================================
