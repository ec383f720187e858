------------------------------- MODULE Phrases -------------------------------
(***************************************************************************)
(* The three calls that start one goroutine per item, each with one send   *)
(* on an unbuffered channel that a last goroutine closes:                  *)
(*   picphrase.ScanReader   after the OCR, the call itself starts the      *)
(*                          goroutines, and then returns;                  *)
(*   picphrase.ScanAt       the same, but each goroutine gives its phrase  *)
(*                          up when ctx is cancelled;                      *)
(*   ocr.Result.Words       returns at once; a goroutine of its own starts *)
(*                          the others.                                    *)
(* The lines that ScanReader and ScanAt range over are those of ScanLines  *)
(* for one text (module Lines).  The callers in the program range until    *)
(* the channel is closed; here a caller may also stop ranging before.      *)
(***************************************************************************)
EXTENDS Naturals

CONSTANT N   \* how many phrases or words there are

ASSUME PhrasesAssumption == N \in Nat

VARIABLES
  call,      \* which call it is
  next,      \* the item whose goroutine is started next
  spawner,   \* the loop that starts them: "none", "running", "done"
  sender,    \* the goroutine of each item: "none", "offering", "done"
  closer,    \* the goroutine that closes the channel: "none", "waiting", "done"
  caller,    \* "calling", "open" (ranges), "failed", "drained", "gone" (stopped)
  got,       \* the items the caller has received
  cancelled  \* is ctx cancelled

vars == <<call, next, spawner, sender, closer, caller, got, cancelled>>

Item == 1 .. N
Call == {"ScanReader", "ScanAt", "Words"}

TypeOK ==
  /\ call \in Call
  /\ next \in 1 .. N + 1
  /\ spawner \in {"none", "running", "done"}
  /\ sender \in [Item -> {"none", "offering", "done"}]
  /\ closer \in {"none", "waiting", "done"}
  /\ caller \in {"calling", "open", "failed", "drained", "gone"}
  /\ got \subseteq Item
  /\ cancelled \in BOOLEAN

Init ==
  /\ call \in Call
  /\ next = 1
  /\ spawner = "none"
  /\ sender = [i \in Item |-> "none"]
  /\ closer = "none"
  /\ caller = "calling"
  /\ got = {}
  /\ cancelled = FALSE

-------------------------------------------------------------------------------
(* ScanFile or ScanFrom fails. *)
Fail ==
  /\ call # "Words"
  /\ caller = "calling" /\ spawner = "none"
  /\ caller' = "failed"
  /\ UNCHANGED <<call, next, spawner, sender, closer, got, cancelled>>

(* The text is there.  Words starts its two goroutines and returns. *)
Begin ==
  /\ caller = "calling" /\ spawner = "none"
  /\ spawner' = "running"
  /\ IF call = "Words" THEN caller' = "open" /\ closer' = "waiting"
                       ELSE UNCHANGED <<caller, closer>>
  /\ UNCHANGED <<call, next, sender, got, cancelled>>

(* wg.Add(1) and the goroutine of the next item. *)
Spawn ==
  /\ spawner = "running" /\ next \in Item
  /\ sender' = [sender EXCEPT ![next] = "offering"]
  /\ next' = next + 1
  /\ UNCHANGED <<call, spawner, closer, caller, got, cancelled>>

(* Bug: a call is not returned from before its goroutines are done. *)
EndSpawnWaiting ==
  /\ spawner = "running" /\ next = N + 1
  /\ \A i \in Item : sender[i] = "done"
  /\ spawner' = "done"
  /\ closer' = "waiting"
  /\ caller' = IF call = "Words" THEN caller ELSE "open"
  /\ UNCHANGED <<call, next, sender, got, cancelled>>

(* The loop ends.  ScanReader and ScanAt start the closer and return. *)
EndSpawn ==
  /\ spawner = "running" /\ next = N + 1
  /\ spawner' = "done"
  /\ closer' = "waiting"
  /\ caller' = IF call = "Words" THEN caller ELSE "open"
  /\ UNCHANGED <<call, next, sender, got, cancelled>>

-------------------------------------------------------------------------------
(* A send meets the receive of the caller. *)
Send(i) ==
  /\ sender[i] = "offering" /\ caller = "open"
  /\ sender' = [sender EXCEPT ![i] = "done"]
  /\ got' = got \cup {i}
  /\ UNCHANGED <<call, next, spawner, closer, caller, cancelled>>

(* Bug: ScanReader gives up like ScanAt. *)
GiveUpAll(i) ==
  /\ sender[i] = "offering" /\ cancelled
  /\ sender' = [sender EXCEPT ![i] = "done"]
  /\ UNCHANGED <<call, next, spawner, closer, caller, got, cancelled>>

(* Bug: ctx is only looked at while the call has not returned. *)
GiveUpWhileCalling(i) ==
  /\ call = "ScanAt" /\ caller = "calling"
  /\ sender[i] = "offering" /\ cancelled
  /\ sender' = [sender EXCEPT ![i] = "done"]
  /\ UNCHANGED <<call, next, spawner, closer, caller, got, cancelled>>

(* The select of ScanAt takes <-ctx.Done(): the phrase is lost. *)
GiveUp(i) ==
  /\ call = "ScanAt"
  /\ sender[i] = "offering" /\ cancelled
  /\ sender' = [sender EXCEPT ![i] = "done"]
  /\ UNCHANGED <<call, next, spawner, closer, caller, got, cancelled>>

(* Bug: the goroutine of Words that starts the others is not counted. *)
WgSenders == \A i \in Item : sender[i] # "offering"

(* The WaitGroup is zero.  In Words it counts the spawner, too. *)
WgZero == spawner = "done" /\ \A i \in Item : sender[i] # "offering"

Close ==
  /\ closer = "waiting" /\ WgZero
  /\ closer' = "done"
  /\ UNCHANGED <<call, next, spawner, sender, caller, got, cancelled>>

EndRange ==
  /\ caller = "open" /\ closer = "done"
  /\ caller' = "drained"
  /\ UNCHANGED <<call, next, spawner, sender, closer, got, cancelled>>

(* A caller that does not want the rest. *)
StopRange ==
  /\ caller = "open"
  /\ caller' = "gone"
  /\ UNCHANGED <<call, next, spawner, sender, closer, got, cancelled>>

(* The owner of ctx cancels it. *)
Cancel ==
  /\ ~cancelled
  /\ cancelled' = TRUE
  /\ UNCHANGED <<call, next, spawner, sender, closer, caller, got>>

Spawner == Fail \/ Begin \/ Spawn \/ EndSpawn

Next ==
  \/ Spawner
  \/ \E i \in Item : Send(i) \/ GiveUp(i)
  \/ Close \/ EndRange \/ StopRange \/ Cancel

Spec == Init /\ [][Next]_vars

(* The goroutines of the call and its caller are scheduled; nobody has to  *)
(* stop ranging or to cancel.                                              *)
Fairness ==
  /\ WF_vars(Spawner)
  /\ \A i \in Item : WF_vars(Send(i) \/ GiveUp(i))
  /\ WF_vars(Close)
  /\ WF_vars(EndRange)

FairSpec == Spec /\ Fairness

-------------------------------------------------------------------------------
Stopped == spawner = "done" /\ closer = "done"

(* No goroutine sends on the closed channel, and none is started later:    *)
(* Words counts its spawner, so that its channel stays open even if all    *)
(* senders so far are done.                                                *)
NoSendOnClosed ==
  closer = "done" => next = N + 1 /\ \A i \in Item : sender[i] = "done"

(* The end of the channel means that everything was received, except that  *)
(* a cancelled ScanAt ends like a complete one.                            *)
DrainedIsComplete ==
  caller = "drained" => got = Item \/ (call = "ScanAt" /\ cancelled)

(* The inductive invariant behind them.                                    *)
Progress ==
  /\ \A i \in Item : sender[i] = "none" <=> i >= next
  /\ \A i \in Item : i \in got => sender[i] = "done"
  /\ \A i \in Item : sender[i] = "done" => i \in got \/ (call = "ScanAt" /\ cancelled)
  /\ spawner = "none" => next = 1 /\ caller \in {"calling", "failed"}
  /\ spawner = "done" => next = N + 1
  /\ closer # "none" <=> IF call = "Words" THEN spawner # "none" ELSE spawner = "done"
  /\ caller \in {"open", "drained", "gone"} <=> closer # "none"
  /\ caller = "failed" => spawner = "none"
  /\ closer = "done" => spawner = "done"
  /\ caller = "drained" => closer = "done"

IInv == TypeOK /\ Progress /\ NoSendOnClosed

(* ScanReader and Words are streams, whatever happens to ctx.  ScanAt is   *)
(* one as well, if a range that ends without all phrases is taken for one  *)
(* that has been given up.                                                 *)
Out == INSTANCE Stream WITH
  items <- Item,
  got   <- got,
  state <- IF caller = "calling" THEN "opening"
           ELSE IF caller = "gone" THEN "open"
           ELSE IF caller # "drained" THEN caller
           ELSE IF call = "ScanAt" /\ got # Item THEN "open" ELSE "closed"

ImplementsStream == Out!Spec

(* A caller that keeps ranging sees every call end.                        *)
RangeEnds ==
  <>(caller \in {"failed", "gone"} \/ (caller = "drained" /\ Stopped))

(* A cancelled ScanAt leaves no goroutine behind, even if its caller has   *)
(* stopped to range: what the select is there for.                         *)
CancelFrees ==
  call = "ScanAt" /\ cancelled ~> caller = "failed" \/ Stopped
===============================================================================
