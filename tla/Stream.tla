-------------------------------- MODULE Stream --------------------------------
(***************************************************************************)
(* What the goroutine pipelines of this program promise to the code that   *)
(* ranges over the channel they return.  A call either fails before it     *)
(* hands out a channel, or it hands one out; every value received from the *)
(* channel is one of the items the call was asked for, no item is received *)
(* twice, and the channel is closed - the range loop ends - only after     *)
(* every item has been received.  Loss is never silent: a stream that      *)
(* cannot deliver everything fails or stays open, it does not end early.   *)
(***************************************************************************)

VARIABLES
  items,   \* the values the call must produce; fixed from the start
  got,     \* the values its consumer has received
  state    \* "opening", "open", "failed" (no channel) or "closed"

streamVars == <<items, got, state>>

StreamTypeOK ==
  /\ got \subseteq items
  /\ state \in {"opening", "open", "failed", "closed"}

Init ==
  /\ got = {}
  /\ state = "opening"

(* The call returns a channel. *)
Open ==
  /\ state = "opening"
  /\ state' = "open"
  /\ UNCHANGED <<items, got>>

(* The call returns an error and no channel. *)
Fail ==
  /\ state = "opening"
  /\ state' = "failed"
  /\ UNCHANGED <<items, got>>

(* The consumer receives one more item. *)
Deliver(x) ==
  /\ state = "open"
  /\ x \in items \ got
  /\ got' = got \cup {x}
  /\ UNCHANGED <<items, state>>

(* The consumer's range loop ends. *)
End ==
  /\ state = "open"
  /\ got = items
  /\ state' = "closed"
  /\ UNCHANGED <<items, got>>

Next == Open \/ Fail \/ (\E x \in items : Deliver(x)) \/ End

Spec == Init /\ [][Next]_streamVars
===============================================================================
