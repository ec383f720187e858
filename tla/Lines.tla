-------------------------------- MODULE Lines --------------------------------
(***************************************************************************)
(* The two calls that have one goroutine per text: textproc.ScanLines,     *)
(* which forwards the lines of each text from a doScan of its own, and     *)
(* picphrase.ScanDir, which first runs the OCR and then forwards the lines *)
(* of each text from a ScanLines of its own (for one text, a channel like  *)
(* that of doScan).  All goroutines send on one unbuffered channel; a last *)
(* one closes it when the WaitGroup of the forwarders is zero.  The        *)
(* callers range over the channel until it is closed.                      *)
(***************************************************************************)
EXTENDS Naturals

CONSTANTS
  Text,   \* the texts; one for the callers of ScanLines in the program
  Max     \* the most lines a text has

ASSUME LinesAssumption == Max \in Nat

VARIABLES
  call,      \* which of the two calls it is
  lines,     \* how many lines each text has
  long,      \* the first line over 64 KB, none if there are fewer lines
  pos,       \* how many of them doScan has passed on
  source,    \* doScan's channel of each text: "open" or "closed"
  forwarder, \* the goroutine of each text, which holds line pos when "sending"
  closer,    \* the goroutine that closes the channel
  caller,    \* "calling", "started", "open" (ranges), "failed", "drained"
  got        \* the lines the caller has received

input == <<call, lines, long>>
vars  == <<input, pos, source, forwarder, closer, caller, got>>

(* The lines of the texts, line i of text t being <<t, i>>. *)
Line == {l \in Text \X (1 .. Max) : l[2] <= lines[l[1]]}

TypeOK ==
  /\ call \in {"ScanLines", "ScanDir"}
  /\ lines \in [Text -> 0 .. Max]
  /\ long \in [Text -> 1 .. Max + 1]
  /\ pos \in [Text -> 0 .. Max]
  /\ source \in [Text -> {"open", "closed"}]
  /\ forwarder \in [Text -> {"none", "receiving", "sending", "done"}]
  /\ closer \in {"none", "waiting", "done"}
  /\ caller \in {"calling", "started", "open", "failed", "drained"}
  /\ got \subseteq Text \X (1 .. Max)

Init ==
  /\ call \in {"ScanLines", "ScanDir"}
  /\ lines \in [Text -> 0 .. Max]
  /\ long \in [Text -> 1 .. Max + 1]
  /\ pos = [t \in Text |-> 0]
  /\ source = [t \in Text |-> "open"]
  /\ forwarder = [t \in Text |-> "none"]
  /\ closer = "none"
  /\ caller = "calling"
  /\ got = {}

(* The texts are there: wg.Add(1) and a goroutine for each, and the        *)
(* closer.  ScanDir has called ocr.ScanDir before, which may as well fail, *)
(* or never return: see Walk.                                              *)
Start ==
  /\ caller = "calling"
  /\ caller' = "started"
  /\ forwarder' = [t \in Text |-> "receiving"]
  /\ closer' = "waiting"
  /\ UNCHANGED <<input, pos, source, got>>

(* ocr.ScanDir, or the os.Stat before it, fails. *)
Fail ==
  /\ call = "ScanDir"
  /\ caller = "calling"
  /\ caller' = "failed"
  /\ UNCHANGED <<input, pos, source, forwarder, closer, got>>

Return ==
  /\ caller = "started"
  /\ caller' = "open"
  /\ UNCHANGED <<input, pos, source, forwarder, closer, got>>

-------------------------------------------------------------------------------
(* buf.Scan(): is there a next line, and does it fit?  Nobody asks buf.Err *)
(* which of the two it was.                                                *)
Scan(t) == pos[t] < lines[t] /\ pos[t] + 1 # long[t]

(* doScan's out <- s meets the receive of the forwarder. *)
Pass(t) ==
  /\ forwarder[t] = "receiving" /\ Scan(t)
  /\ pos' = [pos EXCEPT ![t] = @ + 1]
  /\ forwarder' = [forwarder EXCEPT ![t] = "sending"]
  /\ UNCHANGED <<input, source, closer, caller, got>>

(* Bug: out is closed inside the loop, behind the last line. *)
EndScanInLoop(t) ==
  /\ source[t] = "open" /\ forwarder[t] # "none" /\ ~Scan(t)
  /\ pos[t] > 0
  /\ source' = [source EXCEPT ![t] = "closed"]
  /\ UNCHANGED <<input, pos, forwarder, closer, caller, got>>

(* buf.Scan() is false, be it for a long line: out is closed. *)
EndScan(t) ==
  /\ source[t] = "open" /\ forwarder[t] # "none" /\ ~Scan(t)
  /\ source' = [source EXCEPT ![t] = "closed"]
  /\ UNCHANGED <<input, pos, forwarder, closer, caller, got>>

(* Bug: a select with a default drops the line when nobody receives. *)
SendOrDrop(t) ==
  /\ forwarder[t] = "sending"
  /\ forwarder' = [forwarder EXCEPT ![t] = "receiving"]
  /\ got' = IF caller = "open" THEN got \cup {<<t, pos[t]>>} ELSE got
  /\ UNCHANGED <<input, pos, source, closer, caller>>

(* The forwarder's send meets the receive of the caller. *)
Send(t) ==
  /\ forwarder[t] = "sending" /\ caller = "open"
  /\ forwarder' = [forwarder EXCEPT ![t] = "receiving"]
  /\ got' = got \cup {<<t, pos[t]>>}
  /\ UNCHANGED <<input, pos, source, closer, caller>>

(* The forwarder's loop ends at the closed source: wg.Done(). *)
Done(t) ==
  /\ forwarder[t] = "receiving" /\ source[t] = "closed"
  /\ forwarder' = [forwarder EXCEPT ![t] = "done"]
  /\ UNCHANGED <<input, pos, source, closer, caller, got>>

Forward(t) == Pass(t) \/ EndScan(t) \/ Send(t) \/ Done(t)

(* Bug: one Done, of any forwarder, is enough. *)
WgOne == \E t \in Text : forwarder[t] = "done"

WgZero == \A t \in Text : forwarder[t] = "done"

Close ==
  /\ closer = "waiting" /\ WgZero
  /\ closer' = "done"
  /\ UNCHANGED <<input, pos, source, forwarder, caller, got>>

EndRange ==
  /\ caller = "open" /\ closer = "done"
  /\ caller' = "drained"
  /\ UNCHANGED <<input, pos, source, forwarder, closer, got>>

Next ==
  \/ Start \/ Fail \/ Return
  \/ \E t \in Text : Forward(t)
  \/ Close \/ EndRange

Spec == Init /\ [][Next]_vars

(* All goroutines are scheduled, and the caller keeps ranging; but nothing *)
(* makes ocr.ScanDir return.                                               *)
Fairness ==
  /\ WF_vars(call = "ScanLines" /\ Start)
  /\ WF_vars(Return)
  /\ \A t \in Text : WF_vars(Pass(t) \/ Send(t) \/ Done(t)) /\ WF_vars(EndScan(t))
  /\ WF_vars(Close)
  /\ WF_vars(EndRange)

FairSpec == Spec /\ Fairness

-------------------------------------------------------------------------------
(* No forwarder sends on the closed channel, and no line is behind it.     *)
NoSendOnClosed ==
  closer = "done" => \A t \in Text : forwarder[t] = "done" /\ source[t] = "closed"

(* The lines of a text are received in their order and none is missing in  *)
(* between: all that have been passed on, but for the one being sent.      *)
InOrder ==
  \A t \in Text, i \in 1 .. Max :
     <<t, i>> \in got <=> i < pos[t] \/ (i = pos[t] /\ forwarder[t] # "sending")

(* The inductive invariant behind them.                                    *)
Progress ==
  /\ \A t \in Text : /\ pos[t] <= lines[t] /\ pos[t] < long[t]
                     /\ source[t] = "closed" => ~Scan(t)
                     /\ forwarder[t] = "done" => source[t] = "closed"
                     /\ forwarder[t] = "none" => pos[t] = 0 /\ source[t] = "open"
                     /\ forwarder[t] = "sending" => pos[t] > 0
                     /\ forwarder[t] = "none" <=> closer = "none"
  /\ closer = "none" <=> caller \in {"calling", "failed"}
  /\ got # {} => caller \in {"open", "drained"}
  /\ caller = "drained" => closer = "done"

IInv == TypeOK /\ Progress /\ InOrder /\ NoSendOnClosed

(* When the range ends, every line has been received that is not at or     *)
(* behind a long one: no line is lost to the closer or to another text.    *)
DrainedIsComplete ==
  caller = "drained" => \A l \in Line : l \in got \/ long[l[1]] <= l[2]

(* scan_lines.go:27, "receives lines of the texts": each call is a stream  *)
(* of all lines of its texts, and does not end as if it were complete when *)
(* some are missing.                                                       *)
Out == INSTANCE Stream WITH
  items <- Line,
  got   <- got,
  state <- IF caller \in {"calling", "started"} THEN "opening"
           ELSE IF caller = "drained" THEN "closed" ELSE caller

ImplementsStream == Out!Spec

Ended ==
  \/ caller = "failed"
  \/ caller = "drained" /\ closer = "done" /\ \A t \in Text : forwarder[t] = "done"

(* Every call of ScanLines ends, every call of ScanDir does behind its     *)
(* OCR, and no goroutine is left of it.                                    *)
AllEnds == call = "ScanLines" \/ caller # "calling" ~> Ended
===============================================================================
