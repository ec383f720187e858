----------------------------- MODULE LinesProofs -----------------------------
(***************************************************************************)
(* Proofs about ScanLines and ScanDir for any number of texts and lines:   *)
(* the inductive invariant IInv, the safety properties that follow, and    *)
(* that both calls are streams of their texts as long as no line is too    *)
(* long for the scanner.                                                   *)
(***************************************************************************)
EXTENDS Lines, TLAPS

USE LinesAssumption

(* IInv holds before the call has done anything. *)
LEMMA InitIInv == Init => IInv
BY DEF Init, IInv, TypeOK, Progress, InOrder, NoSendOnClosed

(* Every step of the goroutines and of the caller keeps IInv. *)
LEMMA NextIInv == IInv /\ [Next]_vars => IInv'
<1> SUFFICES ASSUME IInv, [Next]_vars PROVE IInv'
  OBVIOUS
<1> USE DEF IInv, TypeOK, Progress, InOrder, NoSendOnClosed, input, Scan
<1>1. CASE Start
  BY <1>1 DEF Start
<1>2. CASE Fail
  BY <1>2 DEF Fail
<1>3. CASE Return
  BY <1>3 DEF Return
<1>4. ASSUME NEW t \in Text, Pass(t) PROVE IInv'
  <2>1. pos[t] \in 0 .. Max /\ lines[t] \in 0 .. Max /\ long[t] \in 1 .. Max + 1
    OBVIOUS
  <2>2. pos[t] + 1 <= lines[t] /\ pos[t] + 1 < long[t] /\ source[t] = "open"
    BY <1>4, <2>1 DEF Pass
  <2>3. TypeOK'
    BY <1>4, <2>1, <2>2 DEF Pass
  <2>4. Progress'
    <3>1. ASSUME NEW u \in Text, u # t
          PROVE  pos'[u] = pos[u] /\ forwarder'[u] = forwarder[u]
      BY <1>4, <3>1 DEF Pass
    <3>2. pos'[t] = pos[t] + 1 /\ forwarder'[t] = "sending" /\ source'[t] = "open"
      BY <1>4, <2>2 DEF Pass
    <3>3. UNCHANGED <<lines, long, source, closer, caller, got>> /\ closer # "none"
      BY <1>4 DEF Pass
    <3> QED
      BY <2>1, <2>2, <3>1, <3>2, <3>3
  <2>5. InOrder' /\ NoSendOnClosed'
    BY <1>4, <2>1, <2>2 DEF Pass
  <2> QED
    BY <2>3, <2>4, <2>5
<1>5. ASSUME NEW t \in Text, EndScan(t) PROVE IInv'
  BY <1>5 DEF EndScan
<1>6. ASSUME NEW t \in Text, Send(t) PROVE IInv'
  BY <1>6 DEF Send
<1>7. ASSUME NEW t \in Text, Done(t) PROVE IInv'
  BY <1>7 DEF Done
<1>8. CASE Close
  BY <1>8 DEF Close, WgZero
<1>9. CASE EndRange
  BY <1>9 DEF EndRange
<1>10. CASE UNCHANGED vars
  BY <1>10 DEF vars
<1> QED
  BY <1>1, <1>2, <1>3, <1>4, <1>5, <1>6, <1>7, <1>8, <1>9, <1>10
  DEF Next, Forward

(* IInv is an invariant of ScanLines and ScanDir. *)
THEOREM LinesInvariance == Spec => []IInv
<1>1. Init => IInv
  BY InitIInv
<1>2. IInv /\ [Next]_vars => IInv'
  BY NextIInv
<1> QED
  BY <1>1, <1>2, PTL DEF Spec

(* The variables of the two calls keep their types. *)
THEOREM LinesTypeCorrect == Spec => []TypeOK
<1>1. IInv => TypeOK
  BY DEF IInv
<1> QED
  BY <1>1, LinesInvariance, PTL

(* The channel is closed behind the last line of the last text. *)
THEOREM LinesSendsAreSafe == Spec => []NoSendOnClosed
<1>1. IInv => NoSendOnClosed
  BY DEF IInv
<1> QED
  BY <1>1, LinesInvariance, PTL

(* The lines of each text arrive in order and without gaps. *)
THEOREM LinesArriveInOrder == Spec => []InOrder
<1>1. IInv => InOrder
  BY DEF IInv
<1> QED
  BY <1>1, LinesInvariance, PTL

(* A closed channel has delivered all lines before the long ones. *)
LEMMA ClosedIsComplete ==
  ASSUME IInv, closer = "done"
  PROVE  \A l \in Line : l \in got \/ long[l[1]] <= l[2]
<1>1. \A t \in Text : forwarder[t] = "done" /\ ~Scan(t)
  BY DEF IInv, NoSendOnClosed, Progress
<1>2. ASSUME NEW t \in Text, NEW i \in 1 .. Max, i <= lines[t], ~(long[t] <= i)
      PROVE  <<t, i>> \in got
  <2>1. <<t, i>> \in got <=> i <= pos[t]
    BY <1>1 DEF IInv, TypeOK, InOrder
  <2>2. pos[t] = lines[t] \/ pos[t] + 1 = long[t]
    BY <1>1 DEF Scan, IInv, TypeOK, Progress
  <2> QED
    BY <1>2, <2>1, <2>2 DEF IInv, TypeOK, Progress
<1> QED
  BY <1>2 DEF Line

(* What has not been received when the range ends is at or behind a long   *)
(* line.                                                                   *)
THEOREM LinesDrainCompletely == Spec => []DrainedIsComplete
<1>1. IInv => DrainedIsComplete
  BY ClosedIsComplete DEF DrainedIsComplete, IInv, Progress
<1> QED
  BY <1>1, LinesInvariance, PTL

(* Has no text a line that is too long. *)
AllFit == \A t \in Text : lines[t] < long[t]

(* The steps of the calls as steps of a stream, if all lines fit: a return *)
(* opens it, a send delivers a line that is new, the end of the range ends *)
(* it, and all else stutters.                                              *)
LEMMA StepImplementsStream ==
  ASSUME IInv, AllFit, [Next]_vars
  PROVE  [Out!Next]_(Out!streamVars) /\ AllFit'
<1> USE DEF Out!Next, Out!streamVars, input, Line
<1>1. CASE Start
  BY <1>1 DEF Start, AllFit
<1>2. CASE Fail
  BY <1>2 DEF Fail, Out!Fail, AllFit
<1>3. CASE Return
  BY <1>3 DEF Return, Out!Open, AllFit
<1>4. ASSUME NEW t \in Text, Send(t) PROVE Out!Next /\ AllFit'
  <2>1. pos[t] \in 1 .. Max /\ pos[t] <= lines[t]
    BY <1>4 DEF Send, IInv, TypeOK, Progress
  <2>2. <<t, pos[t]>> \in Line
    BY <2>1
  <2>3. <<t, pos[t]>> \notin got
    BY <1>4 DEF Send, IInv, TypeOK, InOrder
  <2>4. Out!Deliver(<<t, pos[t]>>)
    BY <1>4, <2>2, <2>3 DEF Send, Out!Deliver
  <2>5. AllFit'
    BY <1>4 DEF Send, AllFit
  <2> QED
    BY <2>2, <2>4, <2>5
<1>5. ASSUME NEW t \in Text, Pass(t) \/ EndScan(t) \/ Done(t)
      PROVE UNCHANGED Out!streamVars /\ AllFit'
  BY <1>5 DEF Pass, EndScan, Done, AllFit
<1>6. CASE Close
  BY <1>6 DEF Close, AllFit
<1>7. CASE EndRange
  <2>1. \A l \in Line : l \in got
    <3>1. \A l \in Line : l \in got \/ long[l[1]] <= l[2]
      BY <1>7, ClosedIsComplete DEF EndRange
    <3>2. \A l \in Line : ~(long[l[1]] <= l[2])
      BY DEF AllFit, IInv, TypeOK
    <3> QED
      BY <3>1, <3>2
  <2>2. got \subseteq Line
    <3>1. ASSUME NEW t \in Text, NEW i \in 1 .. Max, <<t, i>> \in got PROVE i <= lines[t]
      BY <3>1 DEF IInv, TypeOK, InOrder, Progress
    <3> QED
      BY <3>1 DEF IInv, TypeOK
  <2>3. got = Line
    BY <2>1, <2>2
  <2> QED
    BY <1>7, <2>3 DEF EndRange, Out!End, AllFit
<1>8. CASE UNCHANGED vars
  BY <1>8 DEF vars, AllFit
<1> QED
  BY <1>1, <1>2, <1>3, <1>4, <1>5, <1>6, <1>7, <1>8 DEF Next, Forward

(* ScanLines and ScanDir implement Stream if all lines of their texts fit; *)
(* with a line that does not, they do not.                                 *)
THEOREM LinesImplementStream == Spec /\ AllFit => ImplementsStream
<1>1. Init => Out!Init
  BY DEF Init, Out!Init
<1>2. IInv /\ AllFit /\ [Next]_vars => [Out!Next]_(Out!streamVars) /\ AllFit'
  BY StepImplementsStream
<1> QED
  BY <1>1, <1>2, LinesInvariance, PTL DEF Spec, ImplementsStream, Out!Spec
===============================================================================
