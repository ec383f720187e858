---------------------------- MODULE PhrasesProofs ----------------------------
(***************************************************************************)
(* Proofs about the calls that start one goroutine per phrase or word, for *)
(* any number of them: the inductive invariant IInv, the safety properties *)
(* that follow, and that they implement Stream.                            *)
(***************************************************************************)
EXTENDS Phrases, TLAPS

USE PhrasesAssumption DEF Item, Call

(* IInv holds before the call has done anything. *)
LEMMA InitIInv == Init => IInv
<1> SUFFICES ASSUME Init PROVE IInv
  OBVIOUS
<1>1. TypeOK
  <2>1. next \in 1 .. N + 1 /\ got \subseteq Item
    BY DEF Init
  <2>2. sender \in [Item -> {"none", "offering", "done"}]
    BY DEF Init
  <2> QED
    BY <2>1, <2>2 DEF Init, TypeOK
<1>2. Progress
  BY DEF Init, Progress
<1> QED
  BY <1>1, <1>2 DEF Init, IInv, NoSendOnClosed

(* Every step of the goroutines, of the caller and of ctx keeps IInv. *)
LEMMA NextIInv == IInv /\ [Next]_vars => IInv'
<1> SUFFICES ASSUME IInv, [Next]_vars PROVE IInv'
  OBVIOUS
<1> USE DEF IInv, TypeOK, Progress, NoSendOnClosed
<1>1. CASE Fail
  BY <1>1 DEF Fail
<1>2. CASE Begin
  BY <1>2 DEF Begin
<1>3. CASE Spawn
  BY <1>3 DEF Spawn
<1>4. CASE EndSpawn
  BY <1>4 DEF EndSpawn
<1>5. ASSUME NEW i \in Item, Send(i) PROVE IInv'
  BY <1>5 DEF Send
<1>6. ASSUME NEW i \in Item, GiveUp(i) PROVE IInv'
  BY <1>6 DEF GiveUp
<1>7. CASE Close
  BY <1>7 DEF Close, WgZero
<1>8. CASE EndRange
  BY <1>8 DEF EndRange
<1>9. CASE Cancel \/ StopRange
  BY <1>9 DEF Cancel, StopRange
<1>10. CASE UNCHANGED vars
  BY <1>10 DEF vars
<1> QED
  BY <1>1, <1>2, <1>3, <1>4, <1>5, <1>6, <1>7, <1>8, <1>9, <1>10
  DEF Next, Spawner

(* IInv is an invariant of ScanReader, ScanAt and Words. *)
THEOREM PhrasesInvariance == Spec => []IInv
<1>1. Init => IInv
  BY InitIInv
<1>2. IInv /\ [Next]_vars => IInv'
  BY NextIInv
<1> QED
  BY <1>1, <1>2, PTL DEF Spec

(* The variables of the three calls keep their types. *)
THEOREM PhrasesTypeCorrect == Spec => []TypeOK
<1>1. IInv => TypeOK
  BY DEF IInv
<1> QED
  BY <1>1, PhrasesInvariance, PTL

(* The WaitGroup keeps the channel open until the last goroutine, also     *)
(* where Words starts goroutines while others are already done.            *)
THEOREM PhrasesSendsAreSafe == Spec => []NoSendOnClosed
<1>1. IInv => NoSendOnClosed
  BY DEF IInv
<1> QED
  BY <1>1, PhrasesInvariance, PTL

(* A closed channel has delivered what no cancelled ScanAt has given up. *)
LEMMA ClosedIsComplete ==
  ASSUME IInv, closer = "done"
  PROVE  got = Item \/ (call = "ScanAt" /\ cancelled)
<1>1. \A i \in Item : sender[i] = "done"
  BY DEF IInv, NoSendOnClosed
<1> QED
  BY <1>1 DEF IInv, TypeOK, Progress

(* The end of the range means that everything was received, unless ScanAt  *)
(* was cancelled.                                                          *)
THEOREM PhrasesDrainsAreComplete == Spec => []DrainedIsComplete
<1>1. IInv => DrainedIsComplete
  BY ClosedIsComplete DEF IInv, Progress, DrainedIsComplete
<1> QED
  BY <1>1, PhrasesInvariance, PTL

(* The steps of the calls as steps of a stream: the return of the call     *)
(* opens or fails it, a send delivers, the end of a complete range ends    *)
(* it; starting goroutines and giving up stutter.                          *)
LEMMA StepImplementsStream ==
  ASSUME IInv, [Next]_vars
  PROVE  [Out!Next]_(Out!streamVars)
<1> USE DEF Out!Next, Out!streamVars, IInv, TypeOK
<1>1. CASE Fail
  BY <1>1 DEF Fail, Out!Fail
<1>2. CASE Begin
  BY <1>2 DEF Begin, Out!Open
<1>3. CASE Spawn
  BY <1>3 DEF Spawn
<1>4. CASE EndSpawn
  BY <1>4 DEF EndSpawn, Out!Open, Progress
<1>5. ASSUME NEW i \in Item, Send(i) PROVE Out!Deliver(i)
  BY <1>5 DEF Send, Out!Deliver, Progress
<1>6. ASSUME NEW i \in Item, GiveUp(i) PROVE UNCHANGED Out!streamVars
  BY <1>6 DEF GiveUp
<1>7. CASE Close
  BY <1>7 DEF Close
<1>8. CASE EndRange
  <2>1. got = Item \/ (call = "ScanAt" /\ cancelled)
    BY <1>8, ClosedIsComplete DEF EndRange
  <2> QED
    BY <1>8, <2>1 DEF EndRange, Out!End
<1>9. CASE Cancel \/ StopRange \/ UNCHANGED vars
  BY <1>9 DEF Cancel, StopRange, vars
<1> QED
  BY <1>1, <1>2, <1>3, <1>4, <1>5, <1>6, <1>7, <1>8, <1>9 DEF Next, Spawner

(* ScanReader and Words implement Stream, and so does ScanAt, up to being  *)
(* given up.                                                               *)
THEOREM PhrasesImplementStream == Spec => ImplementsStream
<1>1. Init => Out!Init
  BY DEF Init, Out!Init
<1>2. IInv /\ [Next]_vars => [Out!Next]_(Out!streamVars)
  BY StepImplementsStream
<1> QED
  BY <1>1, <1>2, PhrasesInvariance, PTL DEF Spec, ImplementsStream, Out!Spec
===============================================================================
