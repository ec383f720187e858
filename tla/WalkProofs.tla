------------------------------ MODULE WalkProofs ------------------------------
(***************************************************************************)
(* Proofs about pproc.Walk for a tree of any number of entries: its types, *)
(* the inductive invariant IInv of Walk, the safety properties that follow *)
(* from it, and that Walk implements Stream.                               *)
(***************************************************************************)
EXTENDS Walk, TLAPS

USE NAssumption DEF Entry

(* IInv holds initially. *)
LEMMA InitIInv == Init => IInv
<1> SUFFICES ASSUME Init PROVE IInv
  OBVIOUS
<1> USE DEF Init, Kind, ReaderState
<1>1. TypeOK
  <2>1. reader \in [Entry -> ReaderState]
    OBVIOUS
  <2>2. kind \in [Entry -> Kind] /\ next \in 1 .. N + 1
    OBVIOUS
  <2>3. walkErr \in BOOLEAN /\ cancelled \in BOOLEAN
    OBVIOUS
  <2> QED
    BY <2>1, <2>2, <2>3 DEF TypeOK
<1>2. VisitedInOrder
  BY DEF VisitedInOrder
<1>3. ReaderKnows
  BY DEF ReaderKnows
<1>4. Handover
  BY DEF Handover
<1>5. NoSendOnClosed
  BY DEF NoSendOnClosed
<1>6. FailureIsJustified
  BY DEF FailureIsJustified
<1> QED
  BY <1>1, <1>2, <1>3, <1>4, <1>5, <1>6 DEF IInv

(* Every step of the program keeps IInv. *)
LEMMA NextIInv == IInv /\ [Next]_vars => IInv'
<1> SUFFICES ASSUME IInv, [Next]_vars PROVE IInv'
  OBVIOUS
<1> USE DEF IInv, TypeOK, VisitedInOrder, ReaderKnows, Handover,
            NoSendOnClosed, FailureIsJustified, Kind, ReaderState
<1>1. CASE SkipEntry
  BY <1>1 DEF SkipEntry
<1>2. CASE StartReader
  BY <1>2 DEF StartReader
<1>3. CASE AbortWalk
  BY <1>3 DEF AbortWalk
<1>4. CASE FinishWalk
  BY <1>4 DEF FinishWalk
<1>5. CASE SendResult
  BY <1>5 DEF SendResult
<1>6. ASSUME NEW i \in Entry, Read(i) PROVE IInv'
  BY <1>6 DEF Read, AfterRead
<1>7. ASSUME NEW i \in Entry, SendEntry(i) PROVE IInv'
  BY <1>7 DEF SendEntry
<1>8. ASSUME NEW i \in Entry, GiveUp(i) PROVE IInv'
  BY <1>8 DEF GiveUp
<1>9. ASSUME NEW i \in Entry, SendError(i) PROVE IInv'
  BY <1>9 DEF SendError
<1>10. CASE Close
  BY <1>10 DEF Close, WgZero
<1>11. CASE EndRange
  BY <1>11 DEF EndRange
<1>12. CASE Cancel
  BY <1>12 DEF Cancel
<1>13. CASE UNCHANGED vars
  BY <1>13 DEF vars
<1> QED
  BY <1>1, <1>2, <1>3, <1>4, <1>5, <1>6, <1>7, <1>8, <1>9, <1>10, <1>11,
     <1>12, <1>13 DEF Next, Walker, Reader

(* IInv is an invariant of Walk. *)
THEOREM Invariance == Spec => []IInv
<1>1. Init => IInv
  BY InitIInv
<1>2. IInv /\ [Next]_vars => IInv'
  BY NextIInv
<1> QED
  BY <1>1, <1>2, PTL DEF Spec

(* The variables of pproc.Walk keep their types. *)
THEOREM TypeCorrect == Spec => []TypeOK
<1>1. IInv => TypeOK
  BY DEF IInv
<1> QED
  BY <1>1, Invariance, PTL

(* No reader of pproc.Walk ever sends on the closed channel. *)
THEOREM SendsAreSafe == Spec => []NoSendOnClosed
<1>1. IInv => NoSendOnClosed
  BY DEF IInv
<1> QED
  BY <1>1, Invariance, PTL

(* pproc.Walk fails only on an entry with an error or after cancellation. *)
THEOREM FailuresAreJustified == Spec => []FailureIsJustified
<1>1. IInv => FailureIsJustified
  BY DEF IInv
<1> QED
  BY <1>1, Invariance, PTL

(* A reader that has ended has either dropped its file or handed it over,  *)
(* so once c is closed and Walk has not failed, every kept entry has been  *)
(* received and none had an error.                                         *)
LEMMA ClosedIsComplete ==
  ASSUME IInv, closer = "done", caller \in {"open", "drained"}
  PROVE  /\ got = Kept
         /\ \A i \in Entry : kind[i] \notin {"walkerr", "unreadable"}
<1> USE DEF IInv, TypeOK, Kind, ReaderState
<1>1. next = N + 1
  BY DEF Handover, VisitedInOrder
<1>2. \A i \in Entry : i < next /\ reader[i] \in {"none", "done"}
  BY <1>1 DEF Handover, NoSendOnClosed
<1>3. ASSUME NEW i \in Entry
      PROVE  \/ kind[i] \in {"dir", "dropped"} /\ i \notin got
             \/ kind[i] = "kept" /\ i \in got
  BY <1>2 DEF VisitedInOrder, ReaderKnows
<1> QED
  BY <1>3 DEF Kept

(* The end of the channel of pproc.Walk means that nothing was lost. *)
THEOREM DrainsAreComplete == Spec => []DrainedIsComplete
<1>1. IInv => DrainedIsComplete
  BY ClosedIsComplete DEF IInv, Handover, DrainedIsComplete
<1> QED
  BY <1>1, Invariance, PTL

(* Walk and its caller, seen as a stream: the traversal and the readers at *)
(* their files are stutters, the two receives from errc open or fail it,   *)
(* a receive of the range loop delivers, its end ends it.                  *)
LEMMA StepImplementsStream ==
  IInv /\ [Next]_vars => [Out!Next]_(Out!streamVars)
<1> SUFFICES ASSUME IInv, [Next]_vars PROVE [Out!Next]_(Out!streamVars)
  OBVIOUS
<1> USE DEF Out!Next, Out!streamVars, Kept
<1>1. CASE SendResult
  BY <1>1 DEF SendResult, Out!Open, Out!Fail
<1>2. ASSUME NEW i \in Entry, SendError(i) PROVE Out!Fail
  BY <1>2 DEF SendError, Out!Fail
<1>3. ASSUME NEW i \in Entry, SendEntry(i) PROVE Out!Deliver(i) /\ i \in Kept
  BY <1>3 DEF SendEntry, Out!Deliver, IInv, TypeOK, ReaderKnows, Kind, ReaderState
<1>4. CASE EndRange
  <2>1. got = Kept
    BY <1>4, ClosedIsComplete DEF EndRange
  <2> QED
    BY <1>4, <2>1 DEF EndRange, Out!End
<1>5. CASE SkipEntry \/ StartReader \/ AbortWalk \/ FinishWalk \/ Close \/ Cancel
  BY <1>5 DEF SkipEntry, StartReader, AbortWalk, FinishWalk, Close, Cancel
<1>6. ASSUME NEW i \in Entry, Read(i) \/ GiveUp(i) PROVE UNCHANGED Out!streamVars
  BY <1>6 DEF Read, GiveUp
<1>7. CASE UNCHANGED vars
  BY <1>7 DEF vars
<1> QED
  BY <1>1, <1>2, <1>3, <1>4, <1>5, <1>6, <1>7 DEF Next, Walker, Reader

(* pproc.Walk with its caller implements the abstract stream. *)
THEOREM WalkImplementsStream == Spec => ImplementsStream
<1>1. Init => Out!Init
  BY DEF Init, Out!Init
<1>2. IInv /\ [Next]_vars => [Out!Next]_(Out!streamVars)
  BY StepImplementsStream
<1> QED
  BY <1>1, <1>2, Invariance, PTL DEF Spec, ImplementsStream, Out!Spec
===============================================================================
