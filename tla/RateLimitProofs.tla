---------------------------- MODULE RateLimitProofs ----------------------------
(***************************************************************************)
(* Proofs about LimitRate for any number of calls and ids: the inductive   *)
(* invariant IInv and the two promises of the limiter that follow from it. *)
(***************************************************************************)
EXTENDS RateLimit, TLAPS

USE IdAssumption

LEMMA InitIInv == Init => IInv
BY DEF Init, IInv, TypeOK, Place, Locked, Accounted, OneFreeCall, TickIsOne, Fresh

(* A step that neither gives a tick to a call nor takes one from it. *)
LEMMA TicksUnchanged ==
  ASSUME IInv, UNCHANGED <<tick, pace>>, NEW r \in Request, NEW p \in Place,
         Goto(r, p), pc[r] # "ticked", p # "ticked"
  PROVE  TickIsOne'
<1>1. \A q \in Request : pc'[q] = "ticked" <=> pc[q] = "ticked"
  BY DEF Goto, IInv, TypeOK
<1>2. Fresh' = Fresh
  BY <1>1 DEF Fresh, pace
<1> QED
  BY <1>2 DEF IInv, TickIsOne

(* What a step that leaves the mutex, the map and the calls without a tick *)
(* alone needs to keep IInv: its place is outside of the critical section. *)
LEMMA StepOutside ==
  ASSUME IInv, NEW r \in Request, NEW p \in {"ticked", "paced", "recording", "panicked"},
         Goto(r, p), pc[r] \in {"new", "waiting", "ticked", "paced"},
         p # "panicked" => id[r] # NoId,
         UNCHANGED <<id, mu, calls, free, delayed>>,
         since' \subseteq Request, tick' \in 0 .. 1, TickIsOne'
  PROVE  IInv'
<1> USE DEF IInv, Goto
<1>1. TypeOK'
  BY DEF TypeOK, Place
<1>2. Locked'
  BY DEF Locked, TypeOK
<1>3. Accounted'
  BY DEF Accounted, Locked, TypeOK
<1> QED
  BY <1>1, <1>2, <1>3 DEF TypeOK, OneFreeCall

(* Every step keeps IInv. *)
LEMMA NextIInv == IInv /\ [Next]_vars => IInv'
<1> SUFFICES ASSUME IInv, [Next]_vars PROVE IInv'
  OBVIOUS
<1> USE DEF IInv, pace
<1>1. ASSUME NEW r \in Request, Refuse(r) PROVE IInv'
  <2>1. TickIsOne'
    BY <1>1, TicksUnchanged DEF Refuse, Place
  <2> QED
    BY <1>1, <2>1, StepOutside DEF Refuse, TypeOK
<1>2. ASSUME NEW r \in Request, Lock(r) PROVE IInv'
  <2>1. TypeOK'
    BY <1>2 DEF Lock, Goto, TypeOK, Place
  <2>2. Locked' /\ Accounted'
    BY <1>2 DEF Lock, Goto, Locked, Accounted, TypeOK
  <2>7. TickIsOne'
    BY <1>2, TicksUnchanged DEF Lock, Place
  <2> QED
    BY <1>2, <2>1, <2>2, <2>7 DEF Lock, Goto, Locked, OneFreeCall, TypeOK
<1>3. ASSUME NEW r \in Request, Found(r) PROVE IInv'
  <2>1. TypeOK'
    BY <1>3 DEF Found, Goto, TypeOK, Place
  <2>2. Locked' /\ Accounted'
    BY <1>3 DEF Found, Goto, Locked, Accounted, TypeOK
  <2>7. TickIsOne'
    BY <1>3, TicksUnchanged DEF Found, Place
  <2> QED
    BY <1>3, <2>1, <2>2, <2>7 DEF Found, Goto, OneFreeCall, TypeOK
<1>4. ASSUME NEW r \in Request, Call(r) PROVE IInv'
  <2>1. mu = r /\ id[r] \in Id /\ free[id[r]] = 0
    BY <1>4 DEF Call, Locked, Accounted, TypeOK
  <2>2. TypeOK'
    BY <1>4, <2>1 DEF Call, Goto, TypeOK, Place
  <2>3. Locked'
    BY <1>4, <2>1 DEF Call, Goto, Locked, TypeOK
  <2>4. Accounted'
    BY <1>4, <2>1 DEF Call, Goto, Locked, Accounted, TypeOK
  <2>5. OneFreeCall'
    BY <1>4, <2>1 DEF Call, OneFreeCall, TypeOK
  <2>6. \A q \in Request : pc'[q] = "first" => id'[q] \notin calls'
    BY <1>4 DEF Call, Goto, TypeOK
  <2>7. TickIsOne'
    BY <1>4, TicksUnchanged DEF Call, Place
  <2> QED
    BY <1>4, <2>2, <2>3, <2>4, <2>5, <2>6, <2>7 DEF Call
<1>5. ASSUME NEW r \in Request, Return(r) PROVE IInv'
  <2>1. mu = r /\ id[r] \in Id
    BY <1>5 DEF Return, Locked, TypeOK
  <2>2. TypeOK'
    BY <1>5, <2>1 DEF Return, Goto, TypeOK, Place
  <2>3. Locked' /\ Accounted'
    BY <1>5, <2>1 DEF Return, Goto, Locked, Accounted, TypeOK
  <2>4. \A q \in Request : pc'[q] # "first"
    BY <1>5, <2>1 DEF Return, Goto, Locked, TypeOK
  <2>7. TickIsOne'
    BY <1>5, TicksUnchanged DEF Return, Place
  <2> QED
    BY <1>5, <2>2, <2>3, <2>4, <2>7 DEF Return, OneFreeCall
<1>6. ASSUME NEW r \in Request, Panic(r) PROVE IInv'
  <2>1. mu = r
    BY <1>6 DEF Panic, Locked
  <2>2. TypeOK'
    BY <1>6 DEF Panic, Goto, TypeOK, Place
  <2>3. Locked' /\ Accounted'
    BY <1>6, <2>1 DEF Panic, Goto, Locked, Accounted, TypeOK
  <2>7. TickIsOne'
    BY <1>6, TicksUnchanged DEF Panic, Place
  <2> QED
    BY <1>6, <2>2, <2>3, <2>7 DEF Panic, Goto, OneFreeCall, TypeOK
<1>7. ASSUME NEW r \in Request, TakeTick(r) PROVE IInv'
  <2>1. tick = 1 /\ tick' = 0 /\ Fresh = {}
    BY <1>7 DEF TakeTick, TypeOK, TickIsOne
  <2>2. Fresh' \subseteq {r}
    <3>1. \A q \in Request : pc'[q] = "ticked" => q = r \/ pc[q] = "ticked"
      BY <1>7 DEF TakeTick, Goto, TypeOK
    <3> QED
      BY <1>7, <2>1, <3>1 DEF TakeTick, Fresh, TypeOK
  <2>3. TickIsOne'
    BY <2>1, <2>2 DEF TickIsOne
  <2>4. id[r] # NoId
    BY <1>7 DEF TakeTick, Locked
  <2> QED
    BY <1>7, <2>1, <2>3, <2>4, StepOutside DEF TakeTick, TypeOK
<1>8. ASSUME NEW r \in Request, ReturnPaced(r) \/ PanicPaced(r) PROVE IInv'
  <2>1. TickIsOne'
    BY <1>8, TicksUnchanged DEF ReturnPaced, PanicPaced, Place
  <2>2. id[r] # NoId
    BY <1>8 DEF ReturnPaced, PanicPaced, Locked
  <2> QED
    BY <1>8, <2>1, <2>2, StepOutside DEF ReturnPaced, PanicPaced, TypeOK
<1>9. ASSUME NEW r \in Request, Record(r) PROVE IInv'
  <2>1. id[r] \in Id /\ mu = Nobody
    BY <1>9 DEF Record, Locked, TypeOK
  <2>2. TypeOK'
    BY <1>9, <2>1 DEF Record, Goto, TypeOK, Place
  <2>3. Locked' /\ Accounted'
    BY <1>9, <2>1 DEF Record, Goto, Locked, Accounted, TypeOK
  <2>4. \A q \in Request : pc'[q] # "first"
    BY <1>9, <2>1 DEF Record, Goto, Locked, TypeOK
  <2>7. TickIsOne'
    BY <1>9, TicksUnchanged DEF Record, Place
  <2> QED
    BY <1>9, <2>2, <2>3, <2>4, <2>7 DEF Record, OneFreeCall
<1>10. ASSUME NEW r \in Request, CallPaced(r) PROVE IInv'
  <2>1. \A q \in Request : pc'[q] = "ticked" <=> q # r /\ pc[q] = "ticked"
    BY <1>10 DEF CallPaced, Goto, TypeOK
  <2>2. Fresh' = Fresh
    BY <1>10, <2>1 DEF CallPaced, Fresh
  <2>3. TickIsOne'
    BY <1>10, <2>2 DEF CallPaced, TickIsOne
  <2>4. id[r] # NoId
    BY <1>10 DEF CallPaced, Locked
  <2> QED
    BY <1>10, <2>3, <2>4, StepOutside DEF CallPaced, TypeOK
<1>11. CASE Tick
  <2>1. Fresh' = {}
    BY <1>11 DEF Tick, Fresh
  <2>2. TypeOK'
    BY <1>11 DEF Tick, TypeOK
  <2> QED
    BY <1>11, <2>1, <2>2 DEF Tick, TickIsOne, Locked, Accounted, OneFreeCall
<1>12. CASE UNCHANGED vars
  BY <1>12 DEF vars, TypeOK, Locked, Accounted, OneFreeCall, TickIsOne, Fresh
<1> QED
  BY <1>1, <1>2, <1>3, <1>4, <1>5, <1>6, <1>7, <1>8, <1>9, <1>10, <1>11, <1>12
  DEF Next, Serve

(* IInv is an invariant of the limiter, its types included. *)
THEOREM RateLimitInvariance == Spec => []IInv
<1>1. Init => IInv
  BY InitIInv
<1>2. IInv /\ [Next]_vars => IInv'
  BY NextIInv
<1> QED
  BY <1>1, <1>2, PTL DEF Spec

(* No id gets a second call without a tick, however many of its calls race *)
(* for the mutex.                                                          *)
THEOREM FreeCallsAreOnce == Spec => []OneFreeCall
<1>1. IInv => OneFreeCall
  BY DEF IInv
<1> QED
  BY <1>1, RateLimitInvariance, PTL

(* Of the paced calls that begin between two ticks, at most one has        *)
(* received its tick in that time.                                         *)
THEOREM CallsArePaced == Spec => []PacedByTicks
<1>1. IInv => PacedByTicks
  BY DEF IInv, TickIsOne, Fresh, PacedByTicks
<1> QED
  BY <1>1, RateLimitInvariance, PTL
===============================================================================
