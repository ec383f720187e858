------------------------------- MODULE RateLimit -------------------------------
(***************************************************************************)
(* middleware.LimitRate: the first call of an id goes to the handler at    *)
(* once, under the mutex; then this and every other call waits for a tick, *)
(* one for all ids, and goes to the handler (again).  The mutex is not     *)
(* released by a defer, and net/http recovers from a handler that panics.  *)
(***************************************************************************)
EXTENDS Naturals

CONSTANTS
  Request,
  Id,     \* the ids a request's context may hold
  NoId,   \* the context holds none
  Nobody  \* no request holds the mutex

ASSUME IdAssumption == NoId \notin Id /\ Nobody \notin Request

VARIABLES
  id,     \* the id of each request
  pc,     \* where its call is, see Place
  mu,     \* who holds the mutex
  calls,  \* the ids in the map
  tick,   \* is there a tick in the channel, which has room for one
  free,   \* how often the handler was called for an id without a tick
  since,  \* the calls that began it with a tick since the clock last ticked
  delayed \* the calls that held a tick then and had not begun it yet

pace == <<since, delayed>>
vars == <<id, pc, mu, calls, tick, free, pace>>

Place == {"new", "deciding", "first", "waiting", "ticked", "paced", "recording",
          "done", "panicked"}

TypeOK ==
  /\ id \in [Request -> Id \cup {NoId}]
  /\ pc \in [Request -> Place]
  /\ mu \in Request \cup {Nobody}
  /\ calls \subseteq Id
  /\ tick \in 0 .. 1
  /\ free \in [Id -> Nat]
  /\ since \subseteq Request /\ delayed \subseteq Request

Init ==
  /\ id \in [Request -> Id \cup {NoId}]
  /\ pc = [r \in Request |-> "new"]
  /\ mu = Nobody
  /\ calls = {}
  /\ tick = 0
  /\ free = [i \in Id |-> 0]
  /\ since = {} /\ delayed = {}

Goto(r, p) == pc' = [pc EXCEPT ![r] = p]

-------------------------------------------------------------------------------
(* The context has no id: the call panics before it touches anything. *)
Refuse(r) ==
  /\ pc[r] = "new" /\ id[r] = NoId
  /\ Goto(r, "panicked")
  /\ UNCHANGED <<id, mu, calls, tick, free, pace>>

Lock(r) ==
  /\ pc[r] = "new" /\ id[r] # NoId /\ mu = Nobody
  /\ Goto(r, "deciding")
  /\ mu' = r
  /\ UNCHANGED <<id, calls, tick, free, pace>>

(* Bug: the mutex is only released behind a first call. *)
FoundWithoutUnlock(r) ==
  /\ pc[r] = "deciding" /\ id[r] \in calls
  /\ Goto(r, "waiting")
  /\ UNCHANGED <<id, mu, calls, tick, free, pace>>

Found(r) ==
  /\ pc[r] = "deciding" /\ id[r] \in calls
  /\ Goto(r, "waiting")
  /\ mu' = Nobody
  /\ UNCHANGED <<id, calls, tick, free, pace>>

(* Bug: the handler is not called under the mutex. *)
CallUnlocked(r) ==
  /\ pc[r] = "deciding" /\ id[r] \notin calls
  /\ Goto(r, "first")
  /\ mu' = Nobody
  /\ free' = [free EXCEPT ![id[r]] = @ + 1]
  /\ UNCHANGED <<id, calls, tick, pace>>

(* !found: h(w, r) under the mutex. *)
Call(r) ==
  /\ pc[r] = "deciding" /\ id[r] \notin calls
  /\ Goto(r, "first")
  /\ free' = [free EXCEPT ![id[r]] = @ + 1]
  /\ UNCHANGED <<id, mu, calls, tick, pace>>

(* It returns: calls[id] = time.Now(), mu.Unlock(). *)
Return(r) ==
  /\ pc[r] = "first"
  /\ Goto(r, "waiting")
  /\ calls' = calls \cup {id[r]}
  /\ mu' = Nobody
  /\ UNCHANGED <<id, tick, free, pace>>

(* It panics, and the mutex stays locked. *)
Panic(r) ==
  /\ pc[r] = "first"
  /\ Goto(r, "panicked")
  /\ UNCHANGED <<id, mu, calls, tick, free, pace>>

(* Bug: a select with a default goes on when there is no tick. *)
TakeTickOrNone(r) ==
  /\ pc[r] = "waiting"
  /\ Goto(r, "ticked")
  /\ tick' = 0
  /\ UNCHANGED <<id, mu, calls, free, pace>>

(* next := <-tick.  Time may pass before the goroutine goes on. *)
TakeTick(r) ==
  /\ pc[r] = "waiting" /\ tick > 0
  /\ Goto(r, "ticked")
  /\ tick' = tick - 1
  /\ UNCHANGED <<id, mu, calls, free, pace>>

(* h(w, r) begins (again). *)
CallPaced(r) ==
  /\ pc[r] = "ticked"
  /\ Goto(r, "paced")
  /\ since' = since \cup {r}
  /\ UNCHANGED <<id, mu, calls, tick, free, delayed>>

ReturnPaced(r) ==
  /\ pc[r] = "paced"
  /\ Goto(r, "recording")
  /\ UNCHANGED <<id, mu, calls, tick, free, pace>>

PanicPaced(r) ==
  /\ pc[r] = "paced"
  /\ Goto(r, "panicked")
  /\ UNCHANGED <<id, mu, calls, tick, free, pace>>

(* mu.Lock(), calls[id] = next, mu.Unlock(). *)
Record(r) ==
  /\ pc[r] = "recording" /\ mu = Nobody
  /\ Goto(r, "done")
  /\ calls' = calls \cup {id[r]}
  /\ UNCHANGED <<id, mu, tick, free, pace>>

-------------------------------------------------------------------------------
(* time.Tick: a tick nobody has received yet makes the next one be lost. *)
Tick ==
  /\ tick' = 1
  /\ since' = {}
  /\ delayed' = {r \in Request : pc[r] = "ticked"}
  /\ UNCHANGED <<id, pc, mu, calls, free>>

Serve(r) ==
  \/ Refuse(r) \/ Lock(r) \/ Found(r) \/ Call(r) \/ Return(r) \/ Panic(r)
  \/ TakeTick(r) \/ CallPaced(r) \/ ReturnPaced(r) \/ PanicPaced(r) \/ Record(r)

Next == Tick \/ \E r \in Request : Serve(r)

Spec == Init /\ [][Next]_vars

(* Goroutines are scheduled, handlers return or panic, and time passes. *)
Fairness == WF_vars(Tick) /\ \A r \in Request : WF_vars(Serve(r))

FairSpec == Spec /\ Fairness

-------------------------------------------------------------------------------
(* However many calls of an id arrive at once, the handler is called at    *)
(* most once for it without a tick: the look at the map and the entry in   *)
(* it are one critical section.                                            *)
OneFreeCall == \A i \in Id : free[i] <= 1

(* All other calls of the handler are paced: of those that begin between   *)
(* two ticks, at most one has received its tick in that time too, also     *)
(* after a time without calls.  (Those that were delayed behind <-tick     *)
(* come on top of it.)                                                     *)
PacedByTicks == \A r, q \in since \ delayed : r = q

(* Behind it: one tick is in the channel, or with one of the calls.        *)
Fresh == (since \cup {r \in Request : pc[r] = "ticked"}) \ delayed

TickIsOne ==
  /\ \A r, q \in Fresh : r = q
  /\ Fresh # {} => tick = 0

(* Who holds the mutex, and what its holder and the map say about calls    *)
(* without a tick.                                                         *)
Locked ==
  /\ \A r \in Request : pc[r] \in {"deciding", "first"} => mu = r
  /\ mu # Nobody => pc[mu] \in {"deciding", "first", "panicked"}
  /\ \A r \in Request : pc[r] \notin {"new", "panicked"} => id[r] # NoId

Accounted ==
  \A i \in Id : free[i] = 0 \/ i \in calls \/
    (mu # Nobody /\ id[mu] = i /\ pc[mu] \in {"first", "panicked"})

IInv ==
  /\ TypeOK /\ Locked /\ Accounted
  /\ \A r \in Request : pc[r] = "first" => id[r] \notin calls
  /\ OneFreeCall
  /\ TickIsOne

(* A handler that panics under the mutex leaves it locked for every id.    *)
LockedOut == mu # Nobody /\ pc[mu] = "panicked"

(* That is the only way to be locked out: otherwise every call, of every   *)
(* id, ends, however slow the others are.                                  *)
ServedUnlessLockedOut ==
  (\A r \in Request : <>(pc[r] \in {"done", "panicked"})) \/ <>LockedOut
===============================================================================
