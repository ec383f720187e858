--------------------------------- MODULE Ping ---------------------------------
(***************************************************************************)
(* retry.Ping: the pool is pinged until a ping succeeds, for at most 1 +   *)
(* retries times and 5 seconds.  A failed ping closes the pool, and a      *)
(* closed pgxpool.Pool fails every ping.                                   *)
(***************************************************************************)
EXTENDS Naturals

CONSTANTS
  MaxRetries, \* the default number of retries
  Retries     \* the number asked for; 0 asks for the default

ASSUME PingAssumption == MaxRetries \in Nat /\ Retries \in Nat

VARIABLES
  ping,   \* "idle", "checking", "pinging", "sleeping", "ok" or "failed"
  tries,  \* how many times pool.Ping has been called
  late,   \* is the context of the pings done
  pool,   \* "none", "open" or "closed"
  db      \* the database is "up", "down" or "silent"

pingVars == <<ping, tries, late, pool, db>>

Effective == IF Retries = 0 THEN MaxRetries ELSE Retries

PingTypeOK ==
  /\ ping \in {"idle", "checking", "pinging", "sleeping", "ok", "failed"}
  /\ tries \in 0 .. Effective + 1
  /\ late \in BOOLEAN
  /\ pool \in {"none", "open", "closed"}
  /\ db \in {"up", "down", "silent"}

PingInit ==
  /\ ping = "idle"
  /\ tries = 0
  /\ late = FALSE
  /\ pool = "none"
  /\ db \in {"up", "down", "silent"}

-------------------------------------------------------------------------------
(* context.WithTimeout, and backoff.Retry calls op for the first time. *)
StartPing ==
  /\ ping = "idle" /\ pool = "open"
  /\ ping' = "checking"
  /\ UNCHANGED <<tries, late, pool, db>>

(* The first lines of op: is the context done already? *)
CheckContext ==
  /\ ping = "checking"
  /\ IF late THEN ping' = "failed" /\ UNCHANGED tries
             ELSE ping' = "pinging" /\ tries' = tries + 1
  /\ UNCHANGED <<late, pool, db>>

PingSucceeds ==
  /\ ping = "pinging" /\ pool = "open" /\ db = "up"
  /\ ping' = "ok"
  /\ UNCHANGED <<tries, late, pool, db>>

(* Is there a reason for pool.Ping to return an error? *)
PingErr == pool = "closed" \/ db = "down" \/ late

(* Where a failed ping leads: a done context and the last retry end it. *)
AfterFailure == IF late \/ tries = Effective + 1 THEN "failed" ELSE "sleeping"

(* Bug: pings are made with the context of the caller. *)
PingFailsWithoutDeadline ==
  /\ ping = "pinging" /\ (pool = "closed" \/ db = "down")
  /\ pool' = "closed"
  /\ ping' = AfterFailure
  /\ UNCHANGED <<tries, late, db>>

(* Bug: the retries are counted from the second ping on. *)
PingFailsOnceMore ==
  /\ ping = "pinging" /\ PingErr
  /\ pool' = "closed"
  /\ ping' = IF late \/ tries > Effective + 1 THEN "failed" ELSE "sleeping"
  /\ UNCHANGED <<tries, late, db>>

(* pool.Ping returns an error, and the pool is closed. *)
PingFails ==
  /\ ping = "pinging" /\ PingErr
  /\ pool' = "closed"
  /\ ping' = AfterFailure
  /\ UNCHANGED <<tries, late, db>>

(* The backoff's timer, which no context interrupts. *)
Wake ==
  /\ ping = "sleeping"
  /\ ping' = "checking"
  /\ UNCHANGED <<tries, late, pool, db>>

PingStep == StartPing \/ CheckContext \/ PingSucceeds \/ PingFails \/ Wake

(* Five seconds are over. *)
Expire ==
  /\ ping \in {"checking", "pinging", "sleeping"} /\ ~late
  /\ late' = TRUE
  /\ UNCHANGED <<ping, tries, pool, db>>

Database ==
  /\ db' \in {"up", "down", "silent"} \ {db}
  /\ UNCHANGED <<ping, tries, late, pool>>

-------------------------------------------------------------------------------
(* Part of the inductive invariants of the modules that ping: the first    *)
(* failed ping closes the pool, so that no retry succeeds, even if the     *)
(* database has come up by then.                                           *)
PoolKnows ==
  /\ ping = "ok" => tries = 1
  /\ pool = "none" => ping = "idle" /\ tries = 0
  /\ pool = "open" /\ ping \in {"idle", "checking"} => tries = 0
  /\ ping \in {"pinging", "ok"} /\ pool = "open" => tries = 1
  /\ ping = "sleeping" => pool = "closed"
  /\ ping = "pinging" => tries >= 1
  /\ ping \in {"checking", "sleeping"} => tries <= Effective
===============================================================================
