-------------------------------- MODULE Server --------------------------------
(***************************************************************************)
(* The life of the API process: api start opens a pool, pings the          *)
(* database, connects to it and runs server.Start until a signal or an     *)
(* error of the listener; then the deferred calls close the connection and *)
(* the pool, while handlers may still be running.  What handlers do with   *)
(* the connection is in module Api; here a request is active or answered.  *)
(***************************************************************************)
EXTENDS Ping

CONSTANT Request

VARIABLES
  main,     \* where startCmd is, see Place
  code,     \* the exit code it is going to return
  listener, \* the goroutine of ListenAndServe
  watched,  \* are signals received by signal.NotifyContext
  stopped,  \* is the context of server.Start cancelled
  conn,     \* the connection all handlers use, see Conn
  req       \* the requests: "none", "active", "answered" or "cut"

startVars == <<main, code, listener, watched, stopped, conn>>
vars      == <<startVars, req, pingVars>>

Conn == {"none",
         "open",
         "lost",    \* closed by pgx or broken, and not closed by startCmd
         "closed"}  \* closed by startCmd

Place == {"opening", "pinging", "connecting", "starting", "listening", "waiting",
          "stopping", "draining", "closing", "exited", "killed"}

TypeOK ==
  /\ PingTypeOK
  /\ main \in Place
  /\ code \in {0, 1}
  /\ listener \in {"none", "starting", "serving", "failed", "closed"}
  /\ watched \in BOOLEAN
  /\ stopped \in BOOLEAN
  /\ conn \in Conn
  /\ req \in [Request -> {"none", "active", "answered", "cut"}]

Init ==
  /\ PingInit
  /\ main = "opening"
  /\ code = 0
  /\ listener = "none"
  /\ watched = FALSE
  /\ stopped = FALSE
  /\ conn = "none"
  /\ req = [r \in Request |-> "none"]

Alive  == main \notin {"exited", "killed"}
Active == {r \in Request : req[r] = "active"}
CutAll == req' = [r \in Request |-> IF r \in Active THEN "cut" ELSE req[r]]

(* Return with a code: the deferred calls run. *)
ReturnWith(c) == main' = "closing" /\ code' = c

-------------------------------------------------------------------------------
OpenPool ==
  /\ main = "opening"
  /\ main' = "pinging"
  /\ pool' = "open"
  /\ UNCHANGED <<code, listener, watched, stopped, conn, req, ping, tries, late, db>>

(* The configuration is missing or incomplete. *)
OpenFails ==
  /\ main = "opening"
  /\ ReturnWith(1)
  /\ UNCHANGED <<listener, watched, stopped, conn, req, pingVars>>

Pinging ==
  /\ main = "pinging" /\ PingStep
  /\ UNCHANGED <<startVars, req>>

PingReturns ==
  /\ main = "pinging"
  /\ \/ ping = "ok" /\ main' = "connecting" /\ UNCHANGED code
     \/ ping = "failed" /\ ReturnWith(1)
  /\ UNCHANGED <<listener, watched, stopped, conn, req, pingVars>>

(* A silent database keeps Connect waiting: its context has no deadline. *)
Connect ==
  /\ main = "connecting" /\ db = "up"
  /\ main' = "starting"
  /\ conn' = "open"
  /\ UNCHANGED <<code, listener, watched, stopped, req, pingVars>>

(* Bug: the error of Connect is only logged. *)
ConnectFailsAndGoesOn ==
  /\ main = "connecting" /\ db = "down"
  /\ main' = "starting"
  /\ UNCHANGED <<code, listener, watched, stopped, conn, req, pingVars>>

(* Bug: an error of Connect makes it try again. *)
ConnectFailsAndTriesAgain ==
  /\ main = "connecting" /\ db = "down"
  /\ UNCHANGED <<startVars, req, pingVars>>

ConnectFails ==
  /\ main = "connecting" /\ db = "down"
  /\ ReturnWith(1)
  /\ UNCHANGED <<listener, watched, stopped, conn, req, pingVars>>

-------------------------------------------------------------------------------
(* server.Start: the goroutine of the listener comes first ... *)
StartListener ==
  /\ main = "starting"
  /\ main' = "listening"
  /\ listener' = "starting"
  /\ UNCHANGED <<code, watched, stopped, conn, req, pingVars>>

(* ... then NotifyContext, and Start waits. *)
Watch ==
  /\ main = "listening"
  /\ main' = "waiting"
  /\ watched' = TRUE
  /\ UNCHANGED <<code, listener, stopped, conn, req, pingVars>>

(* ListenAndServe, unless Shutdown has been called before. *)
Listen ==
  /\ Alive /\ listener = "starting"
  /\ listener' = "serving"
  /\ UNCHANGED <<main, code, watched, stopped, conn, req, pingVars>>

(* The port is taken, or Accept fails: errs, with room for one, has it. *)
ListenFails ==
  /\ Alive /\ listener \in {"starting", "serving"}
  /\ listener' = "failed"
  /\ UNCHANGED <<main, code, watched, stopped, conn, req, pingVars>>

(* SIGINT or SIGTERM.  While nobody watches for signals they kill the      *)
(* process, without its deferred calls.                                    *)
Signal ==
  /\ Alive
  /\ IF watched THEN ~stopped /\ stopped' = TRUE /\ UNCHANGED <<main, req>>
                ELSE main' = "killed" /\ CutAll /\ UNCHANGED stopped
  /\ UNCHANGED <<code, listener, watched, conn, pingVars>>

(* <-ctx.Done(), and stop(): from here on a second signal kills. *)
StopWaiting ==
  /\ main = "waiting" /\ stopped
  /\ main' = "stopping"
  /\ watched' = FALSE
  /\ UNCHANGED <<code, listener, stopped, conn, req, pingVars>>

(* <-errs: Start returns without Shutdown. *)
ReturnListenerError ==
  /\ main = "waiting" /\ listener = "failed"
  /\ ReturnWith(1)
  /\ watched' = FALSE
  /\ UNCHANGED <<listener, stopped, conn, req, pingVars>>

(* http.Server.Shutdown closes the listener. *)
Shutdown ==
  /\ main = "stopping"
  /\ main' = "draining"
  /\ listener' = IF listener = "failed" THEN "failed" ELSE "closed"
  /\ UNCHANGED <<code, watched, stopped, conn, req, pingVars>>

(* Bug: Shutdown gets a context of its own. *)
DrainPatiently ==
  /\ main = "draining" /\ Active = {}
  /\ ReturnWith(0)
  /\ UNCHANGED <<listener, watched, stopped, conn, req, pingVars>>

(* Bug: the error of Shutdown is only logged. *)
DrainAndForget ==
  /\ main = "draining"
  /\ ReturnWith(0)
  /\ UNCHANGED <<listener, watched, stopped, conn, req, pingVars>>

(* Shutdown finds no request left, or gives up: its context is the one     *)
(* whose cancellation has led here.                                        *)
Drain ==
  /\ main = "draining"
  /\ ReturnWith(IF Active = {} THEN 0 ELSE 1)
  /\ UNCHANGED <<listener, watched, stopped, conn, req, pingVars>>

(* The deferred db.Close and pool.Close, and the end of the process. *)
CloseConn ==
  /\ main = "closing" /\ conn \in {"open", "lost"}
  /\ conn' = "closed"
  /\ UNCHANGED <<main, code, listener, watched, stopped, req, pingVars>>

ClosePool ==
  /\ main = "closing" /\ conn \notin {"open", "lost"} /\ pool = "open"
  /\ pool' = "closed"
  /\ UNCHANGED <<startVars, req, ping, tries, late, db>>

Exit ==
  /\ main = "closing" /\ conn \notin {"open", "lost"} /\ pool # "open"
  /\ main' = "exited"
  /\ CutAll
  /\ UNCHANGED <<code, listener, watched, stopped, conn, pingVars>>

-------------------------------------------------------------------------------
(* The listener accepts a request; its handler runs in a goroutine. *)
Accept(r) ==
  /\ Alive /\ listener = "serving" /\ req[r] = "none"
  /\ req' = [req EXCEPT ![r] = "active"]
  /\ UNCHANGED <<startVars, pingVars>>

Answer(r) ==
  /\ Alive /\ req[r] = "active"
  /\ req' = [req EXCEPT ![r] = "answered"]
  /\ UNCHANGED <<startVars, pingVars>>

(* The client of a request goes away while its statement runs, or the      *)
(* connection breaks, or PostgreSQL goes away: see Api.CancelCall and      *)
(* Api.Drop.  Nothing opens the connection again.                          *)
LoseConn ==
  /\ Alive /\ conn = "open"
  /\ conn' = "lost"
  /\ UNCHANGED <<main, code, listener, watched, stopped, req, pingVars>>

Main ==
  \/ OpenPool \/ OpenFails \/ Pinging \/ PingReturns \/ Connect \/ ConnectFails
  \/ StartListener \/ Watch \/ StopWaiting \/ ReturnListenerError
  \/ Shutdown \/ Drain \/ CloseConn \/ ClosePool \/ Exit

Environment ==
  \/ Signal \/ LoseConn
  \/ Alive /\ (Expire \/ Database) /\ UNCHANGED <<startVars, req>>

Next ==
  \/ Main \/ Listen \/ ListenFails \/ Environment
  \/ \E r \in Request : Accept(r) \/ Answer(r)

Spec == Init /\ [][Next]_vars

(* The main goroutine is scheduled and time passes.  Nothing makes the     *)
(* database answer, a handler end or a signal come.                        *)
Fairness ==
  /\ WF_vars(Main)
  /\ WF_vars(Alive /\ Expire /\ UNCHANGED <<startVars, req>>)

FairSpec == Spec /\ Fairness

-------------------------------------------------------------------------------
(* No handler runs before the database has been pinged and connected to,   *)
(* and until startCmd returns it closes nothing that handlers use: if the  *)
(* connection is gone by then, it has been lost, not closed under them.    *)
ServedAreBacked ==
  Active # {} /\ main # "closing" =>
    ping = "ok" /\ conn \in {"open", "lost"} /\ pool = "open"

(* The exit code tells: with 0, no request was cut off, and startCmd did   *)
(* not close the connection under a handler.                               *)
CleanExitAnswersAll ==
  main \in {"closing", "exited"} /\ code = 0 =>
    \A r \in Request : req[r] \in {"none", "answered"}

(* The inductive invariant behind them.                                    *)
Course ==
  /\ main = "opening" => pool = "none"
  /\ main = "pinging" => pool # "none" /\ (ping = "ok" => pool = "open")
  /\ main \in {"opening", "pinging", "connecting"} => conn = "none"
  /\ main \in {"connecting", "starting", "listening", "waiting", "stopping", "draining"}
     => ping = "ok" /\ pool = "open"
  /\ main \in {"starting", "listening", "waiting", "stopping", "draining"}
     => conn \in {"open", "lost"}
  /\ listener = "none" \/ main \in {"listening", "waiting", "stopping", "draining",
                                    "closing", "exited", "killed"}
  /\ listener = "none" => \A r \in Request : req[r] = "none"
  /\ main = "draining" => listener \in {"failed", "closed"}
  /\ main \in {"closing", "exited"} => listener \in {"none", "failed", "closed"}
  /\ Active # {} => Alive
  /\ (\E r \in Request : req[r] = "cut") => ~Alive

IInv ==
  /\ TypeOK /\ PoolKnows /\ Course
  /\ ServedAreBacked /\ CleanExitAnswersAll

(* Ping returns, even if the database accepts connections and is silent.   *)
PingEnds == main = "pinging" ~> main # "pinging"

(* The start comes to an end, with requests being served or with an error, *)
(* if the database does not fall silent for good: for Connect, which has   *)
(* no deadline of its own, nobody but the database keeps time.             *)
StartSettles ==
  <>[](db # "silent") =>
    <>(main \notin {"opening", "pinging", "connecting", "starting", "listening"})

(* A signal ends the process, even if a handler hangs.                     *)
SignalStops == stopped ~> ~Alive
===============================================================================
