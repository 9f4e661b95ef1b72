------------------------------- MODULE Server -------------------------------
(***************************************************************************)
(* The process: server.ts from start to exit, and the shared Redis client  *)
(* of config/redis.ts, which reconnects until it is disabled.              *)
(*                                                                         *)
(* start and shutdown are two tasks of one event loop; a signal may find   *)
(* start anywhere.  socket.io closes the HTTP server it is attached to, so *)
(* the close that follows fails.  A client that is disabled stays so until *)
(* the process is restarted.  Requests are those of Profiles, which        *)
(* extends this module: pc names what each does next.                      *)
(***************************************************************************)
EXTENDS Naturals, Sequences, FiniteSets

CONSTANTS
  Requests, None,
  MaxTries,     \* MONGODB_MAX_RETRIES
  MaxRetries,   \* REDIS_MAX_RETRIES
  MaxFaults     \* bound: how often MongoDB, Redis or the port fail

ASSUME ServerAssumption ==
  MaxTries \in Nat \ {0} /\ MaxRetries \in Nat /\ MaxFaults \in Nat

VARIABLES
  boot,       \* what start does next: "up" when it has returned
  tries,      \* attempts to connect to MongoDB
  stop,       \* what shutdown does next
  exit,       \* how the process ended
  listening,  \* the HTTP server takes connections
  sockets,    \* io: socket.io is attached to the HTTP server
  workers,    \* BullMQ workers run
  up,         \* the Redis server can be reached
  client,     \* the state of redisClient, "none" when there is none
  enabled,    \* redisEnabled
  retries,    \* reconnections since the connection was lost
  req,        \* what each request does next, with its local variables
  calmStart,  \* ghost: start had returned when the signal came
  faults

process == <<boot, tries, stop, exit, listening, sockets, workers, calmStart>>
redis == <<up, client, enabled, retries>>

Idle == [pc |-> "idle", view |-> None, got |-> 0, born |-> 0]

ServerInit ==
  /\ boot = "database" /\ tries = 0
  /\ stop = "none" /\ exit = "running"
  /\ listening = FALSE /\ sockets = FALSE /\ workers = FALSE
  /\ up = TRUE
  /\ client = "none" /\ enabled = TRUE /\ retries = 0
  /\ req = [r \in Requests |-> Idle]
  /\ calmStart = FALSE
  /\ faults = 0

Running == exit = "running"
Fault == faults < MaxFaults /\ faults' = faults + 1
At(r, pc) == req[r].pc = pc

\* An answer is sent before the response cache is written or emptied.
InFlight == {r \in Requests : req[r].pc \notin {"idle", "cacheRoute", "purge"}}

----------------------------------------------------------------------------
(* The Redis client.                                                       *)

\* isRedisReady, asked by every helper before it uses the client.
Ready == client = "ready" /\ enabled

Disable == client' = "none" /\ enabled' = FALSE /\ retries' = 0

\* connectRedis of a new client: once it fails, Redis is not tried again.
Connect ==
  IF up THEN client' = "ready" /\ retries' = 0 /\ UNCHANGED enabled ELSE Disable

RedisDown ==
  /\ Running /\ up
  /\ up' = FALSE
  /\ Fault
  /\ UNCHANGED <<client, enabled, retries, process, req>>

RedisUp ==
  /\ Running /\ ~up
  /\ up' = TRUE
  /\ UNCHANGED <<client, enabled, retries, process, req, faults>>

\* Broken: the client gives up without being disabled.
GiveUp == client' = "ended" /\ retries' = 0 /\ UNCHANGED enabled

\* reconnectStrategy has no delay left to offer.
Exhausted == client' = "ended" /\ enabled' = FALSE /\ retries' = 0

\* The connection closes, or an attempt to reopen it fails.
Retry ==
  /\ Running /\ ~up
  /\ client \in {"ready", "reconnecting"}
  /\ IF retries + 1 > MaxRetries THEN Exhausted
     ELSE client' = "reconnecting" /\ retries' = retries + 1 /\ UNCHANGED enabled
  /\ UNCHANGED <<up, process, req, faults>>

Reconnect ==
  /\ Running /\ up
  /\ client = "reconnecting"
  /\ client' = "ready" /\ retries' = 0
  /\ UNCHANGED <<up, enabled, process, req, faults>>

\* The readiness probe: pingRedis connects a client that is not ready.
Ping(r) ==
  /\ At(r, "ping")
  /\ IF ~enabled \/ client = "ready" THEN UNCHANGED redis
     ELSE client = "none" /\ Connect /\ UNCHANGED up
  /\ req' = [req EXCEPT ![r] = Idle]
  /\ UNCHANGED <<process, faults>>

\* ... and waits for one that reconnects, until an attempt fails or 3 s are
\* over, whether or not the server is back: then Redis is disabled.
WaitForReady(r) ==
  /\ At(r, "ping")
  /\ enabled /\ client = "reconnecting"
  /\ Disable /\ UNCHANGED up
  /\ req' = [req EXCEPT ![r] = Idle]
  /\ UNCHANGED <<process, faults>>

----------------------------------------------------------------------------
(* start.                                                                  *)

\* process.exit: what the process had in memory is gone.
Exit(how) ==
  /\ exit' = how
  /\ boot' = "database" /\ tries' = 0 /\ stop' = "none" /\ calmStart' = FALSE
  /\ listening' = FALSE /\ sockets' = FALSE /\ workers' = FALSE
  /\ client' = "none" /\ enabled' = TRUE /\ retries' = 0
  /\ req' = [r \in Requests |-> Idle]
  /\ UNCHANGED up

\* mongoose.connect, and the attempt whose failure ends the process.
ConnectDatabase ==
  /\ Running /\ boot = "database"
  /\ boot' = "redis" /\ tries' = tries + 1
  /\ UNCHANGED <<stop, exit, listening, sockets, workers, calmStart, redis, req, faults>>

ConnectFails ==
  /\ Running /\ boot = "database"
  /\ Fault
  /\ IF tries + 1 = MaxTries THEN Exit("error")
     ELSE tries' = tries + 1
          /\ UNCHANGED <<boot, stop, exit, listening, sockets, workers, calmStart, redis, req>>

ConnectRedis ==
  /\ Running /\ boot = "redis"
  /\ Connect /\ UNCHANGED up
  /\ boot' = "background"
  /\ UNCHANGED <<tries, stop, exit, listening, sockets, workers, calmStart, req, faults>>

\* startWorkers, and the cron jobs, which shutdown stops without waiting.
\* Importing socket.io may fail, which start survives.
StartBackground ==
  /\ Running /\ boot = "background"
  /\ workers' = Ready
  /\ \/ sockets' = TRUE /\ UNCHANGED faults
     \/ sockets' = FALSE /\ Fault
  /\ boot' = "listen"
  /\ UNCHANGED <<tries, stop, exit, listening, calmStart, redis, req>>

Listen ==
  /\ Running /\ boot = "listen"
  /\ boot' = "up" /\ listening' = TRUE
  /\ UNCHANGED <<tries, stop, exit, sockets, workers, calmStart, redis, req, faults>>

\* The port is taken.
ListenFails ==
  /\ Running /\ boot = "listen"
  /\ Fault
  /\ Exit("error")

----------------------------------------------------------------------------
(* shutdown.                                                               *)

\* SIGTERM, SIGINT, an uncaught exception or an unhandled rejection.
Signal ==
  /\ Running /\ stop = "none"
  /\ stop' = "workers"
  /\ calmStart' = (boot = "up")
  /\ UNCHANGED <<boot, tries, exit, listening, sockets, workers, redis, req, faults>>

\* A worker is closed over the connection it has; without one it may wait.
StopWorkers ==
  /\ Running /\ stop = "workers"
  /\ workers => up
  /\ workers' = FALSE
  /\ stop' = "sockets"
  /\ UNCHANGED <<boot, tries, exit, listening, sockets, calmStart, redis, req, faults>>

\* io.close ends the HTTP server and calls back when its requests are done.
CloseSockets ==
  /\ Running /\ stop = "sockets"
  /\ listening' = (listening /\ ~sockets)
  /\ stop' = IF sockets THEN "socketsClosed" ELSE "http"
  /\ UNCHANGED <<boot, tries, exit, sockets, workers, calmStart, redis, req, faults>>

\* Broken: the callback is not awaited.
SocketsClosedAtOnce ==
  /\ Running /\ stop = "socketsClosed"
  /\ sockets' = FALSE
  /\ stop' = "http"
  /\ UNCHANGED <<boot, tries, exit, listening, workers, calmStart, redis, req, faults>>

SocketsClosed ==
  /\ Running /\ stop = "socketsClosed"
  /\ InFlight = {}
  /\ sockets' = FALSE
  /\ stop' = "http"
  /\ UNCHANGED <<boot, tries, exit, listening, workers, calmStart, redis, req, faults>>

\* httpServer.close of a server that does not listen gives an error.
CloseHttp ==
  /\ Running /\ stop = "http"
  /\ boot \in {"listen", "up"} => listening
  /\ listening' = FALSE
  /\ stop' = IF listening THEN "httpClosed" ELSE "redis"
  /\ UNCHANGED <<boot, tries, exit, sockets, workers, calmStart, redis, req, faults>>

CloseFails ==
  /\ Running /\ stop = "http"
  /\ boot \in {"listen", "up"} /\ ~listening
  /\ Exit("error")
  /\ UNCHANGED faults

HttpClosed ==
  /\ Running /\ stop = "httpClosed"
  /\ InFlight = {}
  /\ stop' = "redis"
  /\ UNCHANGED <<boot, tries, exit, listening, sockets, workers, calmStart, redis, req, faults>>

DisconnectRedis ==
  /\ Running /\ stop = "redis"
  /\ client' = "none" /\ retries' = 0
  /\ stop' = "database"
  /\ UNCHANGED <<boot, tries, exit, listening, sockets, workers, calmStart, up, enabled, req, faults>>

DisconnectDatabase ==
  /\ Running /\ stop = "database"
  /\ Exit("clean")
  /\ UNCHANGED faults

\* Broken: the timer that ends a shutdown is armed once Redis is closed.
ForceLate ==
  /\ Running /\ stop = "database"
  /\ Exit("forced")
  /\ UNCHANGED faults

\* The timer armed when shutdown began.
ForceExit ==
  /\ Running /\ stop # "none"
  /\ Exit("forced")
  /\ UNCHANGED faults

----------------------------------------------------------------------------

Boot ==
  \/ ConnectDatabase \/ ConnectFails \/ ConnectRedis
  \/ StartBackground \/ Listen \/ ListenFails

Shutdown ==
  \/ StopWorkers \/ CloseSockets \/ SocketsClosed
  \/ CloseHttp \/ CloseFails \/ HttpClosed \/ DisconnectRedis \/ DisconnectDatabase

ServerStep == Boot \/ Signal \/ Shutdown \/ ForceExit \/ RedisDown \/ RedisUp \/ Retry \/ Reconnect

----------------------------------------------------------------------------
(* Properties.                                                             *)

ServerTypeOK ==
  /\ boot \in {"database", "redis", "background", "listen", "up"}
  /\ tries \in 0..MaxTries
  /\ stop \in {"none", "workers", "sockets", "socketsClosed", "http", "httpClosed",
               "redis", "database"}
  /\ exit \in {"running", "error", "forced", "clean"}
  /\ client \in {"none", "ready", "reconnecting", "ended"}
  /\ retries \in 0..MaxRetries
  /\ faults \in 0..MaxFaults

\* "shutting down gracefully": a process that was told to stop after it had
\* started cuts no request short, unless it is the timer that ends it.
RequestsDrained ==
  [][(calmStart /\ exit' \in {"error", "clean"}) => InFlight = {}]_<<exit, calmStart, req>>

\* "Forced shutdown after timeout": whatever hangs, a shutdown ends.
ShutdownEnds == (stop # "none") ~> ~Running

\* "Ensure Redis is connected": a started process is never left with a client
\* that is neither ready nor trying to be, unless Redis was disabled.
RedisReturns ==
  (boot = "up" /\ client # "ready") ~> (client = "ready" \/ ~enabled \/ ~Running)
============================================================================
