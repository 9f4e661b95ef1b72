------------------------------ MODULE Profiles ------------------------------
(***************************************************************************)
(* What users read about themselves and administrators about all of them,  *)
(* through two caches in Redis: the response of the route                  *)
(* (middlewares/cache.middleware.ts) and the result of the service         *)
(* (services/user.service.ts), in the process of Server.                   *)
(*                                                                         *)
(* A view is "me", the profile under its exact key, or "list", the first   *)
(* page of the users.  Every write changes both.  Time is counted in ticks *)
(* of the longest a request takes; an entry ends TTL after it was written. *)
(***************************************************************************)
EXTENDS Server

CONSTANTS
  Views,
  ServiceTTL,   \* 60 s for a profile, 30 s for a list
  RouteTTL,     \* HTTP_CACHE_TTL.SHORT
  Writers,      \* "self", "admin", and "new" for an account created
  Prefixed,     \* REDIS_KEY_PREFIX is not empty
  MaxWrites,    \* bound: writes of users
  MaxReads,     \* bound: reads and probes
  MaxClock      \* bound: the time

ASSUME ProfilesAssumption ==
  /\ Views \subseteq {"me", "list"} /\ Writers \subseteq {"self", "admin", "new"}
  /\ ServiceTTL \in [Views -> Nat \ {0}] /\ RouteTTL \in [Views -> Nat \ {0}]
  /\ Prefixed \in BOOLEAN
  /\ MaxWrites \in Nat /\ MaxReads \in Nat /\ MaxClock \in Nat

VARIABLES
  changed,  \* the times at which users were written: DOMAIN changed counts them
  service,  \* what the service cache has for a view: version and end
  routes,   \* what the route cache has for it
  clock,
  reads

vars == <<boot, tries, stop, exit, listening, sockets, workers, calmStart,
          up, client, enabled, retries, req, faults, changed, service, routes, clock, reads>>
caches == <<service, routes>>
profiles == <<changed, caches, clock, reads>>
server == <<process, redis, faults>>

Version == Len(changed)
\* Redis outlives the process: its entries are there when it starts.
Empty == [got |-> 0, ends |-> 0]

Init ==
  /\ ServerInit
  /\ changed = <<>>
  /\ service = [v \in Views |-> [got |-> 0, ends |-> ServiceTTL[v]]]
  /\ routes = [v \in Views |-> Empty]
  /\ clock = 0
  /\ reads = 0

TypeOK ==
  /\ ServerTypeOK
  /\ changed \in Seq(0..MaxClock)
  /\ service \in [Views -> [got: Nat, ends: Nat]]
  /\ routes \in [Views -> [got: Nat, ends: Nat]]

Step(r, q) == Running /\ req' = [req EXCEPT ![r] = q]
Goto(r, pc) == Step(r, IF pc = "idle" THEN Idle ELSE [req[r] EXCEPT !.pc = pc])
Live(cache, v) == clock < cache[v].ends
Entry(r, ttl) == [got |-> req[r].got, ends |-> clock + ttl[req[r].view]]

Accept(r, q) ==
  /\ listening
  /\ At(r, "idle")
  /\ Step(r, [q EXCEPT !.born = clock])
  /\ UNCHANGED server

----------------------------------------------------------------------------
(* GET /users/me and GET /users.                                           *)

\* cacheMiddleware, which a hit answers.
GetView(r, v) ==
  /\ Accept(r, [Idle EXCEPT !.view = v,
       !.pc = IF Ready /\ Live(routes, v) THEN "answer" ELSE "service",
       !.got = IF Ready /\ Live(routes, v) THEN routes[v].got ELSE 0])
  /\ reads < MaxReads /\ reads' = reads + 1
  /\ UNCHANGED <<changed, caches, clock>>

\* redisGetOrSet: a hit, the factory's read of the database, the set.
GetCached(r) ==
  /\ At(r, "service")
  /\ LET v == req[r].view IN
     IF Ready /\ Live(service, v)
     THEN Step(r, [req[r] EXCEPT !.pc = "answerFresh", !.got = service[v].got])
     ELSE Goto(r, "load")
  /\ UNCHANGED <<server, changed, caches, clock, reads>>

Load(r) ==
  /\ At(r, "load")
  /\ Step(r, [req[r] EXCEPT !.pc = "store", !.got = Version])
  /\ UNCHANGED <<server, changed, caches, clock, reads>>

StoreView(r) ==
  /\ At(r, "store")
  /\ service' = IF Ready THEN [service EXCEPT ![req[r].view] = Entry(r, ServiceTTL)] ELSE service
  /\ Goto(r, "answerFresh")
  /\ UNCHANGED <<server, changed, routes, clock, reads>>

\* res.json answers and leaves the write of the route cache behind.
Answer(r) ==
  /\ \/ At(r, "answer") /\ Goto(r, "idle")
     \/ At(r, "answerFresh") /\ Goto(r, "cacheRoute")
  /\ UNCHANGED <<server, changed, caches, clock, reads>>

\* Broken: an entry without a time to live.
CacheRouteForEver(r) ==
  /\ At(r, "cacheRoute")
  /\ routes' = IF Ready THEN [routes EXCEPT ![req[r].view] = [got |-> req[r].got, ends |-> MaxClock + 1]]
               ELSE routes
  /\ Goto(r, "idle")
  /\ UNCHANGED <<server, changed, service, clock, reads>>

CacheRoute(r) ==
  /\ At(r, "cacheRoute")
  /\ routes' = IF Ready THEN [routes EXCEPT ![req[r].view] = Entry(r, RouteTTL)] ELSE routes
  /\ Goto(r, "idle")
  /\ UNCHANGED <<server, changed, service, clock, reads>>

----------------------------------------------------------------------------
(* Writes of users.                                                        *)

\* updateProfile and uploadAvatar by the user, adminUpdateUser, softDelete
\* and adminCreateUser by an administrator.
Write(r, who) ==
  /\ Version < MaxWrites
  /\ Accept(r, [Idle EXCEPT !.pc = "invalidate", !.view = who])
  /\ changed' = Append(changed, clock)
  /\ UNCHANGED <<caches, clock, reads>>

\* The methods name the key of the profile they change, and a pattern for the
\* lists if an administrator changes it or there is a new one.
Named(who) == (IF who = "new" THEN {} ELSE {"me"}) \cup (IF who = "self" THEN {} ELSE {"list"})

\* The client adds its prefix to a key, not to a pattern: with one none match.
Forgotten(r) == Named(req[r].view) \ (IF Prefixed THEN {"list"} ELSE {})

Invalidate(r) ==
  /\ At(r, "invalidate")
  /\ service' = [v \in Views |-> IF Ready /\ v \in Forgotten(r) THEN Empty ELSE service[v]]
  /\ Goto(r, "purge")
  /\ UNCHANGED <<server, changed, routes, clock, reads>>

\* invalidateUsersCache, once the answer was sent: patterns again.
Purge(r) ==
  /\ At(r, "purge")
  /\ routes' = IF Ready /\ ~Prefixed THEN [v \in Views |-> Empty] ELSE routes
  /\ Goto(r, "idle")
  /\ UNCHANGED <<server, changed, service, clock, reads>>

----------------------------------------------------------------------------

\* GET /health?ready=1.
StartPing(r) ==
  /\ Accept(r, [Idle EXCEPT !.pc = "ping"])
  /\ reads < MaxReads /\ reads' = reads + 1
  /\ UNCHANGED <<changed, caches, clock>>

\* A request takes a tick at most, and so does a shutdown; time matters while
\* something is cached.
Tick ==
  /\ clock < MaxClock
  /\ stop = "none"
  /\ (\E v \in Views : Live(service, v) \/ Live(routes, v)) \/ \E r \in Requests : ~At(r, "idle")
  /\ \A r \in Requests : At(r, "idle") \/ req[r].born = clock
  /\ clock' = clock + 1
  /\ UNCHANGED <<server, req, changed, caches, reads>>

Handle(r) ==
  \/ GetCached(r) \/ Load(r) \/ StoreView(r) \/ Answer(r) \/ CacheRoute(r)
  \/ Invalidate(r) \/ Purge(r)

Pinged(r) == (Ping(r) \/ WaitForReady(r)) /\ UNCHANGED profiles

Next ==
  \/ ServerStep /\ UNCHANGED profiles
  \/ \E r \in Requests :
       \/ \E v \in Views : GetView(r, v)
       \/ \E who \in Writers : Write(r, who)
       \/ StartPing(r) \/ Handle(r) \/ Pinged(r)
  \/ Tick

\* start goes on, the timer of shutdown fires, and the client keeps trying.
Fairness ==
  /\ WF_vars(Boot /\ UNCHANGED profiles)
  /\ WF_vars(ForceExit /\ UNCHANGED profiles)
  /\ WF_vars((Retry \/ Reconnect) /\ UNCHANGED profiles)

Spec == Init /\ [][Next]_vars /\ Fairness

----------------------------------------------------------------------------
(* Properties.                                                             *)

\* The times to live of both caches add up, since a response is cached of
\* what the service had cached; a tick more for the request.  However reads
\* overlap with writes, Redis goes and comes, and patterns match nothing,
\* nothing older is ever handed out.
StaleBounded ==
  \A r \in Requests :
    (req[r].pc \in {"answer", "answerFresh"} /\ req[r].got < Version) =>
      clock - changed[req[r].got + 1] <= ServiceTTL[req[r].view] + RouteTTL[req[r].view] + 1
============================================================================
