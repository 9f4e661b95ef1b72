--------------------------- MODULE ProfilesProofs ---------------------------
(***************************************************************************)
(* Profiles and the server for any number of requests, views and users'    *)
(* writes, any times to live and any faults: type correctness, the bound   *)
(* on the age of what is handed out, and that no request is cut short by a *)
(* shutdown but one that the timer ends.                                   *)
(***************************************************************************)
EXTENDS Profiles, Integers, TLAPS

Phases == {"idle", "service", "load", "store", "answer", "answerFresh", "cacheRoute",
           "invalidate", "purge", "ping"}
Work == [pc : Phases, view : Views \cup Writers \cup {None}, got : Nat, born : Nat]

LEMMA IdleInWork == Idle \in Work
BY DEF Idle, Work, Phases

-----------------------------------------------------------------------------
(* Steps of the server leave the requests alone or end them.               *)
LEMMA ServerReqs ==
  ASSUME ServerStep
  PROVE  \/ req' = req
         \/ req' = [r \in Requests |-> Idle]
<1>1. CASE Boot
  BY <1>1 DEF Boot, ConnectDatabase, ConnectFails, ConnectRedis, StartBackground, Listen,
     ListenFails, Exit
<1>2. CASE Shutdown \/ ForceExit
  BY <1>2 DEF Shutdown, ForceExit, StopWorkers, CloseSockets, SocketsClosed, CloseHttp, CloseFails,
     HttpClosed, DisconnectRedis, DisconnectDatabase, Exit
<1>3. CASE Signal \/ RedisDown \/ RedisUp \/ Retry \/ Reconnect
  BY <1>3 DEF Signal, RedisDown, RedisUp, Retry, Reconnect
<1>4. QED BY <1>1, <1>2, <1>3 DEF ServerStep

(* The types of the server's own variables.                                *)
Flags ==
  /\ listening \in BOOLEAN /\ sockets \in BOOLEAN /\ workers \in BOOLEAN
  /\ up \in BOOLEAN /\ enabled \in BOOLEAN /\ calmStart \in BOOLEAN
Counts == ServerTypeOK /\ (boot = "database" => tries < MaxTries)

LEMMA ExitTyped ==
  ASSUME Flags, Counts, NEW how \in {"error", "forced", "clean"}, Exit(how),
         faults' \in 0..MaxFaults
  PROVE  Flags' /\ Counts'
<1>1. Flags'
  BY DEF Flags, Exit
<1>2. 0 \in 0..MaxTries /\ 0 \in 0..MaxRetries /\ 0 < MaxTries
  BY ServerAssumption
<1>3. /\ boot' = "database" /\ tries' = 0 /\ stop' = "none" /\ exit' = how
      /\ client' = "none" /\ retries' = 0
  BY DEF Exit
<1>4. Counts'
  BY <1>2, <1>3 DEF Counts, ServerTypeOK
<1>5. QED BY <1>1, <1>4

LEMMA ConnectTyped ==
  ASSUME Flags, Connect
  PROVE  client' \in {"none", "ready"} /\ retries' = 0 /\ enabled' \in BOOLEAN
BY DEF Connect, Disable, Flags

LEMMA BootTyped == ASSUME Flags, Counts, Boot PROVE Flags' /\ Counts'
<1>0. Fault => faults' \in 0..MaxFaults
  BY ServerAssumption DEF Fault, Counts, ServerTypeOK
<1>1. CASE ConnectDatabase
  <2>1. Flags'
    BY <1>1 DEF ConnectDatabase, redis, Flags
  <2>2. Counts'
    BY <1>1, ServerAssumption DEF ConnectDatabase, redis, Counts, ServerTypeOK
  <2>3. QED BY <2>1, <2>2
<1>2. CASE ConnectFails
  <2>1. CASE tries + 1 = MaxTries
    BY <1>0, <1>2, <2>1, ExitTyped DEF ConnectFails
  <2>2. CASE tries + 1 # MaxTries
    <3>1. Flags'
      BY <1>2, <2>2 DEF ConnectFails, redis, Flags
    <3>2. Counts'
      BY <1>0, <1>2, <2>2, ServerAssumption DEF ConnectFails, redis, Counts, ServerTypeOK
    <3>3. QED BY <3>1, <3>2
  <2>3. QED BY <2>1, <2>2
<1>3. CASE ConnectRedis
  <2>1. Flags'
    BY <1>3, ConnectTyped DEF ConnectRedis, Flags
  <2>2. Counts'
    BY <1>3, ConnectTyped, ServerAssumption DEF ConnectRedis, Counts, ServerTypeOK
  <2>3. QED BY <2>1, <2>2
<1>4. CASE StartBackground
  <2>1. Flags'
    BY <1>4 DEF StartBackground, Ready, redis, Flags
  <2>2. faults' \in 0..MaxFaults
    BY <1>0, <1>4 DEF StartBackground, Counts, ServerTypeOK
  <2>3. Counts'
    BY <1>4, <2>2 DEF StartBackground, redis, Counts, ServerTypeOK
  <2>4. QED BY <2>1, <2>3
<1>5. CASE Listen
  BY <1>5 DEF Listen, redis, Flags, Counts, ServerTypeOK
<1>6. CASE ListenFails
  BY <1>0, <1>6, ExitTyped DEF ListenFails
<1>7. QED BY <1>1, <1>2, <1>3, <1>4, <1>5, <1>6 DEF Boot

LEMMA ShutdownTyped ==
  ASSUME Flags, Counts, Shutdown \/ ForceExit \/ Signal
  PROVE  Flags' /\ Counts'
<1>0. faults \in 0..MaxFaults
  BY DEF Counts, ServerTypeOK
<1>1. CASE CloseFails \/ DisconnectDatabase \/ ForceExit
  <2>1. faults' \in 0..MaxFaults
    BY <1>0, <1>1 DEF CloseFails, DisconnectDatabase, ForceExit
  <2>2. QED BY <1>1, <2>1, ExitTyped DEF CloseFails, DisconnectDatabase, ForceExit
<1>2. CASE ~(CloseFails \/ DisconnectDatabase \/ ForceExit)
  <2>1. Flags'
    BY <1>2 DEF Shutdown, StopWorkers, CloseSockets, SocketsClosed, HttpClosed, CloseHttp,
       DisconnectRedis, Signal, redis, Flags
  <2>2. retries' \in 0..MaxRetries
    BY <1>2, ServerAssumption DEF Shutdown, StopWorkers, CloseSockets, SocketsClosed,
       HttpClosed, CloseHttp, DisconnectRedis, Signal, redis, Counts, ServerTypeOK
  <2>3. Counts'
    BY <1>2, <2>2 DEF Shutdown, StopWorkers, CloseSockets, SocketsClosed, HttpClosed,
       CloseHttp, DisconnectRedis, Signal, redis, Counts, ServerTypeOK
  <2>4. QED BY <2>1, <2>3
<1>3. QED BY <1>1, <1>2

LEMMA RedisTyped ==
  ASSUME Flags, Counts, RedisDown \/ RedisUp \/ Retry \/ Reconnect
  PROVE  Flags' /\ Counts'
<1>1. Flags'
  BY DEF RedisDown, RedisUp, Reconnect, Retry, Exhausted, process, Flags
<1>2. faults' \in 0..MaxFaults
  BY ServerAssumption DEF RedisDown, RedisUp, Reconnect, Retry, Fault, Counts, ServerTypeOK
<1>3. retries' \in 0..MaxRetries /\ client' \in {"none", "ready", "reconnecting", "ended"}
  <2>1. CASE RedisDown \/ RedisUp \/ Reconnect
    BY <2>1, ServerAssumption DEF RedisDown, RedisUp, Reconnect, Counts, ServerTypeOK
  <2>2. CASE Retry /\ retries + 1 > MaxRetries
    BY <2>2, ServerAssumption DEF Retry, Exhausted
  <2>3. CASE Retry /\ ~(retries + 1 > MaxRetries)
    BY <2>3, ServerAssumption DEF Retry, Counts, ServerTypeOK
  <2>4. QED BY <2>1, <2>2, <2>3
<1>4. UNCHANGED process
  BY DEF RedisDown, RedisUp, Reconnect, Retry
<1>5. Counts'
  BY <1>2, <1>3, <1>4 DEF process, Counts, ServerTypeOK
<1>6. QED BY <1>1, <1>5

LEMMA PingTyped ==
  ASSUME Flags, Counts, NEW r \in Requests, Ping(r) \/ WaitForReady(r)
  PROVE  Flags' /\ Counts'
<1>1. 0 \in 0..MaxRetries
  BY ServerAssumption
<1>2. client' \in {"none", "ready", "reconnecting", "ended"} /\ retries' \in 0..MaxRetries
      /\ enabled' \in BOOLEAN /\ up' = up
  <2>1. CASE UNCHANGED redis
    BY <2>1 DEF redis, Flags, Counts, ServerTypeOK
  <2>2. CASE Connect /\ UNCHANGED up
    BY <1>1, <2>2, ConnectTyped
  <2>3. CASE Disable /\ UNCHANGED up
    BY <1>1, <2>3 DEF Disable
  <2>4. QED BY <2>1, <2>2, <2>3 DEF Ping, WaitForReady
<1>3. UNCHANGED <<process, faults>>
  BY DEF Ping, WaitForReady
<1>4. QED BY <1>2, <1>3 DEF process, Flags, Counts, ServerTypeOK

-----------------------------------------------------------------------------
(* The age of what is cached and of what a request holds.  A version got   *)
(* at time t is at most d ticks older than t: the write that replaced it   *)
(* came no earlier than t - d.  c stands for changed and n for clock.      *)
NotOlder(c, got, t, d) ==
  /\ got \in 0..Len(c)
  /\ got < Len(c) => t <= c[got + 1] + d

Times(c, n) ==
  /\ c \in Seq(Nat) /\ n \in Nat
  /\ \A k \in 1..Len(c) : c[k] <= n

Entries == [got : Nat, ends : Nat]

\* The service writes what it read in the same request: a tick, and its time to live.
ServiceOK(c, n, v, e) ==
  /\ e \in Entries
  /\ NotOlder(c, e.got, e.ends, ServiceTTL[v] + 1)
  /\ e.ends <= n + ServiceTTL[v]

\* The route writes what the service had cached.
RouteOK(c, n, v, e) ==
  /\ e \in Entries
  /\ NotOlder(c, e.got, e.ends, ServiceTTL[v] + RouteTTL[v] + 1)
  /\ e.ends <= n + RouteTTL[v]

Reading == {"service", "load", "store", "answer", "answerFresh", "cacheRoute"}

\* A request takes a tick at most.
ReqOK(c, n, w) ==
  /\ w \in Work
  /\ w.pc # "idle" => w.born <= n /\ n <= w.born + 1
  /\ w.pc \in Reading => w.view \in Views
  /\ w.pc = "store" => NotOlder(c, w.got, w.born, 0)
  /\ w.pc \in {"answerFresh", "cacheRoute"} => NotOlder(c, w.got, w.born, ServiceTTL[w.view])
  /\ w.pc = "answer" => NotOlder(c, w.got, w.born, ServiceTTL[w.view] + RouteTTL[w.view])

Ages ==
  /\ Times(changed, clock)
  /\ service \in [Views -> Entries] /\ routes \in [Views -> Entries]
  /\ req \in [Requests -> Work]
  /\ \A v \in Views : ServiceOK(changed, clock, v, service[v])
  /\ \A v \in Views : RouteOK(changed, clock, v, routes[v])
  /\ \A r \in Requests : ReqOK(changed, clock, req[r])

LEMMA Summed ==
  ASSUME NEW n \in Nat, NEW b \in Nat, NEW a \in Nat, NEW s \in Nat, NEW t \in Nat,
         n <= b + 1, b <= a + (s + t)
  PROVE  n - a <= s + t + 1
OBVIOUS

LEMMA Lives == ASSUME NEW v \in Views PROVE ServiceTTL[v] \in Nat /\ RouteTTL[v] \in Nat
BY ProfilesAssumption

(* A request as it is accepted.                                            *)
LEMMA Begun ==
  ASSUME NEW x \in Work, NEW t \in Nat
  PROVE  LET q == [x EXCEPT !.born = t] IN
         q \in Work /\ q.pc = x.pc /\ q.view = x.view /\ q.got = x.got /\ q.born = t
BY DEF Work

LEMMA IdleOK == ASSUME NEW c, NEW n PROVE ReqOK(c, n, Idle)
BY IdleInWork DEF ReqOK, Idle, Reading

LEMMA Shifted ==
  ASSUME NEW c \in Seq(Nat), NEW g, NEW t \in Nat, NEW d \in Nat, NEW s \in Nat, NEW b \in Nat,
         NotOlder(c, g, t, d), s + d <= t + b
  PROVE  NotOlder(c, g, s, b)
<1>1. CASE g < Len(c)
  <2>1. g + 1 \in 1..Len(c)
    BY <1>1 DEF NotOlder
  <2>2. c[g + 1] \in Nat /\ t <= c[g + 1] + d
    BY <1>1, <2>1 DEF NotOlder
  <2>3. QED BY <2>2 DEF NotOlder
<1>2. CASE ~(g < Len(c))
  BY <1>2 DEF NotOlder
<1>3. QED BY <1>1, <1>2

(* A write makes nothing older than it was: what was the newest version is *)
(* replaced now.                                                           *)
LEMMA Appended ==
  ASSUME NEW c, NEW n, Times(c, n)
  PROVE  /\ Times(Append(c, n), n)
         /\ \A g, t, d \in Nat : NotOlder(c, g, t, d) /\ t <= n + d => NotOlder(Append(c, n), g, t, d)
<1>1. /\ Append(c, n) \in Seq(Nat) /\ Len(Append(c, n)) = Len(c) + 1 /\ Len(c) \in Nat
      /\ \A k \in 1..Len(c) : Append(c, n)[k] = c[k] /\ c[k] \in Nat
      /\ Append(c, n)[Len(c) + 1] = n
  BY DEF Times
<1>2. Times(Append(c, n), n)
  BY <1>1 DEF Times
<1>3. ASSUME NEW g \in Nat, NEW t \in Nat, NEW d \in Nat, NotOlder(c, g, t, d), t <= n + d
      PROVE  NotOlder(Append(c, n), g, t, d)
  <2>1. CASE g < Len(c)
    BY <1>1, <1>3, <2>1 DEF NotOlder
  <2>2. CASE g = Len(c)
    BY <1>1, <1>3, <2>2 DEF NotOlder, Times
  <2>3. QED BY <1>1, <1>3, <2>1, <2>2 DEF NotOlder
<1>4. QED BY <1>2, <1>3

LEMMA WriteKept ==
  ASSUME NEW c, NEW n, Times(c, n)
  PROVE  /\ \A w : ReqOK(c, n, w) => ReqOK(Append(c, n), n, w)
         /\ \A v \in Views : \A e : ServiceOK(c, n, v, e) => ServiceOK(Append(c, n), n, v, e)
         /\ \A v \in Views : \A e : RouteOK(c, n, v, e) => RouteOK(Append(c, n), n, v, e)
<1>0. n \in Nat
  BY DEF Times
<1>1. ASSUME NEW w, ReqOK(c, n, w) PROVE ReqOK(Append(c, n), n, w)
  <2>1. w \in Work /\ w.got \in Nat /\ w.born \in Nat
    BY <1>1 DEF ReqOK, Work
  <2>2. w.pc = "store" => NotOlder(Append(c, n), w.got, w.born, 0)
    BY <1>0, <1>1, <2>1, Appended DEF ReqOK
  <2>3. CASE w.pc \in Reading
    <3>1. ServiceTTL[w.view] \in Nat /\ RouteTTL[w.view] \in Nat /\ w.born <= n
      BY <1>1, <2>3, Lives DEF ReqOK, Reading
    <3>2. /\ w.born <= n + ServiceTTL[w.view] /\ w.born <= n + (ServiceTTL[w.view] + RouteTTL[w.view])
          /\ ServiceTTL[w.view] + RouteTTL[w.view] \in Nat
      BY <1>0, <2>1, <3>1
    <3>3. w.pc \in {"answerFresh", "cacheRoute"} => NotOlder(Append(c, n), w.got, w.born, ServiceTTL[w.view])
      BY <1>1, <2>1, <3>1, <3>2, Appended DEF ReqOK
    <3>4. w.pc = "answer" => NotOlder(Append(c, n), w.got, w.born, ServiceTTL[w.view] + RouteTTL[w.view])
      BY <1>1, <2>1, <3>1, <3>2, Appended DEF ReqOK
    <3>5. QED BY <1>1, <2>2, <3>3, <3>4 DEF ReqOK
  <2>4. CASE w.pc \notin Reading
    BY <1>1, <2>4 DEF ReqOK, Reading
  <2>5. QED BY <2>3, <2>4
<1>2. ASSUME NEW v \in Views, NEW e, ServiceOK(c, n, v, e) PROVE ServiceOK(Append(c, n), n, v, e)
  <2>1. e.got \in Nat /\ e.ends \in Nat /\ ServiceTTL[v] + 1 \in Nat /\ e.ends <= n + (ServiceTTL[v] + 1)
    BY <1>0, <1>2, Lives DEF ServiceOK, Entries
  <2>2. QED BY <1>2, <2>1, Appended DEF ServiceOK
<1>3. ASSUME NEW v \in Views, NEW e, RouteOK(c, n, v, e) PROVE RouteOK(Append(c, n), n, v, e)
  <2>1. /\ e.got \in Nat /\ e.ends \in Nat /\ ServiceTTL[v] + RouteTTL[v] + 1 \in Nat
        /\ e.ends <= n + (ServiceTTL[v] + RouteTTL[v] + 1)
    BY <1>0, <1>3, Lives DEF RouteOK, Entries
  <2>2. QED BY <1>3, <2>1, Appended DEF RouteOK
<1>4. QED BY <1>1, <1>2, <1>3

(* Time passes only when every request has begun in this tick.             *)
LEMMA TickKept ==
  ASSUME NEW c, NEW n, Times(c, n)
  PROVE  /\ Times(c, n + 1)
         /\ \A w : ReqOK(c, n, w) /\ (w.pc = "idle" \/ w.born = n) => ReqOK(c, n + 1, w)
         /\ \A v \in Views : \A e : ServiceOK(c, n, v, e) => ServiceOK(c, n + 1, v, e)
         /\ \A v \in Views : \A e : RouteOK(c, n, v, e) => RouteOK(c, n + 1, v, e)
<1>1. Times(c, n + 1)
  BY DEF Times
<1>2. ASSUME NEW w, ReqOK(c, n, w), w.pc = "idle" \/ w.born = n PROVE ReqOK(c, n + 1, w)
  <2>1. w.pc # "idle" => w.born <= n + 1 /\ n + 1 <= w.born + 1
    BY <1>2 DEF Times
  <2>2. QED BY <1>2, <2>1 DEF ReqOK
<1>3. ASSUME NEW v \in Views, NEW e, ServiceOK(c, n, v, e) PROVE ServiceOK(c, n + 1, v, e)
  BY <1>3, Lives DEF ServiceOK, Entries, Times
<1>4. ASSUME NEW v \in Views, NEW e, RouteOK(c, n, v, e) PROVE RouteOK(c, n + 1, v, e)
  BY <1>4, Lives DEF RouteOK, Entries, Times
<1>5. QED BY <1>1, <1>2, <1>3, <1>4

Fresh ==
  /\ service' \in [Views -> Entries] /\ routes' \in [Views -> Entries]
  /\ \A v \in Views : ServiceOK(changed, clock, v, service'[v])
  /\ \A v \in Views : RouteOK(changed, clock, v, routes'[v])

LEMMA CachesKept == ASSUME Ages, UNCHANGED caches PROVE Fresh
BY DEF Ages, Fresh, caches

(* A request's step at the same time.                                      *)
LEMMA StepKept ==
  ASSUME Ages, Fresh, UNCHANGED <<changed, clock>>, NEW r \in Requests, NEW q,
         req' = [req EXCEPT ![r] = q], ReqOK(changed, clock, q)
  PROVE  Ages'
<1>1. q \in Work /\ req' \in [Requests -> Work]
  BY DEF Ages, ReqOK
<1>2. ASSUME NEW s \in Requests PROVE ReqOK(changed, clock, req'[s])
  BY <1>2 DEF Ages
<1>3. QED BY <1>1, <1>2 DEF Ages, Fresh

LEMMA Own ==
  ASSUME Ages, NEW r \in Requests
  PROVE  /\ ReqOK(changed, clock, req[r]) /\ req[r] \in Work
         /\ changed \in Seq(Nat) /\ Len(changed) \in Nat /\ clock \in Nat
BY DEF Ages, Times

LEMMA Older ==
  ASSUME Ages, NEW g, NEW t \in Nat, NEW d \in Nat, NEW s \in Nat, NEW b \in Nat,
         NotOlder(changed, g, t, d), s + d <= t + b
  PROVE  NotOlder(changed, g, s, b)
<1>1. changed \in Seq(Nat)
  BY DEF Ages, Times
<1>2. QED BY <1>1, Shifted

LEMMA GetViewAges ==
  ASSUME Ages, NEW r \in Requests, NEW v \in Views, GetView(r, v)
  PROVE  Ages'
<1>1. clock \in Nat /\ Fresh /\ UNCHANGED <<changed, clock>>
  BY CachesKept, Own DEF GetView
<1>2. CASE Ready /\ Live(routes, v)
  <2> DEFINE x == [Idle EXCEPT !.view = v, !.pc = "answer", !.got = routes[v].got]
             q == [x EXCEPT !.born = clock]
  <2>1. req' = [req EXCEPT ![r] = q]
    BY <1>2 DEF GetView, Accept, Step
  <2>2. ServiceTTL[v] \in Nat /\ RouteTTL[v] \in Nat /\ routes[v] \in Entries
        /\ RouteOK(changed, clock, v, routes[v]) /\ clock + 1 <= routes[v].ends
        /\ routes[v].got \in Nat /\ routes[v].ends \in Nat
    BY <1>1, <1>2, Lives DEF Ages, Live, Entries
  <2>3. NotOlder(changed, routes[v].got, clock, ServiceTTL[v] + RouteTTL[v])
    <3>1. /\ ServiceTTL[v] + RouteTTL[v] \in Nat /\ ServiceTTL[v] + RouteTTL[v] + 1 \in Nat
          /\ clock + (ServiceTTL[v] + RouteTTL[v] + 1) <= routes[v].ends + (ServiceTTL[v] + RouteTTL[v])
      BY <1>1, <2>2
    <3>2. NotOlder(changed, routes[v].got, routes[v].ends, ServiceTTL[v] + RouteTTL[v] + 1)
      BY <2>2 DEF RouteOK
    <3>3. QED BY <1>1, <2>2, <3>1, <3>2, Older
  <2>4. x \in Work /\ x.pc = "answer" /\ x.view = v /\ x.got = routes[v].got
    BY <2>2, IdleInWork DEF Work, Phases
  <2> HIDE DEF x
  <2>5. q \in Work /\ q.pc = "answer" /\ q.view = v /\ q.got = routes[v].got /\ q.born = clock
    BY <1>1, <2>4, Begun
  <2> HIDE DEF q
  <2>5a. ReqOK(changed, clock, q)
    BY <1>1, <2>3, <2>5 DEF ReqOK, Reading
  <2>6. QED BY <1>1, <2>1, <2>5a, StepKept
<1>3. CASE ~(Ready /\ Live(routes, v))
  <2> DEFINE x == [Idle EXCEPT !.view = v, !.pc = "service", !.got = 0]
             q == [x EXCEPT !.born = clock]
  <2>1. req' = [req EXCEPT ![r] = q]
    BY <1>3 DEF GetView, Accept, Step
  <2>2. x \in Work /\ x.pc = "service" /\ x.view = v
    BY IdleInWork DEF Work, Phases
  <2> HIDE DEF x
  <2>2a. q \in Work /\ q.pc = "service" /\ q.view = v /\ q.born = clock
    BY <1>1, <2>2, Begun
  <2> HIDE DEF q
  <2>3. ReqOK(changed, clock, q)
    BY <1>1, <2>2a DEF ReqOK, Reading
  <2>4. QED BY <1>1, <2>1, <2>3, StepKept
<1>4. QED BY <1>2, <1>3

LEMMA GetCachedAges ==
  ASSUME Ages, NEW r \in Requests, GetCached(r)
  PROVE  Ages'
<1>1. clock \in Nat /\ Fresh /\ UNCHANGED <<changed, clock>>
  BY CachesKept, Own DEF GetCached, caches
<1> DEFINE v == req[r].view
<1>2. v \in Views /\ req[r] \in Work /\ req[r].pc = "service" /\ req[r].born \in Nat
      /\ req[r].born <= clock /\ clock <= req[r].born + 1
  BY Own DEF GetCached, At, ReqOK, Reading, Work
<1>3. CASE Ready /\ Live(service, v)
  <2> DEFINE q == [req[r] EXCEPT !.pc = "answerFresh", !.got = service[v].got]
  <2>1. req' = [req EXCEPT ![r] = q]
    BY <1>3 DEF GetCached, Step
  <2>2. ServiceTTL[v] \in Nat /\ service[v] \in Entries
        /\ ServiceOK(changed, clock, v, service[v]) /\ clock + 1 <= service[v].ends
        /\ service[v].got \in Nat /\ service[v].ends \in Nat
    BY <1>1, <1>2, <1>3, Lives DEF Ages, Live, Entries
  <2>3. NotOlder(changed, service[v].got, req[r].born, ServiceTTL[v])
    <3>1. /\ ServiceTTL[v] + 1 \in Nat
          /\ req[r].born + (ServiceTTL[v] + 1) <= service[v].ends + ServiceTTL[v]
      BY <1>1, <1>2, <2>2
    <3> HIDE DEF v
    <3>2. NotOlder(changed, service[v].got, service[v].ends, ServiceTTL[v] + 1)
      BY <2>2 DEF ServiceOK
    <3>3. QED BY <1>2, <2>2, <3>1, <3>2, Older
  <2>4. /\ q \in Work /\ q.pc = "answerFresh" /\ q.view = v /\ q.got = service[v].got
        /\ q.born = req[r].born
    BY <1>2, <2>2 DEF Work, Phases
  <2> HIDE DEF q
  <2>5. ReqOK(changed, clock, q)
    BY <1>2, <2>3, <2>4 DEF ReqOK, Reading
  <2>6. QED BY <1>1, <2>1, <2>5, StepKept
<1>4. CASE ~(Ready /\ Live(service, v))
  <2> DEFINE q == [req[r] EXCEPT !.pc = "load"]
  <2>1. req' = [req EXCEPT ![r] = q]
    BY <1>4 DEF GetCached, Goto, Step
  <2>2. q \in Work /\ q.pc = "load" /\ q.view = v /\ q.born = req[r].born
    BY <1>2 DEF Work, Phases
  <2> HIDE DEF q
  <2>3. ReqOK(changed, clock, q)
    BY <1>2, <2>2 DEF ReqOK, Reading
  <2>4. QED BY <1>1, <2>1, <2>3, StepKept
<1>5. QED BY <1>3, <1>4

LEMMA LoadAges ==
  ASSUME Ages, NEW r \in Requests, Load(r)
  PROVE  Ages'
<1>1. clock \in Nat /\ Fresh /\ UNCHANGED <<changed, clock>>
  BY CachesKept, Own DEF Load, caches
<1>2. req[r].view \in Views /\ req[r] \in Work /\ req[r].born \in Nat
      /\ req[r].born <= clock /\ clock <= req[r].born + 1
  BY Own DEF Load, At, ReqOK, Reading, Work
<1> DEFINE q == [req[r] EXCEPT !.pc = "store", !.got = Version]
<1>3. req' = [req EXCEPT ![r] = q]
  BY DEF Load, Step
<1>4. NotOlder(changed, Version, req[r].born, 0) /\ Version \in Nat
  BY Own DEF NotOlder, Version
<1>5. q \in Work /\ q.pc = "store" /\ q.view = req[r].view /\ q.got = Version /\ q.born = req[r].born
  BY <1>2, <1>4 DEF Work, Phases
<1> HIDE DEF q
<1>6. ReqOK(changed, clock, q)
  BY <1>2, <1>4, <1>5 DEF ReqOK, Reading
<1>7. QED BY <1>1, <1>3, <1>6, StepKept

LEMMA StoreViewAges ==
  ASSUME Ages, NEW r \in Requests, StoreView(r)
  PROVE  Ages'
<1> DEFINE v == req[r].view
           e == Entry(r, ServiceTTL)
           q == [req[r] EXCEPT !.pc = "answerFresh"]
<1>1. clock \in Nat /\ UNCHANGED <<changed, clock>>
  BY Own DEF StoreView
<1>2. v \in Views /\ req[r] \in Work /\ req[r].born \in Nat /\ req[r].got \in Nat
      /\ req[r].born <= clock /\ clock <= req[r].born + 1
      /\ NotOlder(changed, req[r].got, req[r].born, 0)
  BY Own DEF StoreView, At, ReqOK, Reading, Work
<1>3. ServiceTTL[v] \in Nat
  BY <1>2, Lives
<1>4. e \in Entries /\ e.got = req[r].got /\ e.ends = clock + ServiceTTL[v]
  BY <1>1, <1>2, <1>3 DEF Entry, Entries
<1>5. NotOlder(changed, e.got, e.ends, ServiceTTL[v] + 1)
  <2>1. /\ clock + ServiceTTL[v] \in Nat /\ ServiceTTL[v] + 1 \in Nat
        /\ (clock + ServiceTTL[v]) + 0 <= req[r].born + (ServiceTTL[v] + 1)
    BY <1>1, <1>2, <1>3
  <2>2. NotOlder(changed, req[r].got, clock + ServiceTTL[v], ServiceTTL[v] + 1)
    <3>1. req[r].born \in Nat /\ NotOlder(changed, req[r].got, req[r].born, 0)
      BY <1>2
    <3> HIDE DEF v
    <3>2. QED BY <2>1, <3>1, Older
  <2>3. QED BY <1>4, <2>2
<1>6. ServiceOK(changed, clock, v, e)
  BY <1>1, <1>3, <1>4, <1>5 DEF ServiceOK
<1>7. Fresh
  <2> HIDE DEF e
  <2>1. service' = service \/ service' = [service EXCEPT ![v] = e]
    BY DEF StoreView, e
  <2>2. service' \in [Views -> Entries] /\ \A x \in Views : service'[x] = service[x] \/ (x = v /\ service'[x] = e)
    BY <1>4, <2>1 DEF Ages
  <2>3. \A x \in Views : ServiceOK(changed, clock, x, service'[x])
    BY <1>6, <2>2 DEF Ages
  <2>4. QED BY <2>2, <2>3 DEF Fresh, Ages, StoreView
<1>8. NotOlder(changed, req[r].got, req[r].born, ServiceTTL[v])
  <2>1. req[r].born + 0 <= req[r].born + ServiceTTL[v]
    BY <1>2, <1>3
  <2>2. req[r].born \in Nat /\ NotOlder(changed, req[r].got, req[r].born, 0)
    BY <1>2
  <2> HIDE DEF v
  <2>3. QED BY <1>3, <2>1, <2>2, Older
<1>9. q \in Work /\ q.pc = "answerFresh" /\ q.view = v /\ q.got = req[r].got /\ q.born = req[r].born
  BY <1>2 DEF Work, Phases
<1>10. req' = [req EXCEPT ![r] = q]
  BY DEF StoreView, Goto, Step
<1> HIDE DEF q
<1>11. ReqOK(changed, clock, q)
  BY <1>2, <1>8, <1>9 DEF ReqOK, Reading
<1>12. QED BY <1>1, <1>7, <1>10, <1>11, StepKept

LEMMA AnswerAges ==
  ASSUME Ages, NEW r \in Requests, Answer(r)
  PROVE  Ages'
<1>1. Fresh /\ UNCHANGED <<changed, clock>>
  BY CachesKept DEF Answer, caches
<1>2. CASE At(r, "answer") /\ Goto(r, "idle")
  BY <1>1, <1>2, IdleOK, StepKept DEF Goto, Step
<1>3. CASE At(r, "answerFresh") /\ Goto(r, "cacheRoute")
  <2> DEFINE q == [req[r] EXCEPT !.pc = "cacheRoute"]
  <2>1. req' = [req EXCEPT ![r] = q]
    BY <1>3 DEF Goto, Step
  <2>2. ReqOK(changed, clock, req[r]) /\ req[r].pc = "answerFresh" /\ req[r] \in Work
    BY <1>3, Own DEF At
  <2>3. q \in Work /\ q.pc = "cacheRoute" /\ q.view = req[r].view /\ q.got = req[r].got
        /\ q.born = req[r].born
    BY <2>2 DEF Work, Phases
  <2> HIDE DEF q
  <2>4. ReqOK(changed, clock, q)
    BY <2>2, <2>3 DEF ReqOK, Reading
  <2>5. QED BY <1>1, <2>1, <2>4, StepKept
<1>4. QED BY <1>2, <1>3 DEF Answer

LEMMA CacheRouteAges ==
  ASSUME Ages, NEW r \in Requests, CacheRoute(r)
  PROVE  Ages'
<1> DEFINE v == req[r].view
           e == Entry(r, RouteTTL)
<1>1. clock \in Nat /\ UNCHANGED <<changed, clock>>
  BY Own DEF CacheRoute
<1>2. v \in Views /\ req[r] \in Work /\ req[r].born \in Nat /\ req[r].got \in Nat
      /\ req[r].born <= clock /\ clock <= req[r].born + 1
      /\ NotOlder(changed, req[r].got, req[r].born, ServiceTTL[v])
  BY Own DEF CacheRoute, At, ReqOK, Reading, Work
<1>3. ServiceTTL[v] \in Nat /\ RouteTTL[v] \in Nat
  BY <1>2, Lives
<1>4. e \in Entries /\ e.got = req[r].got /\ e.ends = clock + RouteTTL[v]
  BY <1>1, <1>2, <1>3 DEF Entry, Entries
<1>5. NotOlder(changed, e.got, e.ends, ServiceTTL[v] + RouteTTL[v] + 1)
  <2>1. /\ clock + RouteTTL[v] \in Nat /\ ServiceTTL[v] + RouteTTL[v] + 1 \in Nat
        /\ (clock + RouteTTL[v]) + ServiceTTL[v] <= req[r].born + (ServiceTTL[v] + RouteTTL[v] + 1)
    BY <1>1, <1>2, <1>3
  <2>2. NotOlder(changed, req[r].got, clock + RouteTTL[v], ServiceTTL[v] + RouteTTL[v] + 1)
    <3>1. req[r].born \in Nat /\ NotOlder(changed, req[r].got, req[r].born, ServiceTTL[v])
      BY <1>2
    <3> HIDE DEF v
    <3>2. QED BY <1>3, <2>1, <3>1, Older
  <2>3. QED BY <1>4, <2>2
<1>6. RouteOK(changed, clock, v, e)
  BY <1>1, <1>3, <1>4, <1>5 DEF RouteOK
<1>7. Fresh
  <2> HIDE DEF e
  <2>1. routes' = routes \/ routes' = [routes EXCEPT ![v] = e]
    BY DEF CacheRoute, e
  <2>2. routes' \in [Views -> Entries] /\ \A x \in Views : routes'[x] = routes[x] \/ (x = v /\ routes'[x] = e)
    BY <1>4, <2>1 DEF Ages
  <2>3. \A x \in Views : RouteOK(changed, clock, x, routes'[x])
    BY <1>6, <2>2 DEF Ages
  <2>4. QED BY <2>2, <2>3 DEF Fresh, Ages, CacheRoute
<1>8. req' = [req EXCEPT ![r] = Idle]
  BY DEF CacheRoute, Goto, Step
<1>9. QED BY <1>1, <1>7, <1>8, IdleOK, StepKept

LEMMA EmptyOK ==
  ASSUME Ages
  PROVE  \A v \in Views : /\ Empty \in Entries
                          /\ ServiceOK(changed, clock, v, Empty)
                          /\ RouteOK(changed, clock, v, Empty)
<1>1. changed \in Seq(Nat) /\ clock \in Nat /\ Len(changed) \in Nat
  BY DEF Ages, Times
<1>2. ASSUME NEW v \in Views
      PROVE  Empty \in Entries /\ ServiceOK(changed, clock, v, Empty) /\ RouteOK(changed, clock, v, Empty)
  <2>1. ServiceTTL[v] \in Nat /\ RouteTTL[v] \in Nat
    BY Lives
  <2>2. 0 < Len(changed) => changed[1] \in Nat
    BY <1>1
  <2>3. NotOlder(changed, 0, 0, ServiceTTL[v] + 1)
        /\ NotOlder(changed, 0, 0, ServiceTTL[v] + RouteTTL[v] + 1)
    BY <1>1, <2>1, <2>2 DEF NotOlder
  <2>4. QED BY <1>1, <2>1, <2>3 DEF Empty, Entries, ServiceOK, RouteOK
<1>3. QED BY <1>2

LEMMA InvalidateAges ==
  ASSUME Ages, NEW r \in Requests, Invalidate(r) \/ Purge(r)
  PROVE  Ages'
<1>1. clock \in Nat /\ UNCHANGED <<changed, clock>>
  BY Own DEF Invalidate, Purge
<1>2. /\ service' \in [Views -> Entries] /\ routes' \in [Views -> Entries]
      /\ \A v \in Views : service'[v] \in {service[v], Empty} /\ routes'[v] \in {routes[v], Empty}
  <2>1. CASE Invalidate(r)
    BY <2>1, EmptyOK DEF Invalidate, Ages
  <2>2. CASE Purge(r)
    BY <2>2, EmptyOK DEF Purge, Ages
  <2>3. QED BY <2>1, <2>2
<1>3. Fresh
  BY <1>2, EmptyOK DEF Fresh, Ages
<1>4. CASE Invalidate(r)
  <2> DEFINE q == [req[r] EXCEPT !.pc = "purge"]
  <2>1. req' = [req EXCEPT ![r] = q]
    BY <1>4 DEF Invalidate, Goto, Step
  <2>2. ReqOK(changed, clock, req[r]) /\ req[r].pc = "invalidate" /\ req[r] \in Work
    BY <1>4, Own DEF At, Invalidate
  <2>3. q \in Work /\ q.pc = "purge" /\ q.born = req[r].born
    BY <2>2 DEF Work, Phases
  <2> HIDE DEF q
  <2>4. ReqOK(changed, clock, q)
    BY <2>2, <2>3 DEF ReqOK, Reading
  <2>5. QED BY <1>1, <1>3, <2>1, <2>4, StepKept
<1>5. CASE Purge(r)
  BY <1>1, <1>3, <1>5, IdleOK, StepKept DEF Purge, Goto, Step
<1>6. QED BY <1>4, <1>5

LEMMA WriteAges ==
  ASSUME Ages, NEW r \in Requests, NEW who \in Writers, Write(r, who)
  PROVE  Ages'
<1> DEFINE x == [Idle EXCEPT !.pc = "invalidate", !.view = who]
           q == [x EXCEPT !.born = clock]
           c == Append(changed, clock)
<1>1. clock \in Nat /\ Times(changed, clock) /\ UNCHANGED <<caches, clock>> /\ changed' = c
  BY DEF Write, Ages, Times
<1>2. req' = [req EXCEPT ![r] = q]
  BY DEF Write, Accept, Step
<1>2a. x \in Work /\ x.pc = "invalidate"
  BY IdleInWork DEF Work, Phases
<1> HIDE DEF x
<1>3. q \in Work /\ q.pc = "invalidate" /\ q.born = clock
  BY <1>1, <1>2a, Begun
<1> HIDE DEF q
<1>4. ReqOK(c, clock, q)
  BY <1>1, <1>3 DEF ReqOK, Reading
<1>5. Times(c, clock)
  BY <1>1, Appended
<1>6. req' \in [Requests -> Work] /\ \A s \in Requests : s # r => req'[s] = req[s]
  BY <1>2, <1>3 DEF Ages
<1>6a. req'[r] = q
  BY <1>2 DEF Ages
<1> HIDE DEF c
<1>7. \A s \in Requests : ReqOK(c, clock, req'[s])
  <2>1. \A s \in Requests : ReqOK(changed, clock, req[s])
    BY DEF Ages
  <2>2. \A s \in Requests : ReqOK(c, clock, req[s])
    BY <1>1, <2>1, WriteKept DEF c
  <2>3. QED BY <1>4, <1>6, <1>6a, <2>2
<1>8. /\ \A v \in Views : ServiceOK(c, clock, v, service[v])
      /\ \A v \in Views : RouteOK(c, clock, v, routes[v])
  BY <1>1, WriteKept DEF c, Ages
<1>9. QED BY <1>1, <1>5, <1>6, <1>7, <1>8 DEF Ages, caches

LEMMA TickAges == ASSUME Ages, Tick PROVE Ages'
<1>1. Times(changed, clock) /\ UNCHANGED <<changed, service, routes, req>> /\ clock' = clock + 1
  BY DEF Ages, Tick, caches
<1>2. \A r \in Requests : req[r].pc = "idle" \/ req[r].born = clock
  BY DEF Tick, At
<1>3. Times(changed, clock + 1) /\ \A r \in Requests : ReqOK(changed, clock + 1, req[r])
  BY <1>1, <1>2, TickKept DEF Ages
<1>4. /\ \A v \in Views : ServiceOK(changed, clock + 1, v, service[v])
      /\ \A v \in Views : RouteOK(changed, clock + 1, v, routes[v])
  BY <1>1, TickKept DEF Ages
<1>5. QED BY <1>1, <1>3, <1>4 DEF Ages

LEMMA PingAges ==
  ASSUME Ages, NEW r \in Requests, StartPing(r) \/ Pinged(r)
  PROVE  Ages'
<1>1. clock \in Nat /\ Fresh /\ UNCHANGED <<changed, clock>>
  BY CachesKept, Own DEF StartPing, Pinged, profiles, caches
<1>2. CASE StartPing(r)
  <2> DEFINE x == [Idle EXCEPT !.pc = "ping"]
             q == [x EXCEPT !.born = clock]
  <2>1. req' = [req EXCEPT ![r] = q]
    BY <1>2 DEF StartPing, Accept, Step
  <2>2. x \in Work /\ x.pc = "ping"
    BY IdleInWork DEF Work, Phases
  <2> HIDE DEF x
  <2>2a. q \in Work /\ q.pc = "ping" /\ q.born = clock
    BY <1>1, <2>2, Begun
  <2> HIDE DEF q
  <2>3. ReqOK(changed, clock, q)
    BY <1>1, <2>2a DEF ReqOK, Reading
  <2>4. QED BY <1>1, <2>1, <2>3, StepKept
<1>3. CASE Pinged(r)
  <2>1. req' = [req EXCEPT ![r] = Idle]
    BY <1>3 DEF Pinged, Ping, WaitForReady
  <2>2. QED BY <1>1, <2>1, IdleOK, StepKept
<1>4. QED BY <1>2, <1>3

LEMMA ServerAges == ASSUME Ages, ServerStep, UNCHANGED profiles PROVE Ages'
<1>1. UNCHANGED <<changed, service, routes, clock>>
  BY DEF profiles, caches
<1>2. CASE req' = req
  BY <1>1, <1>2 DEF Ages
<1>3. CASE req' = [r \in Requests |-> Idle]
  <2>1. req' \in [Requests -> Work] /\ \A r \in Requests : req'[r] = Idle
    BY <1>3, IdleInWork
  <2>2. \A r \in Requests : ReqOK(changed, clock, req'[r])
    BY <2>1, IdleOK
  <2>3. QED BY <1>1, <2>1, <2>2 DEF Ages
<1>4. QED BY <1>2, <1>3, ServerReqs

LEMMA AgesNext == ASSUME Ages, [Next]_vars PROVE Ages'
<1>1. CASE ServerStep /\ UNCHANGED profiles
  BY <1>1, ServerAges
<1>2. CASE Tick
  BY <1>2, TickAges
<1>3. ASSUME NEW r \in Requests,
             \/ \E v \in Views : GetView(r, v)
             \/ \E who \in Writers : Write(r, who)
             \/ StartPing(r) \/ Handle(r) \/ Pinged(r)
      PROVE  Ages'
  BY <1>3, GetViewAges, WriteAges, PingAges, GetCachedAges, LoadAges, StoreViewAges, AnswerAges,
     CacheRouteAges, InvalidateAges DEF Handle
<1>4. CASE UNCHANGED vars
  BY <1>4 DEF vars, Ages
<1>5. QED BY <1>1, <1>2, <1>3, <1>4 DEF Next

LEMMA AgesInit == Init => Ages
<1> SUFFICES ASSUME Init PROVE Ages
  OBVIOUS
<1>1. /\ changed = <<>> /\ clock = 0 /\ req = [r \in Requests |-> Idle]
      /\ service = [v \in Views |-> [got |-> 0, ends |-> ServiceTTL[v]]]
      /\ routes = [v \in Views |-> Empty]
  BY DEF Init, ServerInit
<1>2. Times(changed, clock) /\ Len(changed) = 0
  BY <1>1 DEF Times
<1>3. req \in [Requests -> Work] /\ \A r \in Requests : ReqOK(changed, clock, req[r])
  BY <1>1, IdleInWork, IdleOK
<1>4. \A g \in {0} : \A t, d : NotOlder(changed, g, t, d)
  BY <1>1 DEF NotOlder
<1>5. service \in [Views -> Entries] /\ routes \in [Views -> Entries]
  BY <1>1, Lives DEF Empty, Entries
<1>6. \A v \in Views : ServiceOK(changed, clock, v, service[v])
  BY <1>1, <1>4, <1>5, Lives DEF ServiceOK
<1>7. \A v \in Views : RouteOK(changed, clock, v, routes[v])
  BY <1>1, <1>4, <1>5, Lives DEF RouteOK, Empty
<1>8. QED BY <1>2, <1>3, <1>5, <1>6, <1>7 DEF Ages

-----------------------------------------------------------------------------
(* How far a shutdown has come.  calmStart says that start had returned    *)
(* when the signal came: nothing but shutdown changes listening then, and  *)
(* once it is off no request begins.                                       *)
Calm ==
  /\ calmStart => boot = "up" /\ exit = "running" /\ stop # "none"
  /\ boot = "up" /\ stop = "none" => listening
  /\ calmStart /\ stop \in {"workers", "sockets"} => listening
  /\ calmStart /\ stop \in {"socketsClosed", "httpClosed"} => ~listening
  /\ calmStart /\ stop = "http" /\ ~listening => InFlight = {}
  /\ calmStart /\ stop \in {"redis", "database"} => ~listening /\ InFlight = {}

Bounded == changed \in Seq(0..MaxClock) /\ clock \in 0..MaxClock

IInv == Ages /\ Flags /\ Counts /\ Calm /\ Bounded

LEMMA CalmServer == ASSUME Calm, Flags, Counts, ServerStep PROVE Calm'
<1>1. CASE exit' = "running" /\ req' = req
  <2>0. InFlight' = InFlight
    BY <1>1 DEF InFlight
  <2>1. CASE ConnectDatabase \/ ConnectFails \/ ConnectRedis \/ StartBackground
    <3>1. boot # "up" /\ boot' # "up" /\ calmStart' = calmStart
      BY <1>1, <2>1 DEF ConnectDatabase, ConnectFails, ConnectRedis, StartBackground, Exit
    <3>2. QED BY <3>1 DEF Calm
  <2>2. CASE Listen \/ ListenFails
    BY <1>1, <2>2 DEF Listen, ListenFails, Exit, Calm
  <2>3. CASE Signal
    BY <1>1, <2>0, <2>3 DEF Signal, Calm, Running
  <2>4. CASE StopWorkers
    BY <1>1, <2>0, <2>4 DEF StopWorkers, Calm
  <2>5. CASE CloseSockets
    BY <1>1, <2>0, <2>5 DEF CloseSockets, Calm, Flags
  <2>6. CASE SocketsClosed
    BY <1>1, <2>0, <2>6 DEF SocketsClosed, Calm
  <2>7. CASE CloseHttp
    BY <1>1, <2>0, <2>7 DEF CloseHttp, Calm
  <2>8. CASE CloseFails \/ DisconnectDatabase \/ ForceExit
    BY <1>1, <2>8 DEF CloseFails, DisconnectDatabase, ForceExit, Exit
  <2>9. CASE HttpClosed \/ DisconnectRedis
    BY <1>1, <2>0, <2>9 DEF HttpClosed, DisconnectRedis, Calm
  <2>10. CASE RedisDown \/ RedisUp \/ Retry \/ Reconnect
    BY <1>1, <2>0, <2>10 DEF RedisDown, RedisUp, Retry, Reconnect, process, Calm
  <2>11. QED BY <2>1, <2>2, <2>3, <2>4, <2>5, <2>6, <2>7, <2>8, <2>9, <2>10
         DEF ServerStep, Boot, Shutdown
<1>2. CASE ~(exit' = "running" /\ req' = req)
  <2>1. calmStart' = FALSE /\ boot' = "database"
    BY <1>2 DEF ServerStep, Boot, Shutdown, ConnectDatabase, ConnectFails, ConnectRedis,
       StartBackground, Listen, ListenFails, Signal, StopWorkers, CloseSockets, SocketsClosed,
       CloseHttp, CloseFails, HttpClosed, DisconnectRedis, DisconnectDatabase, ForceExit,
       RedisDown, RedisUp, Retry, Reconnect, process, Exit, Running
  <2>2. QED BY <2>1 DEF Calm
<1>3. QED BY <1>1, <1>2

(* A request's step: only one that begins adds to those in flight, and it  *)
(* needs a server that listens.                                            *)
LEMMA Drains ==
  ASSUME Ages, NEW r \in Requests,
         \/ \E v \in Views : GetView(r, v)
         \/ \E who \in Writers : Write(r, who)
         \/ StartPing(r) \/ Handle(r) \/ Pinged(r)
  PROVE  UNCHANGED process /\ (~listening /\ InFlight = {} => InFlight' = {})
<1>1. CASE (\E v \in Views : GetView(r, v)) \/ (\E who \in Writers : Write(r, who)) \/ StartPing(r)
  BY <1>1 DEF GetView, Write, StartPing, Accept, server
<1>2. CASE Handle(r) \/ Pinged(r)
  <2>1. UNCHANGED process
    BY <1>2 DEF Handle, GetCached, Load, StoreView, Answer, CacheRoute, Invalidate, Purge, Pinged,
       Ping, WaitForReady, server
  <2>2. ASSUME InFlight = {} PROVE InFlight' = {}
    <3>1. req[r].pc \in {"idle", "cacheRoute", "purge"}
      BY <2>2 DEF InFlight
    <3>2. req' = [req EXCEPT ![r] = Idle]
      BY <1>2, <3>1 DEF Handle, GetCached, Load, StoreView, Answer, CacheRoute, Invalidate, Purge,
         Pinged, Ping, WaitForReady, At, Goto, Step
    <3>3. \A s \in Requests : req'[s] = Idle \/ req'[s] = req[s]
      BY <3>2 DEF Ages
    <3>4. QED BY <2>2, <3>3 DEF InFlight, Idle
  <2>3. QED BY <2>1, <2>2
<1>3. QED BY <1>1, <1>2

LEMMA CalmRequests ==
  ASSUME Ages, Calm, UNCHANGED process, ~listening /\ InFlight = {} => InFlight' = {}
  PROVE  Calm'
BY DEF Calm, process

LEMMA BoundedNext == ASSUME Bounded, [Next]_vars PROVE Bounded'
<1>1. CASE UNCHANGED <<changed, clock>>
  BY <1>1 DEF Bounded
<1>2. ASSUME NEW r \in Requests, NEW who \in Writers, Write(r, who) PROVE Bounded'
  BY <1>2 DEF Write, Bounded
<1>3. CASE Tick
  BY <1>3, ProfilesAssumption DEF Tick, Bounded
<1>4. QED BY <1>1, <1>2, <1>3 DEF Next, vars, profiles, caches, GetView, StartPing, Handle, Pinged,
      GetCached, Load, StoreView, Answer, CacheRoute, Invalidate, Purge

LEMMA InvInit == Init => IInv
<1> SUFFICES ASSUME Init PROVE IInv
  OBVIOUS
<1>1. Flags
  BY DEF Init, ServerInit, Flags
<1>2. Counts
  BY ServerAssumption DEF Init, ServerInit, Counts, ServerTypeOK
<1>3. Calm
  BY DEF Init, ServerInit, Calm
<1>4. Bounded
  BY ProfilesAssumption DEF Init, Bounded
<1>5. QED BY <1>1, <1>2, <1>3, <1>4, AgesInit DEF IInv

LEMMA InvNext == ASSUME IInv, [Next]_vars PROVE IInv'
<1>1. Ages /\ Flags /\ Counts /\ Calm /\ Bounded
  BY DEF IInv
<1>2. Ages' /\ Bounded'
  BY <1>1, AgesNext, BoundedNext
<1>3. Flags' /\ Counts' /\ Calm'
  <2>1. CASE ServerStep /\ UNCHANGED profiles
    BY <1>1, <2>1, BootTyped, ShutdownTyped, RedisTyped, CalmServer DEF ServerStep
  <2>2. ASSUME NEW r \in Requests,
               \/ \E v \in Views : GetView(r, v)
               \/ \E who \in Writers : Write(r, who)
               \/ StartPing(r) \/ Handle(r) \/ Pinged(r)
        PROVE  Flags' /\ Counts' /\ Calm'
    <3>1. Calm'
      BY <1>1, <2>2, Drains, CalmRequests
    <3>2. CASE UNCHANGED server
      <4>1. Flags'
        BY <1>1, <3>2 DEF server, process, redis, Flags
      <4>2. Counts'
        BY <1>1, <3>2 DEF server, process, redis, Counts, ServerTypeOK
      <4>3. QED BY <3>1, <4>1, <4>2
    <3>3. CASE Pinged(r)
      BY <1>1, <3>1, <3>3, PingTyped DEF Pinged
    <3>4. QED BY <2>2, <3>2, <3>3 DEF GetView, Write, StartPing, Accept, Handle, GetCached, Load,
          StoreView, Answer, CacheRoute, Invalidate, Purge
  <2>3. CASE UNCHANGED <<process, redis, faults, req>>
    <3>1. Flags'
      BY <1>1, <2>3 DEF process, redis, Flags
    <3>2. Counts'
      BY <1>1, <2>3 DEF process, redis, Counts, ServerTypeOK
    <3>3. Calm'
      BY <1>1, <2>3 DEF process, Calm, InFlight
    <3>4. QED BY <3>1, <3>2, <3>3
  <2>4. CASE Tick
    BY <2>3, <2>4 DEF Tick, server
  <2>5. CASE UNCHANGED vars
    BY <2>3, <2>5 DEF vars, process, redis
  <2>6. QED BY <2>1, <2>2, <2>4, <2>5 DEF Next
<1>4. QED BY <1>2, <1>3 DEF IInv

(* The invariant holds in every state that can be reached.                 *)
THEOREM Invariance == Spec => []IInv
BY InvInit, InvNext, PTL DEF Spec

(* The process, the clients' requests and both caches have their types.    *)
THEOREM TypeCorrect == Spec => []TypeOK
<1>1. IInv => TypeOK
  BY DEF IInv, Ages, Counts, Bounded, TypeOK, Entries
<1>2. QED BY <1>1, Invariance, PTL

(* Nothing that is handed out is older than both times to live and a tick. *)
THEOREM StalenessBounded == Spec => []StaleBounded
<1>1. IInv => StaleBounded
  <2> SUFFICES ASSUME IInv, NEW r \in Requests, req[r].pc \in {"answer", "answerFresh"},
                      req[r].got < Version
               PROVE  clock - changed[req[r].got + 1]
                        <= ServiceTTL[req[r].view] + RouteTTL[req[r].view] + 1
    BY DEF StaleBounded
  <2> DEFINE w == req[r]
  <2>1. ReqOK(changed, clock, w) /\ changed \in Seq(Nat) /\ clock \in Nat
    BY Own DEF IInv
  <2>2. w \in Work /\ w.born \in Nat /\ w.got \in Nat /\ w.view \in Views /\ clock <= w.born + 1
    BY <2>1 DEF ReqOK, Work, Reading
  <2>3. ServiceTTL[w.view] \in Nat /\ RouteTTL[w.view] \in Nat
    BY <2>2, Lives
  <2>4. changed[w.got + 1] \in Nat
    <3>1. w.got + 1 \in 1..Len(changed)
      BY <2>1, <2>2 DEF Version
    <3>2. QED BY <2>1, <3>1
  <2>5. w.born <= changed[w.got + 1] + (ServiceTTL[w.view] + RouteTTL[w.view])
    <3>1. CASE w.pc = "answer"
      BY <2>1, <3>1 DEF ReqOK, NotOlder, Version
    <3>2. CASE w.pc = "answerFresh"
      <4>1. w.born <= changed[w.got + 1] + ServiceTTL[w.view]
        BY <2>1, <3>2 DEF ReqOK, NotOlder, Version
      <4>2. QED BY <2>2, <2>3, <2>4, <4>1
    <3>3. QED BY <3>1, <3>2
  <2> HIDE DEF w
  <2>6. clock - changed[w.got + 1] <= ServiceTTL[w.view] + RouteTTL[w.view] + 1
    <3>1. clock \in Nat
      BY <2>1
    <3>2. QED BY <2>2, <2>3, <2>4, <2>5, <3>1, Summed
  <2>7. QED BY <2>6 DEF w
<1>2. QED BY <1>1, Invariance, PTL

(* A shutdown begun after start had returned ends, unless by its timer,    *)
(* with no request in flight.                                              *)
THEOREM DrainedAtExit == Spec => RequestsDrained
<1>1. ASSUME IInv, [Next]_vars, calmStart, exit' \in {"error", "clean"}
      PROVE  InFlight = {}
  <2>1. exit = "running" /\ boot = "up" /\ stop # "none"
    BY <1>1 DEF IInv, Calm
  <2>2. CASE ServerStep
    <3>1. CloseFails \/ DisconnectDatabase
      BY <1>1, <2>1, <2>2 DEF ServerStep, Boot, Shutdown, ConnectDatabase, ConnectFails, ConnectRedis,
         StartBackground, Listen, ListenFails, Signal, StopWorkers, CloseSockets, SocketsClosed,
         CloseHttp, HttpClosed, DisconnectRedis, ForceExit, RedisDown, RedisUp, Retry, Reconnect,
         process, Exit
    <3>2. QED BY <1>1, <3>1 DEF CloseFails, DisconnectDatabase, IInv, Calm
  <2>3. ASSUME NEW r \in Requests,
               \/ \E v \in Views : GetView(r, v)
               \/ \E who \in Writers : Write(r, who)
               \/ StartPing(r) \/ Handle(r) \/ Pinged(r)
        PROVE  exit' = exit
    BY <1>1, <2>3, Drains DEF IInv, process
  <2>4. CASE Tick \/ UNCHANGED vars
    BY <2>4, <1>1, <2>1 DEF Tick, server, process, vars
  <2>5. QED BY <1>1, <2>1, <2>2, <2>3, <2>4 DEF Next
<1>2. IInv /\ [Next]_vars
        => [(calmStart /\ exit' \in {"error", "clean"}) => InFlight = {}]_<<exit, calmStart, req>>
  BY <1>1
<1>3. QED BY <1>2, Invariance, PTL DEF Spec, RequestsDrained

=============================================================================
