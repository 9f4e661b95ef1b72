\* Two overlapping requests: two reads or probes and a write, over five ticks,
\* and one failure of MongoDB, Redis, socket.io or the port.
CONSTANTS
  Requests = {r1, r2}
  None = None
  MaxTries = 2
  MaxRetries = 1
  MaxFaults = 1
  Views = {"me"}
  ServiceTTL <- OneTick
  RouteTTL <- OneTick
  Writers = {"admin"}
  Prefixed = TRUE
  MaxWrites = 1
  MaxReads = 2
  MaxClock = 4
SPECIFICATION Spec
INVARIANTS StaleBounded
PROPERTIES RequestsDrained ShutdownEnds RedisReturns
\* The system stops when the process has ended.
CHECK_DEADLOCK FALSE
