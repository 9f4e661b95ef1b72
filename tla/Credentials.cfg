\* Two overlapping requests of six, limits of two.
CONSTANTS
  Requests = {r1, r2}
  Codes = {c1, c2}
  None = None
  LockMax = 2
  RateMax = 2
  OtpMax = 1
  MaxStarts = 6
  MaxClock = 2
  MaxFaults = 1
SPECIFICATION Spec
SYMMETRY Symmetric
INVARIANTS LockedAtLimit OtpBounded
\* The system stops when all requests are done and the clock has run out.
CHECK_DEADLOCK FALSE
