\* Two overlapping requests, and one rejected call or crash.
SPECIFICATION Spec
CONSTANTS
  eSale = eSale  eFee = eFee  eOrder = eOrder  day = day
  Events = {eSale}
  FirstType <- Types3
  FromJtl = {eSale}
  FirstFx <- Fx2
  Actual <- Actual2
  DateOf <- Date2
  Periods = {{day}}
  RatePercent = 19
  Entries = {1, 2}
  Jobs = {j1, j2}
  Requests = {r1, r2}
  MaxFailures = 1
  NoEur = NoEur  NoEvent = NoEvent  NoEntry = NoEntry  NoJob = NoJob
SYMMETRY RequestSymmetry
INVARIANTS FilesBalanced MarksBacked
\* Once the ids are used up and everything is exported nothing need happen.
CHECK_DEADLOCK FALSE
