\* One request at a time, nothing fails.
SPECIFICATION Spec
CONSTANTS
  t1 = t1  t2 = t2  t3 = t3  b1 = b1  b2 = b2  r1 = r1  r2 = r2  r3 = r3
  kGood = kGood  kForbidden = kForbidden
  Tx = {t1, t2, t3}
  Requests = {r1}
  Batches = {b1, b2}
  Konten = {kGood, kForbidden}
  Forbidden = {kForbidden}
  Bookable = {t1, t2}
  Skipped = {}
  ZeroAmount = {}
  Periods <- OnePeriod
  ImportBatches <- OneImport
  Groups <- OneGroup
  CanFail = FALSE
  NoKonto = NoKonto  NoBatch = NoBatch  NoTx = NoTx
  NoGroup = NoGroup  NoPeriod = NoPeriod
SYMMETRY BatchSymmetry
INVARIANTS FileOnce ExportedAsBooked
PROPERTY ExportedLeftByMerge
\* Once everything is exported nothing need happen, and batch ids run out.
CHECK_DEADLOCK FALSE
