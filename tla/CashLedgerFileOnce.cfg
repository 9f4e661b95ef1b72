\* Two overlapping exports; nothing fails.
SPECIFICATION Spec
CONSTANTS
  t1 = t1  t2 = t2  t3 = t3  b1 = b1  b2 = b2  r1 = r1  r2 = r2  r3 = r3 
  kGood = kGood  kForbidden = kForbidden
  Tx = {t1}
  Requests = {r1, r2}
  Batches = {b1, b2}
  Konten = {kGood, kForbidden}
  Forbidden = {kForbidden}
  Bookable = {t1}
  Skipped = {}
  ZeroAmount = {}
  Periods <- OnePeriod
  ImportBatches <- OneImport
  Groups <- NoGroups
  CanFail = FALSE
  NoKonto = NoKonto  NoBatch = NoBatch  NoTx = NoTx
  NoGroup = NoGroup  NoPeriod = NoPeriod
SYMMETRY RequestSymmetry
INVARIANT FileOnce
\* Once everything is exported nothing need happen, and batch ids run out.
CHECK_DEADLOCK FALSE
