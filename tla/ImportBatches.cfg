\* Two requests at a time, the watchdog, and one rejected call or crash.
SPECIFICATION ImportSpec
CONSTANTS
  fBank = fBank  fShop = fShop  kBank = kBank  kSkip = kSkip  kShop = kShop
  Files = {fBank, fShop}
  Keys = {kBank, kSkip, kShop}
  Source <- SourceOf
  FileRows <- RowsOf
  Unbookable = {kSkip}
  Faulty = {fBank}
  Batches = {1, 2}
  Uploads = {u1, u2}
  MaxFailures = 1
  NoFile = NoFile  NoBatch = NoBatch  NoKey = NoKey
INVARIANTS CompletedStored EventsFollow
PROPERTY AccrualSettles
\* Once the batch ids are used up and everything is settled nothing need happen.
CHECK_DEADLOCK FALSE
