\* Two overlapping requests of four, one fault.
CONSTANTS
  kBank = kBank  kInventory = kInventory  kLegacy = kLegacy  kCollective = kCollective
  bank = bank  inventory = inventory  a1 = a1  a2 = a2  k1 = k1  k2 = k2  k3 = k3
  Requests = {r1, r2}
  None = None
  Konten = {kBank, kInventory, kLegacy, kCollective}
  Entered = {kLegacy}
  RuleIds = {k1, k2, k3}
  FirstRules <- OneRule
  SuggestionIds = {s1}
  Signatures = {g1}
  Collectives = {kCollective}
  Slots = {bank, inventory}
  Synced = {bank}
  DefaultSlots <- Defaults
  Inventory = inventory
  Bank = bank
  Legacy = kLegacy
  AccountIds = {a1, a2}
  FirstAccounts <- TwoAccounts
  TTL = 1
  MaxClock = 1
  MaxStarts = 4
  MaxFaults = 1
SPECIFICATION Spec
SYMMETRY Symmetric
INVARIANTS VersionsTraceable RulePerSuggestion CacheBounded
PROPERTY RenumberingReaches
\* The system stops when all requests are done and the clock has run out.
CHECK_DEADLOCK FALSE
