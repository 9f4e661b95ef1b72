CONSTANTS
  bank1 = bank1  bank2 = bank2  paypal1 = paypal1  paypal2 = paypal2
  Null = none  none = none
  LowerOf <- MCLowerOf
  Symbols = {";"}
  AmountOf <- MCAmountOf
  DateOf <- MCDateOf
  TimeOf <- MCTimeOf
  BrokenPatterns = {}
  CashFiles = {bank1, bank2, paypal1, paypal2}
  Contents <- MCContents
  SourceOf <- MCSourceOf
  Configs <- MCConfigs
  InForce = "two"
  Today <- MCToday
  Marks = {"open", "reviewed", "skipped"}
  Assigned <- MCAssigned
  Periods <- MCPeriods
  AllowMatchedWithoutReview = TRUE
  BlockExportIfOpen = TRUE
  MaxSteps = 4
  Payments <- MCPayments
  TwoEnds <- MCTwoEnds
  Parse <- MCParse
  Found <- MCFound
  Reading <- MCReading
  AmazonIds <- MCAmazonIds
  PartsOf <- MCPartsOf
  Reports <- MCReports
  Rates <- MCRates
  FeeVat <- MCFeeVat
  Deeds <- MCDeeds
  Treatments = {"none", "reverse_charge_13b"}
SPECIFICATION Spec
INVARIANTS EveryRecordOnce BalanceKept ReapplySettled ClearingNets
  BooksAgree OrderIrrelevant ReportsAgree SalesInBoth
PROPERTY ExportBalances

\* The system stops when its commands are used up.
CHECK_DEADLOCK FALSE
