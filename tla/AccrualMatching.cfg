\* One request at a time over an Amazon and a Back Market order, one failure.
SPECIFICATION Spec
CONSTANTS
  report1 = report1  report2 = report2  settled = settled  bmOrder = bmOrder
  paid = paid  fee = fee  jtlOrder = jtlOrder  invoice = invoice
  amazon = amazon  backmarket = backmarket
  kReport = kReport  kSettled = kSettled  kBm = kBm  kPaid = kPaid
  kFee = kFee  kOrder = kOrder  kInvoice = kInvoice
  MpRows = {report1, report2, settled, bmOrder, paid}
  AmazonRows = {report1, report2, settled}
  JtlRows = {jtlOrder, invoice}
  Kind <- Kinds
  OrderOf <- Orders
  Key <- Keys
  Imports = {i1}
  MaxFailures = 1
  NoOrder = NoOrder  NoRow = NoRow
INVARIANTS SalesInvoiced CancelledIsVoid InvoiceRecognised WaitingIsOpen
PROPERTY VoidStays
\* Once every row is imported nothing need happen.
CHECK_DEADLOCK FALSE
