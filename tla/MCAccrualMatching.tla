------------------------- MODULE MCAccrualMatching -------------------------
(* Matching on small instances: two reports of an Amazon order, its        *)
(* settlement and its JTL invoice; a Back Market order, its payout and its *)
(* order in JTL; a fee of no order.                                        *)
EXTENDS AccrualMatching, TLC

CONSTANTS report1, report2, settled, bmOrder, paid, fee, jtlOrder, invoice,
          amazon, backmarket,
          kReport, kSettled, kBm, kPaid, kFee, kOrder, kInvoice

Kinds == [r \in Rows |->
  CASE r \in {report1, report2, bmOrder, jtlOrder} -> "order"
    [] r = settled -> "settlement"  [] r = paid    -> "payout"
    [] r = fee     -> "fee"         [] r = invoice -> "invoice"]
Orders == [r \in Rows |->
  CASE r = fee                        -> NoOrder
    [] r \in {bmOrder, paid, jtlOrder} -> backmarket
    [] OTHER                          -> amazon]
Keys == [r \in Rows |->
  CASE r \in {report1, report2} -> kReport
    [] r = settled -> kSettled  [] r = bmOrder -> kBm  [] r = paid    -> kPaid
    [] r = jtlOrder -> kOrder   [] r = fee     -> kFee [] r = invoice -> kInvoice]

ImportSymmetry == Permutations(Imports)
=============================================================================
