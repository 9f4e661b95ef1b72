-------------------------- MODULE MCAccrualJournal --------------------------
(* The accrual journal on small instances: a foreign sale (or the order it *)
(* is made from) converted at the ECB rate and settled by the marketplace  *)
(* at another, and a fee.                                                  *)
EXTENDS AccrualJournal, TLC

CONSTANTS eSale, eFee, eOrder, day

Types3 == [e \in Events |-> CASE e = eSale -> "SALE" [] e = eFee -> "FEE"
                             [] e = eOrder -> "ORDER_CREATED"]
Fx2 == [e \in Events |-> IF e # eFee
          THEN [original |-> 120, eur |-> 100, source |-> "ECB"]
          ELSE [original |-> -10, eur |-> -10, source |-> "ECB"]]
Actual2 == [e \in Events |-> IF e # eFee THEN 95 ELSE NoEur]
Date2   == [e \in Events |-> day]

JobSymmetry     == Permutations(Jobs)
RequestSymmetry == Permutations(Requests) \cup Permutations(Jobs)
=============================================================================
