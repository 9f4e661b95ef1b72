---------------------------- MODULE MCCashLedger ----------------------------
(* The cash ledger on small instances.                                     *)
EXTENDS CashLedger, TLC

CONSTANTS t1, t2, t3, b1, b2, r1, r2, r3, kGood, kForbidden

(* One export period.  t2 is a PayPal transaction of its last day: the     *)
(* gather takes the day to 23:59:59.999, the open check only to midnight.  *)
(* t3 is one kept for the balance only: rules reach it, exports do not.    *)
OnePeriod == {[window |-> Tx, openWindow |-> Tx \ {t2}]}

(* Uploads that overlap: one group lists transactions that are different   *)
(* (a re-upload puts all its duplicates into one group), or there is none. *)
OneGroup  == {[keep |-> t1, rest |-> {t2}]}
SelfGroup == {[keep |-> t1, rest |-> {t1}]}
NoGroups  == {}

OneImport == {Tx}
NoImports == {}

BatchSymmetry   == Permutations(Batches)
RequestSymmetry == Permutations(Requests) \cup Permutations(Batches)
=============================================================================
