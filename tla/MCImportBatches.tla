-------------------------- MODULE MCImportBatches --------------------------
(* The import batches on a small instance: a bank file and a marketplace   *)
(* file, each with a row of its own.                                       *)
EXTENDS ImportBatches

CONSTANTS fBank, fShop, kBank, kSkip, kShop

SourceOf == [f \in {fBank, fShop} |-> IF f = fBank THEN "bank" ELSE "marketplace"]
RowsOf   == [f \in {fBank, fShop} |-> IF f = fBank THEN {kBank, kSkip} ELSE {kShop}]
=============================================================================
