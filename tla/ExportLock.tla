----------------------------- MODULE ExportLock -----------------------------
(***************************************************************************)
(* What the cash DATEV export promises of a transaction's export lock,     *)
(* whatever requests overlap or fail: a transaction is first claimed by    *)
(* one export batch (its ExportItem) and then marked with it               *)
(* (exportedInBatchId).  A claim is made once and never moves to another   *)
(* batch; a mark follows its claim and is never taken back.                *)
(***************************************************************************)
CONSTANTS Tx, Batches, NoBatch

VARIABLES claim,    \* the batch whose ExportItem names the transaction
          mark      \* the batch the transaction itself points to

Init == /\ claim = [t \in Tx |-> NoBatch]
        /\ mark  = [t \in Tx |-> NoBatch]

Claim(t, b) == /\ claim[t] = NoBatch
               /\ claim' = [claim EXCEPT ![t] = b]
               /\ UNCHANGED mark

Mark(t) == /\ claim[t] # NoBatch
           /\ mark' = [mark EXCEPT ![t] = claim[t]]
           /\ UNCHANGED claim

Next == \E t \in Tx : Mark(t) \/ \E b \in Batches : Claim(t, b)

Spec == Init /\ [][Next]_<<claim, mark>>
=============================================================================
