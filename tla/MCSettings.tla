----------------------------- MODULE MCSettings -----------------------------
(* Two slots, three numbers, of which one is the legacy inventory account. *)
EXTENDS Settings, TLC
CONSTANTS kBank, kInventory, kLegacy, kCollective, bank, inventory, a1, a2, k1, k2, k3
Defaults == (bank :> kBank) @@ (inventory :> kInventory)
TwoAccounts == (a1 :> [number |-> kLegacy, deleted |-> FALSE, system |-> FALSE]) @@ (a2 :> None)
OneRule == [k \in {k2, k3} |-> None] @@
  (k1 :> [konto |-> kLegacy, gegenkonto |-> kBank, version |-> 1, deleted |-> FALSE,
          source |-> "manual"])
Symmetric == Permutations(Requests) \cup Permutations({k2, k3})
=============================================================================
