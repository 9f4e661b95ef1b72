--------------------------- MODULE MCRefreshTokens ---------------------------
(* A small instance: one user, a few tokens, overlapping requests. *)
EXTENDS RefreshTokens, TLC
Symmetric == Permutations(Tokens) \cup Permutations(Requests)
=============================================================================
