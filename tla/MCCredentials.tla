--------------------------- MODULE MCCredentials ---------------------------
(* A small instance: two requests that overlap, low limits.                *)
EXTENDS Credentials, TLC
Symmetric == Permutations(Requests) \cup Permutations(Codes)
=============================================================================
