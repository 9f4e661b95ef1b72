----------------------------- MODULE MCProfiles -----------------------------
(* Times to live of one tick, which is also the longest a request takes.   *)
EXTENDS Profiles
OneTick == [v \in Views |-> 1]
=============================================================================
