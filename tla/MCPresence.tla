------------------------------- MODULE MCPresence -------------------------------
(***************************************************************************)
(* Presence for TLC.                                                       *)
(***************************************************************************)
EXTENDS Presence, TLC

Interchangeable == Permutations(Members) \cup Permutations(Checks) \cup Permutations(Txns)
=============================================================================
