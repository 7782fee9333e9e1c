---------------------------- MODULE MCMemberCodes ----------------------------
(***************************************************************************)
(* MemberCodes for TLC: interchangeable connections, people and groups.    *)
(***************************************************************************)
EXTENDS MemberCodes, TLC

Interchangeable ==
  Permutations(Txns) \cup Permutations(People) \cup Permutations(Groups) \cup Permutations(Cohorts)
=============================================================================
