------------------------------ MODULE MCQrTokens ------------------------------
(***************************************************************************)
(* QrTokens for TLC: a branch takes codes, or takes nothing while it is    *)
(* blocked.                                                                *)
(***************************************************************************)
EXTENDS QrTokens, TLC

SomeRules == {[qr |-> TRUE, blocked |-> FALSE], [qr |-> TRUE, blocked |-> TRUE]}

\* Bound: once two codes exist, one of them is personal, and it is one day, in one
\* branch, under one set of rules.
Focus ==
  (\A c \in Codes : tokens[c] # NoToken) =>
    /\ today = 1 /\ ~requiresMember /\ \A b \in Branches : ~rules[b].blocked
    /\ \E c \in Codes : SingleUse(tokens[c])
    /\ \A m, n \in Members : home[m] = home[n]
    /\ \A c \in Codes, m \in Members : tokens[c].day = 1 /\ tokens[c].branch = home[m]

Interchangeable == Permutations(Txns) \cup Permutations(Members) \cup Permutations(Codes)
  \cup Permutations(Branches)
=============================================================================
