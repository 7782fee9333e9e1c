-------------------------- MODULE MemberCodeHistory --------------------------
(***************************************************************************)
(* MemberCodes with a memory: who ever held which code.                    *)
(***************************************************************************)
EXTENDS MemberCodes

VARIABLE given   \* history: every code ever committed, with the person it named

Given == {<<rows[p].code, p>> : p \in {q \in People : rows[q] # NoMember /\ rows[q].code # NoCode}}

HistoryInit == Init /\ given = {}
HistoryNext == Next /\ given' = given \cup Given'
HistorySpec == HistoryInit /\ [][HistoryNext]_<<vars, given>>

\* A code that has named one person never names another one later.
NeverReused == \A h, k \in given : h[1] = k[1] => h[2] = k[2]

=============================================================================
