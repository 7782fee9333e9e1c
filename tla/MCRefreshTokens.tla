--------------------------- MODULE MCRefreshTokens ---------------------------
(***************************************************************************)
(* RefreshTokens for TLC: interchangeable connections, and a memory of the *)
(* tokens each refusal has to end.                                         *)
(***************************************************************************)
EXTENDS RefreshTokens, TLC

Connections == Permutations(Txns)

\* The tokens of the family that were alive when the request was refused.
VARIABLE owed

Alive(f) == {t \in Rows : tokens[t].family = f /\ Live(t)}

Owing(x) ==
  IF At(x, "refused")' /\ ~At(x, "refused") THEN Alive(txn[x].family)'
  ELSE IF txn'[x] = Idle THEN {} ELSE owed[x]

InitOwing == Init /\ owed = [x \in Txns |-> {}]

NextOwing == Next /\ owed' = [x \in Txns |-> Owing(x)]

SpecOwing == InitOwing /\ [][NextOwing]_<<vars, owed>>

\* A replay, a sign-out or a renewal of a disabled account, the revocation of which
\* is a transaction of its own, ends every token of the family that was alive when
\* it was refused, whatever ran in between, unless the server goes down first.
RefusalEndsTheFamily ==
  [][\A x \in Txns :
       txn[x] # Idle /\ txn'[x] = Idle /\ ~crashed'[x] => \A t \in owed[x] : ~Live(t)']_<<vars, owed>>
=============================================================================
