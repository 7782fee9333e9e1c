---------------------------- MODULE RefreshTokens ----------------------------
(***************************************************************************)
(* The sessions of the server: refresh_tokens and the requests that open,  *)
(* renew and end a session, each a READ COMMITTED transaction of several   *)
(* statements, or two transactions in a row where a renewal is refused.    *)
(*                                                                         *)
(* A token is exchanged once; a family is everything descended from one    *)
(* sign-in and is what gets revoked.  A write becomes visible when its     *)
(* transaction commits; until then the row it changed is locked.           *)
(***************************************************************************)
EXTENDS FiniteSets, Naturals

CONSTANTS
  Txns,       \* connections
  Tokens,     \* bound: the values mintRefreshToken returns; a family's first names it
  Profiles,
  NoToken,    \* no row
  Idle        \* no request

VARIABLES
  tokens,     \* the committed rows
  minted,     \* values ever minted, in a row or not
  profiles,   \* profiles: active, inactive or gone
  txn,        \* what each connection is in the middle of
  crashed     \* connections last cut off while they had a family to revoke

vars == <<tokens, minted, profiles, txn, crashed>>

TokenRow == [profile : Profiles, family : Tokens, rotated : BOOLEAN, revoked : BOOLEAN,
             expired : BOOLEAN]
ASSUME NoTokenAssumption == NoToken \notin Tokens \cup TokenRow

Steps == {"opening", "rotating", "marked", "refused", "ending", "revoking", "deleting"}
Request == [pc : Steps, token : Tokens \cup {NoToken}, family : Tokens \cup {NoToken},
            profile : Profiles, targets : SUBSET Tokens, reopen : BOOLEAN]
ASSUME IdleAssumption == Idle \notin Request

Rows == {t \in Tokens : tokens[t] # NoToken}
FamilyOf(f) == {t \in Rows : tokens[t].family = f}
Live(t) == t \in Rows /\ ~tokens[t].rotated /\ ~tokens[t].revoked /\ ~tokens[t].expired

At(x, pc) == txn[x] # Idle /\ txn[x].pc = pc

\* A row is locked by the renewal that has marked it.
LockedAgainst(x, t) == \E y \in Txns \ {x} : At(y, "marked") /\ txn[y].token = t
\* A profile is locked by the transaction deleting it, and against deletion by one
\* that has written its password.
BeingDeleted(x, p) == \E y \in Txns \ {x} : At(y, "deleting") /\ txn[y].profile = p
BeingWritten(p) == \E y \in Txns : txn[y] # Idle /\ txn[y].reopen /\ txn[y].profile = p

\* Bound: a request that may mint begins while there is a value left for it.
Room == Cardinality(Tokens \ minted) > Cardinality({x \in Txns : txn[x] # Idle})

\* mintRefreshToken: a value never given out; which one makes no difference.
Fresh == CHOOSE n \in Tokens : n \notin minted

Begin(x, pc, t, f, p, reopen) ==
  /\ txn' = [txn EXCEPT ![x] = [pc |-> pc, token |-> t, family |-> f, profile |-> p,
                                targets |-> {}, reopen |-> reopen]]
  /\ crashed' = [crashed EXCEPT ![x] = FALSE]
GoTo(x, pc) == txn' = [txn EXCEPT ![x].pc = pc]
End(x) == txn' = [txn EXCEPT ![x] = Idle]

NewRow(p, f) == [profile |-> p, family |-> f, rotated |-> FALSE, revoked |-> FALSE, expired |-> FALSE]

Init ==
  /\ tokens = [t \in Tokens |-> NoToken]
  /\ minted = {}
  /\ profiles = [p \in Profiles |-> "active"]
  /\ txn = [x \in Txns |-> Idle]
  /\ crashed = [x \in Txns |-> FALSE]

-----------------------------------------------------------------------------
(* Signing in *)

\* The credentials of an active account were accepted.
Login(x, p) ==
  /\ txn[x] = Idle /\ profiles[p] = "active" /\ Room
  /\ Begin(x, "opening", NoToken, NoToken, p, FALSE)
  /\ UNCHANGED <<tokens, minted, profiles>>

\* Mutant: refresh_tokens.profile_id is not a foreign key.
OpenFamilyUnreferenced(x) ==
  /\ At(x, "opening") /\ minted # Tokens
  /\ tokens' = [tokens EXCEPT ![Fresh] = NewRow(txn[x].profile, Fresh)]
  /\ minted' = minted \cup {Fresh}
  /\ End(x)
  /\ UNCHANGED <<profiles, crashed>>

\* issuePair under a new family; the foreign key refuses a profile that is gone.
OpenFamily(x) ==
  /\ At(x, "opening") /\ ~BeingDeleted(x, txn[x].profile)
  /\ IF profiles[txn[x].profile] = "gone"
       THEN UNCHANGED <<tokens, minted>>
       ELSE /\ minted # Tokens
            /\ tokens' = [tokens EXCEPT ![Fresh] = NewRow(txn[x].profile, Fresh)]
            /\ minted' = minted \cup {Fresh}
  /\ End(x)
  /\ UNCHANGED <<profiles, crashed>>

-----------------------------------------------------------------------------
(* Renewing *)

\* findTokenByHash and classifyRefresh.  A rotated token is reuse whatever else it
\* is; an unknown, revoked or expired one is refused and changes nothing.
BeginRefresh(x, t) ==
  /\ txn[x] = Idle /\ t \in Rows
  /\ \/ /\ tokens[t].rotated
        /\ Begin(x, "refused", t, tokens[t].family, tokens[t].profile, FALSE)
     \/ /\ Live(t) /\ Room
        /\ Begin(x, "rotating", t, tokens[t].family, tokens[t].profile, FALSE)
  /\ UNCHANGED <<tokens, minted, profiles>>

\* Mutant: the update does not ask whether the token was rotated since.
MarkTokenRotatedAlways(x) ==
  /\ At(x, "rotating") /\ ~LockedAgainst(x, txn[x].token)
  /\ IF txn[x].token \in Rows THEN GoTo(x, "marked") ELSE GoTo(x, "refused")
  /\ UNCHANGED <<tokens, minted, profiles, crashed>>

\* markTokenRotated: UPDATE ... WHERE rotated_at IS NULL, once the row is free.
MarkTokenRotated(x) ==
  /\ At(x, "rotating") /\ ~LockedAgainst(x, txn[x].token)
  /\ IF txn[x].token \in Rows /\ ~tokens[txn[x].token].rotated
       THEN GoTo(x, "marked")
       ELSE GoTo(x, "refused")
  /\ UNCHANGED <<tokens, minted, profiles, crashed>>

Rotated(t) == [tokens EXCEPT ![t].rotated = TRUE]

\* The account is read again: active, it gets the next token of the family; not,
\* the token stays rotated and the family is to be revoked.
FinishRefresh(x) ==
  LET t == txn[x].token p == txn[x].profile IN
  /\ At(x, "marked")
  /\ \/ /\ profiles[p] = "active" /\ ~BeingDeleted(x, p)
        /\ minted # Tokens
        /\ tokens' = [Rotated(t) EXCEPT ![Fresh] = NewRow(p, txn[x].family)]
        /\ minted' = minted \cup {Fresh}
        /\ End(x)
     \/ /\ profiles[p] # "active"
        /\ tokens' = Rotated(t)
        /\ minted' = minted
        /\ GoTo(x, "refused")
  /\ UNCHANGED <<profiles, crashed>>

-----------------------------------------------------------------------------
(* Ending *)

\* logout: a token that has a row, in whatever state, names its family.
Logout(x, t) ==
  /\ txn[x] = Idle /\ t \in Rows
  /\ Begin(x, "refused", t, tokens[t].family, tokens[t].profile, FALSE)
  /\ UNCHANGED <<tokens, minted, profiles>>

\* logoutEverywhere and resetPassword; changeOwnPassword opens a session afterwards.
EndSessions(x, p, reopen) ==
  /\ txn[x] = Idle /\ profiles[p] # "gone"
  /\ reopen => Room /\ ~BeingDeleted(x, p) /\ ~BeingWritten(p)
  /\ Begin(x, "ending", NoToken, NoToken, p, reopen)
  /\ UNCHANGED <<tokens, minted, profiles>>

\* Mutant: a refused renewal revokes the token presented, not its family.
SnapshotPresented(x) ==
  /\ At(x, "refused") \/ At(x, "ending")
  /\ txn' = [txn EXCEPT ![x].pc = "revoking",
                        ![x].targets = {t \in Rows : /\ ~tokens[t].revoked
                                                     /\ IF txn[x].pc = "refused"
                                                          THEN t = txn[x].token
                                                          ELSE tokens[t].profile = txn[x].profile}]
  /\ UNCHANGED <<tokens, minted, profiles, crashed>>

\* The UPDATE of revokeFamily or revokeAllForProfile takes its snapshot: the rows
\* committed by now that match.
Snapshot(x) ==
  /\ At(x, "refused") \/ At(x, "ending")
  /\ txn' = [txn EXCEPT ![x].pc = "revoking",
                        ![x].targets = {t \in Rows : /\ ~tokens[t].revoked
                                                     /\ IF txn[x].pc = "refused"
                                                          THEN tokens[t].family = txn[x].family
                                                          ELSE tokens[t].profile = txn[x].profile}]
  /\ UNCHANGED <<tokens, minted, profiles, crashed>>

Revoked(S) ==
  [t \in Tokens |-> IF t \in S \cap Rows THEN [tokens[t] EXCEPT !.revoked = TRUE] ELSE tokens[t]]

\* It updates them once none is locked, and the transaction commits.
Revoke(x) ==
  /\ At(x, "revoking")
  /\ \A t \in txn[x].targets : ~LockedAgainst(x, t)
  /\ IF txn[x].reopen
       THEN /\ minted # Tokens
            /\ tokens' = [Revoked(txn[x].targets) EXCEPT ![Fresh] = NewRow(txn[x].profile, Fresh)]
            /\ minted' = minted \cup {Fresh}
       ELSE tokens' = Revoked(txn[x].targets) /\ minted' = minted
  /\ End(x)
  /\ UNCHANGED <<profiles, crashed>>

\* deleteStaff and the deletion of a member: the profile row is locked, then the
\* cascade takes its tokens once none is locked.
BeginDelete(x, p) ==
  /\ txn[x] = Idle /\ profiles[p] # "gone" /\ ~BeingDeleted(x, p) /\ ~BeingWritten(p)
  /\ Begin(x, "deleting", NoToken, NoToken, p, FALSE)
  /\ UNCHANGED <<tokens, minted, profiles>>

FinishDelete(x) ==
  /\ At(x, "deleting")
  /\ \A t \in Rows : tokens[t].profile = txn[x].profile => ~LockedAgainst(x, t)
  /\ tokens' = [t \in Tokens |-> IF t \in Rows /\ tokens[t].profile = txn[x].profile
                                   THEN NoToken ELSE tokens[t]]
  /\ profiles' = [profiles EXCEPT ![txn[x].profile] = "gone"]
  /\ End(x)
  /\ UNCHANGED <<minted, crashed>>

-----------------------------------------------------------------------------
(* What happens to requests and rows by themselves *)

\* A renewal and a deletion wait for each other; Postgres aborts one of them.
KillDeadlocked(x) ==
  /\ \E y \in Txns \ {x} :
       \/ At(x, "marked") /\ At(y, "deleting") /\ txn[x].profile = txn[y].profile
       \/ At(y, "marked") /\ At(x, "deleting") /\ txn[x].profile = txn[y].profile
  /\ End(x)
  /\ UNCHANGED <<tokens, minted, profiles, crashed>>

\* The process restarts or the connection is lost; nothing uncommitted survives,
\* and the second transaction of a refusal is never begun.
Crash(x) ==
  /\ txn[x] # Idle
  /\ crashed' = [crashed EXCEPT ![x] = txn[x].pc \in {"refused", "revoking"}]
  /\ End(x)
  /\ UNCHANGED <<tokens, minted, profiles>>

\* Time passes: a token expires.
Expire(t) ==
  /\ t \in Rows /\ ~tokens[t].expired
  /\ tokens' = [tokens EXCEPT ![t].expired = TRUE]
  /\ UNCHANGED <<minted, profiles, txn, crashed>>

\* cleanup-expired-refresh-tokens, which waits for a renewal that holds a row.  Which
\* of the expired rows are a week past their expiry is left open.
Cleanup ==
  \E S \in (SUBSET {t \in Rows : tokens[t].expired}) \ {{}} :
    /\ \A t \in S, x \in Txns : ~(At(x, "marked") /\ txn[x].token = t)
    /\ tokens' = [t \in Tokens |-> IF t \in S THEN NoToken ELSE tokens[t]]
    /\ UNCHANGED <<minted, profiles, txn, crashed>>

\* profiles.is_active is set by hand in the database; no route writes it.
Deactivate(p) ==
  /\ profiles[p] = "active"
  /\ ~\E x \in Txns : At(x, "deleting") /\ txn[x].profile = p
  /\ profiles' = [profiles EXCEPT ![p] = "inactive"]
  /\ UNCHANGED <<tokens, minted, txn, crashed>>

\* The steps that carry a request to its end.
Step(x) ==
  \/ OpenFamily(x) \/ MarkTokenRotated(x) \/ FinishRefresh(x)
  \/ Snapshot(x) \/ Revoke(x) \/ FinishDelete(x) \/ KillDeadlocked(x)

Next ==
  \/ \E x \in Txns :
       \/ Step(x) \/ Crash(x)
       \/ \E p \in Profiles : \/ Login(x, p) \/ BeginDelete(x, p)
                              \/ \E reopen \in BOOLEAN : EndSessions(x, p, reopen)
       \/ \E t \in Tokens : BeginRefresh(x, t) \/ Logout(x, t)
  \/ \E t \in Tokens : Expire(t)
  \/ \E p \in Profiles : Deactivate(p)
  \/ Cleanup

Spec == Init /\ [][Next]_vars

-----------------------------------------------------------------------------
(* Properties *)

\* Every variable keeps its type.
TypeOK ==
  /\ tokens \in [Tokens -> TokenRow \cup {NoToken}]
  /\ minted \subseteq Tokens
  /\ profiles \in [Profiles -> {"active", "inactive", "gone"}]
  /\ txn \in [Txns -> Request \cup {Idle}]
  /\ crashed \in [Txns -> BOOLEAN]

\* However renewals interleave, a family has at most one token that was never
\* exchanged: nobody can hold two sessions that came from one sign-in.
OneLiveTokenPerFamily ==
  \A t, u \in Rows :
    tokens[t].family = tokens[u].family /\ ~tokens[t].rotated /\ ~tokens[u].rotated => t = u

\* However a sign-in, a renewal or a password change races the deletion of the account,
\* no token survives the account it belongs to.
NoSessionWithoutAccount == \A t \in Rows : profiles[tokens[t].profile] # "gone"

\* Once a family is revoked none of its tokens opens a session again.
RevokedFamilyIsDead ==
  \A t, u \in Rows : tokens[t].family = tokens[u].family /\ tokens[t].revoked => ~Live(u)

=============================================================================
