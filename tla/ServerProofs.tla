------------------------- MODULE ServerProofs -------------------------
(***************************************************************************)
(* What the server keeps of its sessions and of its own start, for any     *)
(* number of connections, tokens, profiles, processes, images and jobs.    *)
(*                                                                         *)
(* RefreshTokens: the invariant carries the locks the statements rely on,  *)
(* a renewal holds the row it marked and a deletion holds the profile; and *)
(* what a refusal still owes its family is in the snapshot it took.        *)
(*                                                                         *)
(* StartUp: a process serves only with its migrations applied, the         *)
(* password shown last opens the account, and no file is applied twice but *)
(* one a process left between its commit and its row.                      *)
(***************************************************************************)
EXTENDS MCRefreshTokens, MCStartUp, TLAPS, WellFoundedInduction

\* A value in a row, or naming a family, was minted.
RowsAreMinted == \A t \in Rows : t \in minted /\ tokens[t].family \in minted

\* A renewal remembers the row it read, and holds it unexchanged once marked.
RenewalsHoldTheirRow ==
  \A x \in Txns :
    /\ At(x, "rotating") \/ At(x, "marked") =>
         /\ txn[x].token \in minted
         /\ txn[x].token \in Rows => /\ tokens[txn[x].token].family = txn[x].family
                                     /\ tokens[txn[x].token].profile = txn[x].profile
    /\ At(x, "marked") => txn[x].token \in Rows /\ ~tokens[txn[x].token].rotated
    /\ At(x, "marked") => \A y \in Txns \ {x} : At(y, "marked") => txn[y].token # txn[x].token

\* A deletion, and a change of password, hold the profile's row while it exists.
ProfilesAreHeld ==
  \A x \in Txns :
    /\ txn[x] # Idle /\ txn[x].reopen => profiles[txn[x].profile] # "gone"
    /\ At(x, "deleting") =>
         \A y \in Txns \ {x} : txn[y] # Idle /\ txn[y].reopen => txn[y].profile # txn[x].profile

\* The inductive invariant.
IInv ==
  /\ TypeOK /\ RowsAreMinted /\ RenewalsHoldTheirRow /\ ProfilesAreHeld
  /\ OneLiveTokenPerFamily /\ NoSessionWithoutAccount

\* A minted value is new.
LEMMA FreshIsNew ==
  ASSUME minted \subseteq Tokens, minted # Tokens
  PROVE  Fresh \in Tokens /\ Fresh \notin minted
BY DEF Fresh

\* The initial state satisfies it: there is neither row nor request.
LEMMA Initially == Init => IInv
BY DEF Init, IInv, TypeOK, RowsAreMinted, RenewalsHoldTheirRow, ProfilesAreHeld, Rows, At,
       OneLiveTokenPerFamily, NoSessionWithoutAccount

\* Signing in, and asking for anything, changes no row.
LEMMA RequestsBegin ==
  ASSUME IInv, NEW x \in Txns, NEW p, NEW t, NEW reopen \in BOOLEAN,
         \/ p \in Profiles /\ (Login(x, p) \/ EndSessions(x, p, reopen) \/ BeginDelete(x, p))
         \/ t \in Tokens /\ (BeginRefresh(x, t) \/ Logout(x, t))
  PROVE  IInv'
<1>1. UNCHANGED <<tokens, minted, profiles>> /\ Rows' = Rows
  BY DEF Login, BeginRefresh, Logout, EndSessions, BeginDelete, Rows
<1>2. TypeOK'
  <2>1. t \in Rows => tokens[t].family \in Tokens /\ tokens[t].profile \in Profiles
    BY DEF IInv, TypeOK, Rows, TokenRow
  <2>2. \E r \in Request : txn' = [txn EXCEPT ![x] = r]
    BY <2>1 DEF Login, BeginRefresh, Logout, EndSessions, BeginDelete, Begin, Request, Steps
  <2>3. crashed' = [crashed EXCEPT ![x] = FALSE]
    BY DEF Login, BeginRefresh, Logout, EndSessions, BeginDelete, Begin
  <2> QED BY <1>1, <2>2, <2>3 DEF IInv, TypeOK
<1>3. RowsAreMinted' /\ OneLiveTokenPerFamily' /\ NoSessionWithoutAccount'
  BY <1>1 DEF IInv, RowsAreMinted, OneLiveTokenPerFamily, NoSessionWithoutAccount
<1>4. RenewalsHoldTheirRow'
  <2>1. \A y \in Txns \ {x} : txn'[y] = txn[y]
    BY DEF Login, BeginRefresh, Logout, EndSessions, BeginDelete, Begin, IInv, TypeOK
  <2>2. ~At(x, "marked")'
    BY DEF Login, BeginRefresh, Logout, EndSessions, BeginDelete, Begin, IInv, TypeOK, At
  <2>3. At(x, "rotating")' => /\ txn'[x].token = t /\ t \in Rows
                              /\ txn'[x].family = tokens[t].family
                              /\ txn'[x].profile = tokens[t].profile
    BY DEF Login, BeginRefresh, Logout, EndSessions, BeginDelete, Begin, IInv, TypeOK, At
  <2> QED BY <1>1, <2>1, <2>2, <2>3 DEF IInv, RowsAreMinted, RenewalsHoldTheirRow, At
<1>5. ProfilesAreHeld'
  BY <1>1 DEF IInv, TypeOK, ProfilesAreHeld, Login, BeginRefresh, Logout, EndSessions,
              BeginDelete, Begin, At, BeingDeleted, BeingWritten
<1> QED BY <1>2, <1>3, <1>4, <1>5 DEF IInv

\* Waiting for a lock, taking a snapshot and being cut off change no row either.
LEMMA RequestsMove ==
  ASSUME IInv, NEW x \in Txns,
         MarkTokenRotated(x) \/ Snapshot(x) \/ KillDeadlocked(x) \/ Crash(x)
  PROVE  IInv'
<1>1. UNCHANGED <<tokens, minted, profiles>> /\ Rows' = Rows
  BY DEF MarkTokenRotated, Snapshot, KillDeadlocked, Crash, Rows
<1>2. TypeOK'
  <2>1. txn[x] # Idle => txn[x] \in Request
    BY DEF IInv, TypeOK
  <2>2. \E r \in Request \cup {Idle} : txn' = [txn EXCEPT ![x] = r]
    <3>1. CASE MarkTokenRotated(x)
      BY <2>1, <3>1 DEF MarkTokenRotated, GoTo, At, Request, Steps
    <3>2. CASE Snapshot(x)
      BY <2>1, <3>2 DEF Snapshot, At, Request, Steps, Rows
    <3>3. CASE KillDeadlocked(x) \/ Crash(x)
      BY <3>3 DEF KillDeadlocked, Crash, End
    <3> QED BY <3>1, <3>2, <3>3
  <2>3. crashed' \in [Txns -> BOOLEAN]
    <3>1. CASE Crash(x)
      BY <3>1 DEF Crash, IInv, TypeOK
    <3>2. CASE ~Crash(x)
      BY <3>2 DEF MarkTokenRotated, Snapshot, KillDeadlocked, IInv, TypeOK
    <3> QED BY <3>1, <3>2
  <2> QED BY <1>1, <2>2, <2>3 DEF IInv, TypeOK
<1>3. RowsAreMinted' /\ OneLiveTokenPerFamily' /\ NoSessionWithoutAccount'
  BY <1>1 DEF IInv, RowsAreMinted, OneLiveTokenPerFamily, NoSessionWithoutAccount
<1>4. RenewalsHoldTheirRow'
  <2>1. \A y \in Txns \ {x} : txn'[y] = txn[y]
    BY DEF MarkTokenRotated, Snapshot, KillDeadlocked, Crash, GoTo, End, IInv, TypeOK
  <2>2. ~At(x, "rotating")'
    BY DEF MarkTokenRotated, Snapshot, KillDeadlocked, Crash, GoTo, End, IInv, TypeOK, At, Request
  <2>3. At(x, "marked")' => /\ At(x, "rotating") /\ ~LockedAgainst(x, txn[x].token)
                            /\ txn[x].token \in Rows /\ ~tokens[txn[x].token].rotated
                            /\ txn'[x].token = txn[x].token /\ txn'[x].family = txn[x].family
                            /\ txn'[x].profile = txn[x].profile
    BY DEF MarkTokenRotated, Snapshot, KillDeadlocked, Crash, GoTo, End, IInv, TypeOK, At, Request
  <2> QED BY <1>1, <2>1, <2>2, <2>3 DEF IInv, RenewalsHoldTheirRow, At, LockedAgainst
<1>5. ProfilesAreHeld'
  BY <1>1 DEF IInv, TypeOK, ProfilesAreHeld, MarkTokenRotated, Snapshot, KillDeadlocked, Crash,
              GoTo, End, At, Request
<1> QED BY <1>2, <1>3, <1>4, <1>5 DEF IInv

\* A request that is done leaves the others as they are.
LEMMA RequestsEnd ==
  ASSUME IInv, NEW x \in Txns, End(x)
  PROVE  /\ txn' \in [Txns -> Request \cup {Idle}]
         /\ txn'[x] = Idle
         /\ \A y \in Txns \ {x} : txn'[y] = txn[y]
BY DEF IInv, TypeOK, End

\* What an account is given: a row of its own under a value nobody holds.
LEMMA NewRowIsARow ==
  ASSUME NEW p \in Profiles, NEW f \in Tokens
  PROVE  /\ NewRow(p, f) \in TokenRow
         /\ NewRow(p, f) # NoToken
         /\ NewRow(p, f).family = f /\ NewRow(p, f).profile = p
<1>1. NewRow(p, f) \in TokenRow
  BY DEF NewRow, TokenRow
<1>2. NewRow(p, f).family = f /\ NewRow(p, f).profile = p
  BY DEF NewRow
<1> QED BY <1>1, <1>2, NoTokenAssumption

\* A sign-in opens a family that had no token.
LEMMA FamiliesOpen ==
  ASSUME IInv, NEW x \in Txns, OpenFamily(x)
  PROVE  IInv'
<1> DEFINE p == txn[x].profile
           row == NewRow(p, Fresh)
<1>1. p \in Profiles /\ End(x) /\ profiles' = profiles /\ crashed' = crashed
  BY DEF OpenFamily, At, IInv, TypeOK, Request
<1>2. CASE profiles[p] = "gone"
  <2>1. UNCHANGED <<tokens, minted>> /\ Rows' = Rows
    BY <1>2 DEF OpenFamily, Rows
  <2> QED
    BY <1>1, <2>1, RequestsEnd DEF IInv, TypeOK, RowsAreMinted, RenewalsHoldTheirRow,
       ProfilesAreHeld, OneLiveTokenPerFamily, NoSessionWithoutAccount, At
<1>3. CASE profiles[p] # "gone"
  <2>1. /\ minted # Tokens
        /\ tokens' = [tokens EXCEPT ![Fresh] = row] /\ minted' = minted \cup {Fresh}
    BY <1>3 DEF OpenFamily
  <2>2. Fresh \in Tokens /\ Fresh \notin minted /\ Fresh \notin Rows
    BY <2>1, FreshIsNew DEF IInv, TypeOK, RowsAreMinted
  <2>3. row \in TokenRow /\ row # NoToken /\ row.family = Fresh /\ row.profile = p
    BY <1>1, <2>2, NewRowIsARow
  <2> HIDE DEF row, p
  <2>4. Rows' = Rows \cup {Fresh} /\ tokens'[Fresh] = row /\ \A t \in Rows : tokens'[t] = tokens[t]
    BY <2>1, <2>2, <2>3 DEF IInv, TypeOK, Rows
  <2>5. TypeOK' /\ RowsAreMinted'
    BY <1>1, <2>1, <2>2, <2>3, <2>4, RequestsEnd DEF IInv, TypeOK, RowsAreMinted
  <2>6. RenewalsHoldTheirRow'
    BY <1>1, <2>1, <2>2, <2>4, RequestsEnd DEF IInv, RenewalsHoldTheirRow, At
  <2>7. ProfilesAreHeld' /\ NoSessionWithoutAccount'
    BY <1>1, <1>3, <2>3, <2>4, RequestsEnd DEF IInv, ProfilesAreHeld, NoSessionWithoutAccount, At, p
  <2>8. OneLiveTokenPerFamily'
    BY <2>2, <2>3, <2>4 DEF IInv, OneLiveTokenPerFamily, RowsAreMinted
  <2> QED BY <2>5, <2>6, <2>7, <2>8 DEF IInv
<1> QED BY <1>2, <1>3

\* A renewal exchanges the token it holds for the next of its family, or leaves it
\* exchanged for nothing when the account was disabled.
LEMMA RenewalsFinish ==
  ASSUME IInv, NEW x \in Txns, FinishRefresh(x)
  PROVE  IInv'
<1> DEFINE t == txn[x].token
           p == txn[x].profile
           f == txn[x].family
           used == [tokens[t] EXCEPT !.rotated = TRUE]
<1>1. /\ t \in Rows /\ ~tokens[t].rotated /\ tokens[t].family = f /\ tokens[t].profile = p
      /\ p \in Profiles /\ f \in Tokens /\ f \in minted
  BY DEF FinishRefresh, IInv, TypeOK, RenewalsHoldTheirRow, RowsAreMinted, At, Rows, TokenRow
<1>2. used \in TokenRow /\ used # NoToken /\ used.family = f /\ used.profile = p /\ used.rotated
  <2>1. tokens[t] \in TokenRow
    BY <1>1 DEF IInv, TypeOK, Rows
  <2>2. used \in TokenRow /\ used.family = f /\ used.profile = p /\ used.rotated
    BY <1>1, <2>1 DEF TokenRow
  <2> QED BY <2>2, NoTokenAssumption
<1>3. profiles' = profiles /\ crashed' = crashed /\ At(x, "marked")
  BY DEF FinishRefresh
<1>4. \A y \in Txns \ {x} : At(y, "marked") => txn[y].token # t
  BY <1>3 DEF IInv, RenewalsHoldTheirRow
<1>5. CASE /\ profiles[p] = "active" /\ minted # Tokens
           /\ tokens' = [Rotated(t) EXCEPT ![Fresh] = NewRow(p, f)]
           /\ minted' = minted \cup {Fresh}
           /\ End(x)
  <2> DEFINE row == NewRow(p, f)
  <2>1. Fresh \in Tokens /\ Fresh \notin minted /\ Fresh \notin Rows
    BY <1>5, FreshIsNew DEF IInv, TypeOK, RowsAreMinted
  <2>2. row \in TokenRow /\ row # NoToken /\ row.family = f /\ row.profile = p
    BY <1>1, NewRowIsARow
  <2>3. tokens' = [tokens EXCEPT ![t] = used, ![Fresh] = row] /\ minted' = minted \cup {Fresh}
    BY <1>5 DEF Rotated
  <2> HIDE DEF row, p, f, t, used
  <2>4. /\ Rows' = Rows \cup {Fresh} /\ tokens'[Fresh] = row /\ tokens'[t] = used
        /\ \A u \in Rows \ {t} : tokens'[u] = tokens[u]
    BY <1>1, <1>2, <2>1, <2>2, <2>3 DEF IInv, TypeOK, Rows
  <2>5. TypeOK' /\ RowsAreMinted'
    <3>1. TypeOK'
      BY <1>1, <1>2, <1>3, <1>5, <2>1, <2>2, <2>3, RequestsEnd DEF IInv, TypeOK
    <3>2. RowsAreMinted'
      <4>1. minted' = minted \cup {Fresh}
        BY <2>3
      <4> QED BY <1>1, <1>2, <2>2, <2>4, <4>1 DEF IInv, RowsAreMinted
    <3> QED BY <3>1, <3>2
  <2>6. RenewalsHoldTheirRow'
    BY <1>1, <1>2, <1>4, <1>5, <2>1, <2>3, <2>4, RequestsEnd DEF IInv, RenewalsHoldTheirRow, At
  <2>7. ProfilesAreHeld' /\ NoSessionWithoutAccount'
    BY <1>1, <1>2, <1>3, <1>5, <2>2, <2>4, RequestsEnd DEF IInv, ProfilesAreHeld,
       NoSessionWithoutAccount, At
  <2>8. OneLiveTokenPerFamily'
    BY <1>1, <1>2, <2>1, <2>2, <2>4 DEF IInv, OneLiveTokenPerFamily
  <2> QED BY <2>5, <2>6, <2>7, <2>8 DEF IInv
<1>6. CASE tokens' = Rotated(t) /\ minted' = minted /\ GoTo(x, "refused")
  <2>1. tokens' = [tokens EXCEPT ![t] = used]
    BY <1>6 DEF Rotated
  <2>2. txn[x] \in Request
    BY <1>3 DEF IInv, TypeOK, At
  <2>3. /\ txn' \in [Txns -> Request \cup {Idle}] /\ \A y \in Txns \ {x} : txn'[y] = txn[y]
        /\ txn'[x] = [txn[x] EXCEPT !.pc = "refused"] /\ txn'[x] \in Request
        /\ txn'[x].pc = "refused" /\ txn'[x].reopen = txn[x].reopen /\ txn'[x].profile = p
    BY <1>6, <2>2 DEF GoTo, IInv, TypeOK, Request, Steps
  <2> HIDE DEF p, f, t, used
  <2>4. /\ Rows' = Rows /\ tokens'[t] = used /\ \A u \in Rows \ {t} : tokens'[u] = tokens[u]
    BY <1>1, <1>2, <2>1 DEF IInv, TypeOK, Rows
  <2>5. TypeOK' /\ RowsAreMinted'
    BY <1>1, <1>2, <1>3, <1>6, <2>1, <2>3, <2>4 DEF IInv, TypeOK, RowsAreMinted
  <2>6. RenewalsHoldTheirRow'
    <3>1. ~At(x, "rotating")' /\ ~At(x, "marked")'
      BY <2>3 DEF At
    <3>2. \A y \in Txns \ {x}, pc \in Steps : At(y, pc)' = At(y, pc)
      BY <2>3 DEF At
    <3>3. ASSUME NEW y \in Txns \ {x}, At(y, "rotating") \/ At(y, "marked")
          PROVE  /\ txn[y].token \in minted'
                 /\ txn[y].token \in Rows' => /\ tokens'[txn[y].token].family = txn[y].family
                                               /\ tokens'[txn[y].token].profile = txn[y].profile
                 /\ At(y, "marked") => /\ txn[y].token \in Rows'
                                       /\ ~tokens'[txn[y].token].rotated
      BY <1>1, <1>2, <1>4, <1>6, <2>4, <3>3 DEF IInv, RenewalsHoldTheirRow
    <3> QED BY <2>3, <3>1, <3>2, <3>3 DEF IInv, RenewalsHoldTheirRow, Steps
  <2>7. ProfilesAreHeld' /\ NoSessionWithoutAccount'
    <3>1. ProfilesAreHeld'
      <4>1. \A y \in Txns : txn'[y] # Idle =>
              /\ txn[y] # Idle /\ txn'[y].reopen = txn[y].reopen
              /\ txn'[y].profile = txn[y].profile
              /\ txn'[y].pc = "deleting" => txn[y].pc = "deleting"
        BY <1>3, <2>3 DEF At, p
      <4> QED BY <1>3, <4>1 DEF IInv, ProfilesAreHeld, At
    <3>2. NoSessionWithoutAccount'
      BY <1>1, <1>2, <1>3, <2>4 DEF IInv, NoSessionWithoutAccount
    <3> QED BY <3>1, <3>2
  <2>8. OneLiveTokenPerFamily'
    BY <1>1, <1>2, <2>4 DEF IInv, OneLiveTokenPerFamily
  <2> QED BY <2>5, <2>6, <2>7, <2>8 DEF IInv
<1> QED BY <1>5, <1>6 DEF FinishRefresh

\* Rows that keep their owner, their family and whether they were exchanged, or go,
\* and are not held by a renewal if they go, disturb nothing but what a deletion does.
LEMMA RowsAge ==
  ASSUME IInv,
         minted' = minted, profiles' = profiles, crashed' \in [Txns -> BOOLEAN],
         txn' = txn \/ \E x \in Txns : End(x),
         tokens' \in [Tokens -> TokenRow \cup {NoToken}],
         \A t \in Rows' : /\ t \in Rows
                          /\ tokens'[t].family = tokens[t].family
                          /\ tokens'[t].profile = tokens[t].profile
                          /\ tokens'[t].rotated = tokens[t].rotated,
         \A y \in Txns, t \in Rows : At(y, "marked") /\ txn[y].token = t => t \in Rows'
  PROVE  IInv'
<1>1. /\ txn' \in [Txns -> Request \cup {Idle}]
      /\ \A y \in Txns : txn'[y] = txn[y] \/ txn'[y] = Idle
  BY RequestsEnd DEF IInv, TypeOK
<1>2. TypeOK' /\ RowsAreMinted'
  BY <1>1 DEF IInv, TypeOK, RowsAreMinted
<1>3. RenewalsHoldTheirRow'
  BY <1>1 DEF IInv, RenewalsHoldTheirRow, At
<1>4. ProfilesAreHeld' /\ NoSessionWithoutAccount' /\ OneLiveTokenPerFamily'
  BY <1>1 DEF IInv, ProfilesAreHeld, NoSessionWithoutAccount, OneLiveTokenPerFamily, At
<1> QED BY <1>2, <1>3, <1>4 DEF IInv

\* Ending sessions marks rows and keeps them; a change of password adds its own.
LEMMA SessionsEnd ==
  ASSUME IInv, NEW x \in Txns, Revoke(x)
  PROVE  IInv'
<1> DEFINE ended == Revoked(txn[x].targets)
           p == txn[x].profile
<1>1. p \in Profiles /\ End(x) /\ profiles' = profiles /\ crashed' = crashed /\ txn[x] # Idle
  BY DEF Revoke, At, IInv, TypeOK, Request
<1>2. /\ ended \in [Tokens -> TokenRow \cup {NoToken}]
      /\ {t \in Tokens : ended[t] # NoToken} = Rows
      /\ \A t \in Rows : /\ ended[t].family = tokens[t].family
                         /\ ended[t].profile = tokens[t].profile
                         /\ ended[t].rotated = tokens[t].rotated
  <2>1. ASSUME NEW t \in Rows
        PROVE  LET r == [tokens[t] EXCEPT !.revoked = TRUE] IN
               /\ r \in TokenRow /\ r # NoToken /\ r.family = tokens[t].family
               /\ r.profile = tokens[t].profile /\ r.rotated = tokens[t].rotated
    <3>1. tokens[t] \in TokenRow
      BY DEF IInv, TypeOK, Rows
    <3>2. [tokens[t] EXCEPT !.revoked = TRUE] \in TokenRow
      BY <3>1 DEF TokenRow
    <3> QED BY <3>1, <3>2, NoTokenAssumption DEF TokenRow
  <2> QED BY <2>1 DEF Revoked, IInv, TypeOK, Rows
<1>3. CASE ~txn[x].reopen
  <2>1. tokens' = ended /\ minted' = minted
    BY <1>3 DEF Revoke
  <2> HIDE DEF ended
  <2>2. Rows' = Rows
    BY <1>2, <2>1 DEF Rows
  <2>3. crashed' \in [Txns -> BOOLEAN]
    BY <1>1 DEF IInv, TypeOK
  <2> QED BY <1>1, <1>2, <2>1, <2>2, <2>3, RowsAge DEF Rows
<1>4. CASE txn[x].reopen
  <2> DEFINE row == NewRow(p, Fresh)
  <2>1. /\ minted # Tokens /\ minted' = minted \cup {Fresh}
        /\ tokens' = [ended EXCEPT ![Fresh] = row]
    BY <1>4 DEF Revoke
  <2>2. Fresh \in Tokens /\ Fresh \notin minted /\ Fresh \notin Rows
    BY <2>1, FreshIsNew DEF IInv, TypeOK, RowsAreMinted
  <2>3. row \in TokenRow /\ row # NoToken /\ row.family = Fresh /\ row.profile = p
    BY <1>1, <2>2, NewRowIsARow
  <2> HIDE DEF row, p, ended
  <2>4. /\ Rows' = Rows \cup {Fresh} /\ tokens'[Fresh] = row
        /\ \A t \in Rows : /\ tokens'[t].family = tokens[t].family
                           /\ tokens'[t].profile = tokens[t].profile
                           /\ tokens'[t].rotated = tokens[t].rotated
    BY <1>2, <2>1, <2>2, <2>3 DEF Rows
  <2>5. TypeOK'
    BY <1>1, <1>2, <2>1, <2>2, <2>3, RequestsEnd DEF IInv, TypeOK
  <2>6. RowsAreMinted'
    <3>1. minted' = minted \cup {Fresh}
      BY <2>1
    <3> QED BY <2>3, <2>4, <3>1 DEF IInv, RowsAreMinted
  <2>7. RenewalsHoldTheirRow'
    <3>1. minted' = minted \cup {Fresh}
      BY <2>1
    <3> QED BY <1>1, <2>2, <2>4, <3>1, RequestsEnd DEF IInv, RenewalsHoldTheirRow, At
  <2>8. ProfilesAreHeld'
    BY <1>1, RequestsEnd DEF IInv, ProfilesAreHeld, At
  <2>9. NoSessionWithoutAccount'
    BY <1>1, <1>4, <2>3, <2>4 DEF IInv, NoSessionWithoutAccount, ProfilesAreHeld, p
  <2>10. OneLiveTokenPerFamily'
    BY <2>2, <2>3, <2>4 DEF IInv, OneLiveTokenPerFamily, RowsAreMinted
  <2> QED BY <2>5, <2>6, <2>7, <2>8, <2>9, <2>10 DEF IInv
<1> QED BY <1>3, <1>4

\* A deletion takes the rows of its profile, none of which a renewal holds.
LEMMA AccountsGo ==
  ASSUME IInv, NEW x \in Txns, FinishDelete(x)
  PROVE  IInv'
<1> DEFINE p == txn[x].profile
<1>1. /\ p \in Profiles /\ End(x) /\ minted' = minted /\ crashed' = crashed
      /\ profiles' = [profiles EXCEPT ![p] = "gone"] /\ At(x, "deleting")
  BY DEF FinishDelete, At, IInv, TypeOK, Request
<1>2. /\ tokens' = [t \in Tokens |-> IF t \in Rows /\ tokens[t].profile = p
                                        THEN NoToken ELSE tokens[t]]
      /\ \A t \in Rows : tokens[t].profile = p => ~LockedAgainst(x, t)
  BY DEF FinishDelete
<1> HIDE DEF p
<1>3. /\ Rows' = {t \in Rows : tokens[t].profile # p}
      /\ \A t \in Rows' : tokens'[t] = tokens[t]
  BY <1>2 DEF Rows
<1>4. TypeOK'
  BY <1>1, <1>2, RequestsEnd DEF IInv, TypeOK
<1>5. RowsAreMinted' /\ OneLiveTokenPerFamily'
  BY <1>1, <1>3 DEF IInv, RowsAreMinted, OneLiveTokenPerFamily
<1>6. NoSessionWithoutAccount'
  BY <1>1, <1>3 DEF IInv, TypeOK, NoSessionWithoutAccount
<1>7. RenewalsHoldTheirRow'
  BY <1>1, <1>2, <1>3, RequestsEnd DEF IInv, RenewalsHoldTheirRow, At, LockedAgainst
<1>8. ProfilesAreHeld'
  BY <1>1, RequestsEnd DEF IInv, TypeOK, ProfilesAreHeld, At, p
<1> QED BY <1>4, <1>5, <1>6, <1>7, <1>8 DEF IInv

\* Time and the nightly job.
LEMMA RowsPass ==
  ASSUME IInv, Cleanup \/ (\E t \in Tokens : Expire(t))
  PROVE  IInv'
<1>1. minted' = minted /\ profiles' = profiles /\ crashed' = crashed /\ txn' = txn
  BY DEF Cleanup, Expire
<1>2. crashed' \in [Txns -> BOOLEAN]
  BY <1>1 DEF IInv, TypeOK
<1>3. CASE Cleanup
  <2>1. /\ tokens' \in [Tokens -> TokenRow \cup {NoToken}]
        /\ \A t \in Rows' : t \in Rows /\ tokens'[t] = tokens[t]
        /\ \A y \in Txns, t \in Rows : At(y, "marked") /\ txn[y].token = t => t \in Rows'
    BY <1>3 DEF Cleanup, IInv, TypeOK, Rows
  <2> QED BY <1>1, <1>2, <2>1, RowsAge
<1>4. CASE \E t \in Tokens : Expire(t)
  <2>1. PICK t \in Tokens : Expire(t)
    BY <1>4
  <2>2. tokens' = [tokens EXCEPT ![t].expired = TRUE]
    BY <2>1 DEF Expire
  <2>3. tokens[t] \in TokenRow /\ t \in Rows
    BY <2>1 DEF Expire, IInv, TypeOK, Rows
  <2> DEFINE r == [tokens[t] EXCEPT !.expired = TRUE]
  <2>4. /\ r \in TokenRow /\ r.family = tokens[t].family
        /\ r.profile = tokens[t].profile /\ r.rotated = tokens[t].rotated
    BY <2>3 DEF TokenRow
  <2>5. r # NoToken /\ tokens' = [tokens EXCEPT ![t] = r]
    BY <2>2, <2>4, NoTokenAssumption
  <2> HIDE DEF r
  <2>6. /\ tokens' \in [Tokens -> TokenRow \cup {NoToken}] /\ Rows' = Rows
        /\ tokens'[t] = r /\ \A u \in Tokens \ {t} : tokens'[u] = tokens[u]
    BY <2>3, <2>4, <2>5 DEF IInv, TypeOK, Rows
  <2>7. \A u \in Rows' : /\ u \in Rows
                         /\ tokens'[u].family = tokens[u].family
                         /\ tokens'[u].profile = tokens[u].profile
                         /\ tokens'[u].rotated = tokens[u].rotated
    BY <2>4, <2>6 DEF Rows
  <2> QED BY <1>1, <1>2, <2>6, <2>7, RowsAge
<1> QED BY <1>3, <1>4

\* Disabling an account touches neither rows nor requests.
LEMMA AccountsClose ==
  ASSUME IInv, NEW p \in Profiles, Deactivate(p)
  PROVE  IInv'
<1>1. UNCHANGED <<tokens, minted, txn, crashed>> /\ Rows' = Rows
  BY DEF Deactivate, Rows
<1>2. profiles' \in [Profiles -> {"active", "inactive", "gone"}]
      /\ \A q \in Profiles : profiles'[q] = "gone" => profiles[q] = "gone"
  BY DEF Deactivate, IInv, TypeOK
<1>3. TypeOK' /\ RowsAreMinted' /\ RenewalsHoldTheirRow' /\ OneLiveTokenPerFamily'
  BY <1>1, <1>2 DEF IInv, TypeOK, RowsAreMinted, RenewalsHoldTheirRow, OneLiveTokenPerFamily, At
<1>4. ProfilesAreHeld' /\ NoSessionWithoutAccount'
  BY <1>1, <1>2 DEF IInv, TypeOK, ProfilesAreHeld, NoSessionWithoutAccount, At, Request, Rows, TokenRow
<1> QED BY <1>3, <1>4 DEF IInv

-----------------------------------------------------------------------------
\* Every step keeps the invariant.
LEMMA EveryStep == IInv /\ [Next]_vars => IInv'
<1> SUFFICES ASSUME IInv, [Next]_vars PROVE IInv'
  OBVIOUS
<1>1. CASE \E x \in Txns : Step(x) \/ Crash(x)
  <2> PICK x \in Txns : Step(x) \/ Crash(x)
    BY <1>1
  <2> QED BY FamiliesOpen, RequestsMove, RenewalsFinish, SessionsEnd, AccountsGo DEF Step
<1>2. CASE \E x \in Txns : \/ \E p \in Profiles : \/ Login(x, p) \/ BeginDelete(x, p)
                                                 \/ \E reopen \in BOOLEAN : EndSessions(x, p, reopen)
                           \/ \E t \in Tokens : BeginRefresh(x, t) \/ Logout(x, t)
  <2> PICK x \in Txns : \/ \E p \in Profiles : \/ Login(x, p) \/ BeginDelete(x, p)
                                             \/ \E reopen \in BOOLEAN : EndSessions(x, p, reopen)
                       \/ \E t \in Tokens : BeginRefresh(x, t) \/ Logout(x, t)
    BY <1>2
  <2> QED BY RequestsBegin DEF IInv
<1>3. CASE Cleanup \/ \E t \in Tokens : Expire(t)
  BY <1>3, RowsPass
<1>4. CASE \E p \in Profiles : Deactivate(p)
  BY <1>4, AccountsClose
<1>5. CASE UNCHANGED vars
  BY <1>5 DEF vars, IInv, TypeOK, RowsAreMinted, RenewalsHoldTheirRow, ProfilesAreHeld,
     OneLiveTokenPerFamily, NoSessionWithoutAccount, Rows, At
<1> QED BY <1>1, <1>2, <1>3, <1>4, <1>5 DEF Next

\* The rows, the locks and the requests of the sessions keep the invariant for ever.
THEOREM SessionsInductive == Spec => []IInv
<1>1. Init => IInv
  BY Initially
<1>2. IInv /\ [Next]_vars => IInv'
  BY EveryStep
<1> QED BY <1>1, <1>2, PTL DEF Spec

\* Every variable keeps its type, for any number of connections and tokens.
THEOREM SessionsTyped == Spec => []TypeOK
<1>1. IInv => TypeOK
  BY DEF IInv
<1> QED BY <1>1, SessionsInductive, PTL

\* markTokenRotated lets one renewal through: a family never has two tokens that were
\* not exchanged.
THEOREM OneLiveTokenPerFamilyAlways == Spec => []OneLiveTokenPerFamily
<1>1. IInv => OneLiveTokenPerFamily
  BY DEF IInv
<1> QED BY <1>1, SessionsInductive, PTL

\* The foreign key and the order of locks leave no token to a deleted account.
THEOREM NoSessionWithoutAccountAlways == Spec => []NoSessionWithoutAccount
<1>1. IInv => NoSessionWithoutAccount
  BY DEF IInv
<1> QED BY <1>1, SessionsInductive, PTL

-----------------------------------------------------------------------------
(* A refusal ends the family *)

\* What may become of a row.
Ages(t) ==
  \/ tokens'[t] \in {tokens[t], NoToken}
  \/ t \in Rows /\ tokens'[t] \in {[tokens[t] EXCEPT !.rotated = TRUE],
                                  [tokens[t] EXCEPT !.revoked = TRUE],
                                  [tokens[t] EXCEPT !.expired = TRUE]}

\* A row of a minted value ages or goes: it is never written anew.
LEMMA RowsOnlyAge ==
  ASSUME IInv, [Next]_vars, NEW t \in minted
  PROVE  t \in minted' /\ Ages(t)
<1>0. t \in Tokens /\ tokens \in [Tokens -> TokenRow \cup {NoToken}] /\ minted \subseteq Tokens
  BY DEF IInv, TypeOK
<1>1. minted # Tokens => Fresh # t
  BY <1>0, FreshIsNew
<1>2. CASE UNCHANGED <<tokens, minted>>
  BY <1>2 DEF Ages
<1>3. ASSUME NEW x \in Txns, OpenFamily(x) PROVE t \in minted' /\ Ages(t)
  BY <1>0, <1>1, <1>3 DEF OpenFamily, Ages
<1>4. ASSUME NEW x \in Txns, FinishRefresh(x) PROVE t \in minted' /\ Ages(t)
  <2>1. txn[x].token \in Rows /\ Rows \subseteq Tokens
    BY <1>4 DEF FinishRefresh, IInv, RenewalsHoldTheirRow, Rows
  <2>2. CASE /\ minted # Tokens
             /\ tokens' = [Rotated(txn[x].token) EXCEPT ![Fresh] = NewRow(txn[x].profile, txn[x].family)]
             /\ minted' = minted \cup {Fresh}
    BY <1>0, <1>1, <2>1, <2>2 DEF Rotated, Ages
  <2>3. CASE tokens' = Rotated(txn[x].token) /\ minted' = minted
    BY <1>0, <2>1, <2>3 DEF Rotated, Ages
  <2> QED BY <1>4, <2>2, <2>3 DEF FinishRefresh
<1>5. ASSUME NEW x \in Txns, Revoke(x) PROVE t \in minted' /\ Ages(t)
  <2>1. Revoked(txn[x].targets)[t] = tokens[t] \/
          (t \in Rows /\ Revoked(txn[x].targets)[t] = [tokens[t] EXCEPT !.revoked = TRUE])
    BY <1>0 DEF Revoked
  <2>2. CASE /\ minted # Tokens
             /\ tokens' = [Revoked(txn[x].targets) EXCEPT ![Fresh] = NewRow(txn[x].profile, Fresh)]
             /\ minted' = minted \cup {Fresh}
    <3>1. tokens'[t] = Revoked(txn[x].targets)[t]
      BY <1>0, <1>1, <2>2 DEF Revoked
    <3> QED BY <2>1, <2>2, <3>1 DEF Ages
  <2>3. CASE tokens' = Revoked(txn[x].targets) /\ minted' = minted
    BY <2>1, <2>3 DEF Ages
  <2> QED BY <1>5, <2>2, <2>3 DEF Revoke
<1>6. ASSUME NEW x \in Txns, FinishDelete(x) PROVE t \in minted' /\ Ages(t)
  BY <1>0, <1>6 DEF FinishDelete, Ages
<1>7. ASSUME NEW u \in Tokens, Expire(u) PROVE t \in minted' /\ Ages(t)
  BY <1>0, <1>7 DEF Expire, Ages
<1>8. CASE Cleanup
  BY <1>0, <1>8 DEF Cleanup, Ages
<1>9. CASE \/ \E x \in Txns : \/ MarkTokenRotated(x) \/ Snapshot(x) \/ KillDeadlocked(x) \/ Crash(x)
                              \/ \E p \in Profiles : \/ Login(x, p) \/ BeginDelete(x, p)
                                                     \/ \E reopen \in BOOLEAN : EndSessions(x, p, reopen)
                              \/ \E u \in Tokens : BeginRefresh(x, u) \/ Logout(x, u)
           \/ \E p \in Profiles : Deactivate(p)
           \/ UNCHANGED vars
  <2>1. UNCHANGED <<tokens, minted>>
    BY <1>9 DEF MarkTokenRotated, Snapshot, KillDeadlocked, Crash, Login, BeginDelete, EndSessions,
                BeginRefresh, Logout, Deactivate, vars
  <2> QED BY <1>2, <2>1
<1> QED BY <1>3, <1>4, <1>5, <1>6, <1>7, <1>8, <1>9 DEF Next, Step

\* What is not live stays so, and a row keeps its family.
LEMMA DeadStaysDead ==
  ASSUME IInv, NEW t \in minted, Ages(t)
  PROVE  /\ Live(t)' => Live(t)
         /\ t \in Rows' => t \in Rows /\ tokens'[t].family = tokens[t].family
<1>0. t \in Tokens /\ (t \in Rows => tokens[t] \in TokenRow /\ tokens[t] # NoToken)
  BY DEF IInv, TypeOK, Rows
<1>1. CASE tokens'[t] = NoToken
  BY <1>1 DEF Rows, Live
<1>2. CASE tokens'[t] = tokens[t]
  BY <1>0, <1>2 DEF Rows, Live
<1>3. CASE t \in Rows /\ tokens'[t] \in {[tokens[t] EXCEPT !.rotated = TRUE],
                                        [tokens[t] EXCEPT !.revoked = TRUE],
                                        [tokens[t] EXCEPT !.expired = TRUE]}
  <2>1. tokens'[t].family = tokens[t].family
    BY <1>0, <1>3 DEF TokenRow
  <2>2. \/ tokens'[t].rotated = TRUE
        \/ tokens'[t].revoked = TRUE
        \/ tokens'[t].expired = TRUE
    BY <1>0, <1>3 DEF TokenRow
  <2>3. ~Live(t)'
    BY <2>2 DEF Live
  <2> QED BY <1>3, <2>1, <2>3
<1> QED BY <1>1, <1>2, <1>3 DEF Ages

\* Only a refusal owes: until it takes its snapshot, tokens of its family; after
\* that, tokens it took or that are dead already.
OwedAreTaken ==
  /\ owed = [x \in Txns |-> owed[x]]
  /\ \A x \in Txns :
       /\ owed[x] \subseteq minted
       /\ owed[x] # {} => At(x, "refused") \/ At(x, "revoking")
       /\ At(x, "refused") => \A t \in owed[x] : t \in Rows => tokens[t].family = txn[x].family
       /\ At(x, "revoking") => \A t \in owed[x] : Live(t) => t \in txn[x].targets

\* A refused request has taken its snapshot.
SnapshotTaken(x) ==
  /\ At(x, "revoking")'
  /\ txn'[x].targets = {t \in Rows : ~tokens[t].revoked /\ tokens[t].family = txn[x].family}
  /\ tokens' = tokens

\* The request with its snapshot is one that revokes.
LEMMA TakesASnapshot ==
  ASSUME NEW q \in Request, NEW S \in SUBSET Tokens
  PROVE  \A r : r = [q EXCEPT !.pc = "revoking", !.targets = S] =>
                 r \in Request /\ r # Idle /\ r.pc = "revoking" /\ r.targets = S
<1> SUFFICES ASSUME NEW r, r = [q EXCEPT !.pc = "revoking", !.targets = S]
             PROVE  r \in Request /\ r # Idle /\ r.pc = "revoking" /\ r.targets = S
  OBVIOUS
<1>1. r.pc = "revoking" /\ r.targets = S
  BY DEF Request
<1>2. r \in Request
  BY DEF Request, Steps
<1> QED BY <1>1, <1>2, IdleAssumption

\* Where a request may be after a step: where it was, without a transaction, or
\* where its own step took it.
LEMMA WhereItIs ==
  ASSUME IInv, [Next]_vars, NEW x \in Txns
  PROVE  \/ txn'[x] = txn[x]
         \/ txn'[x] = Idle
         \/ ~(At(x, "refused") \/ At(x, "revoking"))
         \/ At(x, "refused") /\ SnapshotTaken(x)
<1>0. txn \in [Txns -> Request \cup {Idle}]
  BY DEF IInv, TypeOK
<1>1. ASSUME NEW y \in Txns,
             \/ OpenFamily(y) \/ FinishDelete(y) \/ KillDeadlocked(y) \/ Crash(y) \/ Revoke(y)
      PROVE  txn'[x] = txn[x] \/ txn'[x] = Idle
  <2>1. txn' = [txn EXCEPT ![y] = Idle]
    BY <1>1 DEF OpenFamily, FinishDelete, KillDeadlocked, Crash, Revoke, End
  <2> QED BY <1>0, <2>1
<1>2. ASSUME NEW y \in Txns, y # x, Step(y)
      PROVE  txn'[x] = txn[x]
  BY <1>0, <1>2 DEF Step, OpenFamily, FinishDelete, KillDeadlocked, Revoke, End, MarkTokenRotated, FinishRefresh,
                    Snapshot, GoTo
<1>3. ASSUME MarkTokenRotated(x) \/ FinishRefresh(x) PROVE ~(At(x, "refused") \/ At(x, "revoking"))
  BY <1>3 DEF MarkTokenRotated, FinishRefresh, At
<1>4. ASSUME Snapshot(x), At(x, "refused") PROVE SnapshotTaken(x)
  <2>0. txn[x] \in Request /\ txn[x].pc = "refused" /\ txn[x] # Idle
    BY <1>0, <1>4 DEF At
  <2>1. txn' = [txn EXCEPT ![x].pc = "revoking",
                           ![x].targets = {t \in Rows : ~tokens[t].revoked /\ tokens[t].family = txn[x].family}]
    BY <1>4, <2>0 DEF Snapshot
  <2>2. txn'[x] = [txn[x] EXCEPT !.pc = "revoking",
                                 !.targets = {t \in Rows : ~tokens[t].revoked /\ tokens[t].family = txn[x].family}]
    BY <1>0, <2>1
  <2>3. txn'[x] # Idle /\ txn'[x].pc = "revoking"
        /\ txn'[x].targets = {t \in Rows : ~tokens[t].revoked /\ tokens[t].family = txn[x].family}
    <3>1. PICK S : S = {t \in Rows : ~tokens[t].revoked /\ tokens[t].family = txn[x].family}
      OBVIOUS
    <3>2. S \in SUBSET Tokens
      BY <3>1 DEF Rows
    <3>3. txn'[x] = [txn[x] EXCEPT !.pc = "revoking", !.targets = S]
      BY <2>2, <3>1
    <3>4. txn'[x] # Idle /\ txn'[x].pc = "revoking" /\ txn'[x].targets = S
      <4>1. txn[x] \in Request
        BY <2>0
      <4>2. \A r : r = [txn[x] EXCEPT !.pc = "revoking", !.targets = S] =>
                    r \in Request /\ r # Idle /\ r.pc = "revoking" /\ r.targets = S
        BY <3>2, <4>1, TakesASnapshot
      <4> QED BY <3>3, <4>2
    <3> QED BY <3>1, <3>4
  <2>4. tokens' = tokens
    BY <1>4 DEF Snapshot
  <2> QED BY <2>3, <2>4 DEF SnapshotTaken, At
<1>5. ASSUME NEW y \in Txns,
             \/ \E p \in Profiles : \/ Login(y, p) \/ BeginDelete(y, p)
                                    \/ \E reopen \in BOOLEAN : EndSessions(y, p, reopen)
             \/ \E t \in Tokens : BeginRefresh(y, t) \/ Logout(y, t)
      PROVE  txn'[x] = txn[x] \/ ~(At(x, "refused") \/ At(x, "revoking"))
  <2>1. txn[y] = Idle /\ \E r : txn' = [txn EXCEPT ![y] = r]
    BY <1>5 DEF Login, BeginDelete, EndSessions, BeginRefresh, Logout, Begin
  <2> QED BY <1>0, <2>1 DEF At
<1>6. ASSUME \/ \E t \in Tokens : Expire(t)
             \/ \E p \in Profiles : Deactivate(p)
             \/ Cleanup \/ UNCHANGED vars
      PROVE  txn'[x] = txn[x]
  BY <1>6 DEF Expire, Deactivate, Cleanup, vars
<1>7. CASE Step(x)
  <2>1. CASE Snapshot(x)
    <3>1. At(x, "refused") \/ ~(At(x, "refused") \/ At(x, "revoking"))
      BY <2>1 DEF Snapshot, At
    <3> QED BY <1>4, <2>1, <3>1
  <2> QED BY <1>1, <1>3, <1>7, <2>1 DEF Step
<1> QED BY <1>1, <1>2, <1>5, <1>6, <1>7 DEF Next

\* What is owed is kept account of, and a refusal that ends owes nothing.
LEMMA OwedKeeps ==
  ASSUME IInv, OwedAreTaken, [NextOwing]_<<vars, owed>>
  PROVE  /\ OwedAreTaken'
         /\ \A x \in Txns :
              txn[x] # Idle /\ txn'[x] = Idle /\ ~crashed'[x] => \A t \in owed[x] : ~Live(t)'
<1>0. /\ [Next]_vars /\ (owed' = [x \in Txns |-> Owing(x)] \/ UNCHANGED <<vars, owed>>)
      /\ txn \in [Txns -> Request \cup {Idle}] /\ crashed \in [Txns -> BOOLEAN]
  BY DEF NextOwing, IInv, TypeOK
<1>1. \A t \in minted : /\ t \in minted'
                        /\ Live(t)' => Live(t)
                        /\ t \in Rows' => t \in Rows /\ tokens'[t].family = tokens[t].family
  BY <1>0, RowsOnlyAge, DeadStaysDead
<1>2. ASSUME NEW x \in Txns, txn[x] # Idle, txn'[x] = Idle, ~crashed'[x], NEW t \in owed[x]
      PROVE  ~Live(t)'
  <2>1. t \in minted /\ (At(x, "refused") \/ At(x, "revoking"))
    BY <1>2 DEF OwedAreTaken
  <2>2. Revoke(x)
    <3>1. CASE UNCHANGED vars
      BY <1>2, <3>1 DEF vars
    <3>2. ASSUME NEW y \in Txns, y # x, Step(y) \/ Crash(y) PROVE FALSE
      BY <1>0, <1>2, <3>2 DEF Step, OpenFamily, FinishDelete, KillDeadlocked, Crash, Revoke, End, MarkTokenRotated,
                              FinishRefresh, Snapshot, GoTo
    <3>3. ~OpenFamily(x) /\ ~MarkTokenRotated(x) /\ ~FinishRefresh(x) /\ ~FinishDelete(x)
          /\ ~KillDeadlocked(x)
      BY <2>1 DEF OpenFamily, MarkTokenRotated, FinishRefresh, FinishDelete, KillDeadlocked, At
    <3>4. ~Snapshot(x)
      <4>1. SUFFICES ASSUME Snapshot(x) PROVE FALSE
        OBVIOUS
      <4>2. txn[x] \in Request
        BY <1>0, <1>2
      <4>3. PICK S : S \subseteq Tokens /\ txn' = [txn EXCEPT ![x].pc = "revoking", ![x].targets = S]
        BY <4>1 DEF Snapshot, Rows
      <4>4. txn'[x] = [txn[x] EXCEPT !.pc = "revoking", !.targets = S]
        BY <1>0, <4>3
      <4> QED BY <1>2, <4>2, <4>3, <4>4, TakesASnapshot
    <3>5. ~Crash(x)
      <4>1. SUFFICES ASSUME Crash(x) PROVE FALSE
        OBVIOUS
      <4>2. txn[x].pc \in {"refused", "revoking"}
        BY <2>1 DEF At
      <4> QED BY <1>0, <1>2, <4>1, <4>2 DEF Crash
    <3>6. ASSUME NEW y \in Txns,
                 \/ \E p \in Profiles : \/ Login(y, p) \/ BeginDelete(y, p)
                                        \/ \E reopen \in BOOLEAN : EndSessions(y, p, reopen)
                 \/ \E u \in Tokens : BeginRefresh(y, u) \/ Logout(y, u)
          PROVE  FALSE
      <4>1. txn[y] = Idle /\ \E r : txn' = [txn EXCEPT ![y] = r]
        BY <3>6 DEF Login, BeginDelete, EndSessions, BeginRefresh, Logout, Begin
      <4> QED BY <1>0, <1>2, <4>1
    <3>7. ASSUME \/ \E u \in Tokens : Expire(u)
                 \/ \E p \in Profiles : Deactivate(p)
                 \/ Cleanup
          PROVE  FALSE
      BY <1>2, <3>7 DEF Expire, Deactivate, Cleanup
    <3> QED BY <1>0, <3>1, <3>2, <3>3, <3>4, <3>5, <3>6, <3>7 DEF Next, Step
  <2>3. At(x, "revoking") /\ (Live(t) => t \in txn[x].targets)
    BY <1>2, <2>2 DEF Revoke, OwedAreTaken
  <2>4. CASE ~Live(t)
    BY <1>1, <2>1, <2>4
  <2>5. CASE t \in txn[x].targets /\ t \in Rows
    <3>1. tokens[t] \in TokenRow /\ t \in Tokens
      BY <2>5 DEF IInv, TypeOK, Rows
    <3>2. Revoked(txn[x].targets)[t] = [tokens[t] EXCEPT !.revoked = TRUE]
      BY <2>5, <3>1 DEF Revoked
    <3>3. tokens'[t] = [tokens[t] EXCEPT !.revoked = TRUE]
      <4>1. CASE /\ minted # Tokens
                 /\ tokens' = [Revoked(txn[x].targets) EXCEPT ![Fresh] = NewRow(txn[x].profile, Fresh)]
        <5>1. Fresh # t
          BY <2>1, <4>1, FreshIsNew DEF IInv, TypeOK
        <5> QED BY <3>1, <3>2, <4>1, <5>1 DEF Revoked
      <4>2. CASE tokens' = Revoked(txn[x].targets)
        BY <3>2, <4>2
      <4> QED BY <2>2, <4>1, <4>2 DEF Revoke
    <3> QED BY <3>1, <3>3 DEF Live, TokenRow
  <2> QED BY <2>3, <2>4, <2>5 DEF Live
<1>3. CASE UNCHANGED <<vars, owed>>
  <2>1. UNCHANGED <<tokens, minted, txn, owed>>
    BY <1>3 DEF vars
  <2> QED BY <1>2, <2>1 DEF OwedAreTaken, At, Rows, Live
<1>4. CASE owed' = [x \in Txns |-> Owing(x)]
  <2>1. ASSUME NEW x \in Txns
        PROVE  /\ owed'[x] \subseteq minted'
               /\ owed'[x] # {} => At(x, "refused")' \/ At(x, "revoking")'
               /\ At(x, "refused")' => \A t \in owed'[x] : t \in Rows' => tokens'[t].family = txn'[x].family
               /\ At(x, "revoking")' => \A t \in owed'[x] : Live(t)' => t \in txn'[x].targets
    <3>0. owed'[x] = Owing(x)
      BY <1>4
    <3>1. CASE At(x, "refused")' /\ ~At(x, "refused")
      <4>1. owed'[x] = Alive(txn[x].family)'
        BY <3>0, <3>1 DEF Owing
      <4>2. ~At(x, "revoking")'
        BY <3>1 DEF At
      <4>3. Rows' \subseteq minted'
        BY <1>0, EveryStep DEF IInv, RowsAreMinted
      <4> QED BY <3>1, <4>1, <4>2, <4>3 DEF Alive
    <3>2. CASE ~(At(x, "refused")' /\ ~At(x, "refused")) /\ txn'[x] = Idle
      <4>1. owed'[x] = {}
        BY <3>0, <3>2 DEF Owing
      <4> QED BY <3>2, <4>1 DEF At
    <3>3. CASE ~(At(x, "refused")' /\ ~At(x, "refused")) /\ txn'[x] # Idle
      <4>1. owed'[x] = owed[x]
        BY <3>0, <3>3 DEF Owing
      <4>2. owed[x] \subseteq minted'
        BY <1>1 DEF OwedAreTaken
      <4>3. CASE txn'[x] = txn[x]
        BY <1>1, <4>1, <4>2, <4>3 DEF OwedAreTaken, At
      <4>4. CASE ~(At(x, "refused") \/ At(x, "revoking"))
        BY <4>1, <4>4 DEF OwedAreTaken
      <4>5. CASE At(x, "refused") /\ SnapshotTaken(x)
        <5>1. At(x, "revoking")' /\ ~At(x, "refused")'
          BY <4>5 DEF SnapshotTaken, At
        <5>2. ASSUME NEW t \in owed[x], Live(t)' PROVE t \in txn'[x].targets
          <6>1. Live(t) /\ t \in minted
            BY <1>1, <5>2 DEF OwedAreTaken
          <6> QED BY <4>5, <6>1 DEF OwedAreTaken, SnapshotTaken, Live
        <5> QED BY <4>1, <4>2, <5>1, <5>2
      <4> QED BY <1>0, <3>3, <4>3, <4>4, <4>5, WhereItIs
    <3> QED BY <3>1, <3>2, <3>3
  <2>2. owed' = [x \in Txns |-> owed'[x]]
    BY <1>4
  <2> QED BY <1>2, <2>1, <2>2 DEF OwedAreTaken
<1> QED BY <1>0, <1>3, <1>4

(* A refused renewal or a sign-out ends every token of the family that was *)
(* alive when it was refused, whatever ran in between, unless the server   *)
(* goes down first.                                                        *)
THEOREM RefusalEndsTheFamilyAlways == SpecOwing => RefusalEndsTheFamily
<1>1. InitOwing => IInv /\ OwedAreTaken
  BY Initially DEF InitOwing, Init, OwedAreTaken, At
<1>2. IInv /\ OwedAreTaken /\ [NextOwing]_<<vars, owed>> => IInv' /\ OwedAreTaken'
  BY OwedKeeps, EveryStep DEF NextOwing, vars
<1>3. IInv /\ OwedAreTaken /\ [NextOwing]_<<vars, owed>> =>
        [\A x \in Txns :
           txn[x] # Idle /\ txn'[x] = Idle /\ ~crashed'[x] => \A t \in owed[x] : ~Live(t)']_<<vars, owed>>
  BY OwedKeeps
<1> QED BY <1>1, <1>2, <1>3, PTL DEF SpecOwing, RefusalEndsTheFamily

-----------------------------------------------------------------------------
(* The processes of the server while they start *)

\* The per-process variables are functions on the processes.
Typed == /\ boot \in [Replicas -> BootSteps]
         /\ image \in [Replicas -> Images \cup {0}]
         /\ DOMAIN todo = Replicas /\ todo = [r \in Replicas |-> todo[r]]
         /\ draft \in [Replicas -> Passwords \cup {None}]

AfterMigrations == {"unlock", "settings", "seed", "insert", "announce", "commit", "serving"}

\* What is no longer to do is done, and stays done.
MigrationsAreDone ==
  /\ ledger \subseteq schema
  /\ \A r \in Replicas :
       /\ boot[r] \in {"apply", "log"} => (1..image[r]) \ todo[r] \subseteq schema
       /\ boot[r] = "log" => NextFile(r) \in schema
       /\ boot[r] \in AfterMigrations => 1..image[r] \subseteq schema

\* One insert at a time, while there is no account; it is announced as inserted.
OneInsert ==
  /\ \A r \in Replicas : draft[r] # None <=> boot[r] \in {"announce", "commit"}
  /\ \A r, o \in Replicas : r # o => draft[r] = None \/ draft[o] = None
  /\ \A r \in Replicas : draft[r] # None => account = None
  /\ \A r \in Replicas : boot[r] = "commit" => shown = draft[r]

\* The inductive invariant.
ServerInv == Typed /\ MigrationsAreDone /\ OneInsert /\ ShownPasswordOpens

\* Nothing has started.
LEMMA ServerBegins == BootInit => ServerInv
BY DEF BootInit, ServerInv, Typed, MigrationsAreDone, OneInsert, ShownPasswordOpens, BootSteps, AfterMigrations

\* A process that stops takes its insert with it.
LEMMA StopKeeps ==
  ASSUME ServerInv, NEW r \in Replicas, Dies(r)
  PROVE  ServerInv'
<1>0. /\ boot' = [boot EXCEPT ![r] = "down"]
      /\ image' = [image EXCEPT ![r] = 0]
      /\ todo' = [todo EXCEPT ![r] = {}]
      /\ draft' = [draft EXCEPT ![r] = None]
      /\ UNCHANGED <<schema, ledger, account, shown>>
  BY DEF Dies, dbVars
<1>1. Typed'
  BY <1>0 DEF ServerInv, Typed, BootSteps
<1>2. MigrationsAreDone'
  <2>1. boot'[r] = "down"
    BY <1>0 DEF ServerInv, Typed
  <2>2. ASSUME NEW o \in Replicas, o # r
        PROVE  boot'[o] = boot[o] /\ todo'[o] = todo[o] /\ image'[o] = image[o]
    BY <1>0, <2>2 DEF ServerInv, Typed
  <2> QED BY <1>0, <2>1, <2>2 DEF ServerInv, MigrationsAreDone, NextFile, AfterMigrations
<1>3. OneInsert' /\ ShownPasswordOpens'
  BY <1>0 DEF ServerInv, Typed, OneInsert, ShownPasswordOpens
<1> QED BY <1>1, <1>2, <1>3 DEF ServerInv

\* The steps of the migrations, and of the settings row.
LEMMA MigrationKeeps ==
  ASSUME ServerInv, NEW r \in Replicas, UNCHANGED <<account, shown, draft, image>>,
         \/ TakeSchemaLock(r) \/ Status(r) \/ ApplyFile(r) \/ LogMigration(r)
         \/ SchemaUnlock(r) \/ EnsureSettingsRow(r)
  PROVE  ServerInv'
<1>1. CASE TakeSchemaLock(r) \/ SchemaUnlock(r) \/ EnsureSettingsRow(r)
  <2>0. PICK from, to : /\ boot[r] = from /\ boot' = [boot EXCEPT ![r] = to]
                        /\ <<from, to>> \in {<<"lock", "status">>, <<"unlock", "settings">>,
                                             <<"settings", "seed">>}
    BY <1>1 DEF TakeSchemaLock, SchemaUnlock, EnsureSettingsRow, Goes
  <2>1. UNCHANGED <<todo, schema, ledger>>
    BY <1>1 DEF TakeSchemaLock, SchemaUnlock, EnsureSettingsRow, dbVars
  <2>2. Typed'
    BY <2>0, <2>1 DEF ServerInv, Typed, BootSteps
  <2>3. MigrationsAreDone'
    BY <2>0, <2>1 DEF ServerInv, Typed, MigrationsAreDone, NextFile, AfterMigrations
  <2>4. OneInsert' /\ ShownPasswordOpens'
    BY <2>0 DEF ServerInv, Typed, OneInsert, ShownPasswordOpens
  <2> QED BY <2>2, <2>3, <2>4 DEF ServerInv
<1>2. CASE Status(r)
  <2> DEFINE pending == (1..image[r]) \ ledger
  <2>0. /\ boot[r] = "status"
        /\ boot' = [boot EXCEPT ![r] = IF pending = {} THEN "unlock" ELSE "apply"]
        /\ todo' = [todo EXCEPT ![r] = pending]
        /\ UNCHANGED <<image, schema, ledger>>
    BY <1>2 DEF Status, Goes, dbVars
  <2>1. Typed'
    BY <2>0 DEF ServerInv, Typed, BootSteps
  <2>2. MigrationsAreDone'
    <3>1. (1..image[r]) \ pending \subseteq schema
      BY DEF ServerInv, MigrationsAreDone
    <3>2. ASSUME NEW o \in Replicas, o # r
          PROVE  boot'[o] = boot[o] /\ todo'[o] = todo[o] /\ image'[o] = image[o]
      BY <2>0, <3>2 DEF ServerInv, Typed
    <3>3. /\ todo'[r] = pending
          /\ boot'[r] = IF pending = {} THEN "unlock" ELSE "apply"
          /\ image'[r] = image[r]
      BY <2>0 DEF ServerInv, Typed
    <3> QED BY <2>0, <3>1, <3>2, <3>3 DEF ServerInv, MigrationsAreDone, NextFile, AfterMigrations
  <2>3. OneInsert' /\ ShownPasswordOpens'
    BY <2>0 DEF ServerInv, Typed, OneInsert, ShownPasswordOpens
  <2> QED BY <2>1, <2>2, <2>3 DEF ServerInv
<1>3. CASE ApplyFile(r)
  <2>1. Typed'
    BY <1>3 DEF ServerInv, Typed, ApplyFile, Goes, BootSteps
  <2>2. MigrationsAreDone'
    BY <1>3 DEF ServerInv, Typed, MigrationsAreDone, NextFile, ApplyFile, Goes, AfterMigrations
  <2>3. OneInsert' /\ ShownPasswordOpens'
    BY <1>3 DEF ServerInv, Typed, OneInsert, ShownPasswordOpens, ApplyFile, Goes
  <2> QED BY <2>1, <2>2, <2>3 DEF ServerInv
<1>4. CASE LogMigration(r)
  <2> DEFINE m == NextFile(r)
  <2>0. /\ boot[r] = "log"
        /\ boot' = [boot EXCEPT ![r] = IF todo[r] = {m} THEN "unlock" ELSE "apply"]
        /\ todo' = [todo EXCEPT ![r] = todo[r] \ {m}]
        /\ ledger' = ledger \cup {m}
        /\ UNCHANGED <<image, schema>>
    BY <1>4 DEF LogMigration, Goes
  <2>1. Typed'
    BY <2>0 DEF ServerInv, Typed, BootSteps
  <2>2. MigrationsAreDone'
    <3>1. m \in schema /\ (1..image[r]) \ todo[r] \subseteq schema
      BY <2>0 DEF ServerInv, MigrationsAreDone
    <3>2. ASSUME NEW o \in Replicas, o # r
          PROVE  boot'[o] = boot[o] /\ todo'[o] = todo[o] /\ image'[o] = image[o]
      BY <2>0, <3>2 DEF ServerInv, Typed
    <3>3. /\ todo'[r] = todo[r] \ {m}
          /\ boot'[r] = IF todo[r] = {m} THEN "unlock" ELSE "apply"
          /\ image'[r] = image[r]
      BY <2>0 DEF ServerInv, Typed
    <3> HIDE DEF m
    <3> QED BY <2>0, <3>1, <3>2, <3>3 DEF ServerInv, MigrationsAreDone, NextFile, AfterMigrations
  <2>3. OneInsert' /\ ShownPasswordOpens'
    BY <2>0 DEF ServerInv, Typed, OneInsert, ShownPasswordOpens
  <2> QED BY <2>1, <2>2, <2>3 DEF ServerInv
<1> QED BY <1>1, <1>2, <1>3, <1>4

\* The steps of the first superadmin.
LEMMA SeedKeeps ==
  ASSUME ServerInv, NEW r \in Replicas, UNCHANGED <<schema, ledger, todo, image>>,
         \/ FindSuperadmin(r) \/ \E p \in Passwords : InsertSuperadmin(r, p)
         \/ Announce(r) \/ CommitSuperadmin(r)
  PROVE  ServerInv'
<1>1. Typed'
  BY DEF ServerInv, Typed, FindSuperadmin, InsertSuperadmin, Announce, CommitSuperadmin, Goes, BootSteps, dbVars
<1>2. MigrationsAreDone'
  BY DEF ServerInv, Typed, MigrationsAreDone, NextFile, FindSuperadmin, InsertSuperadmin, Announce,
         CommitSuperadmin, Goes, dbVars, AfterMigrations
<1>3. CASE FindSuperadmin(r)
  BY <1>1, <1>2, <1>3 DEF ServerInv, Typed, OneInsert, ShownPasswordOpens, FindSuperadmin, Goes, dbVars
<1>4. CASE \E p \in Passwords : InsertSuperadmin(r, p)
  BY <1>1, <1>2, <1>4, NoneAssumption
     DEF ServerInv, Typed, OneInsert, ShownPasswordOpens, InsertSuperadmin, NoOtherInsert, Goes, dbVars
<1>5. CASE Announce(r)
  BY <1>1, <1>2, <1>5 DEF ServerInv, Typed, OneInsert, ShownPasswordOpens, Announce, Goes
<1>6. CASE CommitSuperadmin(r)
  BY <1>1, <1>2, <1>6 DEF ServerInv, Typed, OneInsert, ShownPasswordOpens, CommitSuperadmin, Goes
<1> QED BY <1>3, <1>4, <1>5, <1>6

\* A boot begins; requests and jobs touch none of it; the superadmin is lost.
LEMMA TheRestKeeps ==
  ASSUME ServerInv, NEW r \in Replicas,
         \/ \E n \in Images : Boot(r, n)
         \/ Serve(r) \/ Answer(r)
         \/ \E j \in JobNames : Tick(r, j) \/ Job(r, j)
         \/ LoseSuperadmin
         \/ UNCHANGED bootVars
  PROVE  ServerInv'
<1>1. CASE \E n \in Images : Boot(r, n)
  BY <1>1 DEF ServerInv, Typed, MigrationsAreDone, NextFile, OneInsert, ShownPasswordOpens, Boot, Goes,
              dbVars, BootSteps, AfterMigrations
<1>2. CASE \/ Serve(r) \/ Answer(r) \/ UNCHANGED bootVars
           \/ \E j \in JobNames : Tick(r, j) \/ Job(r, j)
  <2>1. UNCHANGED <<boot, image, todo, draft, schema, ledger, account, shown>>
    BY <1>2 DEF Serve, Answer, Tick, Job, Connect, ConnectTimesOut, TryLock, Work, JobUnlock, bootVars, dbVars
  <2> QED BY <2>1 DEF ServerInv, Typed, MigrationsAreDone, NextFile, OneInsert, ShownPasswordOpens
<1>3. CASE LoseSuperadmin
  BY <1>3 DEF ServerInv, Typed, MigrationsAreDone, NextFile, OneInsert, ShownPasswordOpens, LoseSuperadmin
<1> QED BY <1>1, <1>2, <1>3

\* Every step keeps the invariant.
LEMMA ServerInductive == ServerInv /\ [BootNext]_bootVars => ServerInv'
<1> SUFFICES ASSUME ServerInv, [BootNext]_bootVars PROVE ServerInv'
  OBVIOUS
<1>1. ASSUME NEW r \in Replicas, Start(r) PROVE ServerInv'
  <2>1. CASE ApplyRefused(r) \/ InsertRefused(r)
    BY <2>1, StopKeeps DEF ApplyRefused, InsertRefused
  <2>2. CASE \/ TakeSchemaLock(r) \/ Status(r) \/ ApplyFile(r) \/ LogMigration(r)
             \/ SchemaUnlock(r) \/ EnsureSettingsRow(r)
    <3>1. UNCHANGED <<account, shown, draft, image>>
      BY <2>2 DEF TakeSchemaLock, Status, ApplyFile, LogMigration, SchemaUnlock, EnsureSettingsRow, dbVars
    <3> QED BY <2>2, <3>1, MigrationKeeps
  <2>3. CASE \/ FindSuperadmin(r) \/ \E p \in Passwords : InsertSuperadmin(r, p)
             \/ Announce(r) \/ CommitSuperadmin(r)
    <3>1. UNCHANGED <<schema, ledger, todo, image>>
      BY <2>3 DEF FindSuperadmin, InsertSuperadmin, Announce, CommitSuperadmin, dbVars
    <3> QED BY <2>3, <3>1, SeedKeeps
  <2> QED BY <1>1, <2>1, <2>2, <2>3 DEF Start
<1>2. ASSUME NEW r \in Replicas, Stops(r) PROVE ServerInv'
  BY <1>2, StopKeeps DEF Stops
<1>3. ASSUME NEW r \in Replicas,
             \/ \E n \in Images : Boot(r, n)
             \/ Serve(r) \/ Answer(r) \/ \E j \in JobNames : Tick(r, j) \/ Job(r, j)
      PROVE  ServerInv'
  BY <1>3, TheRestKeeps
<1>4. CASE LoseSuperadmin \/ UNCHANGED bootVars
  <2>1. CASE LoseSuperadmin
    BY <2>1 DEF ServerInv, Typed, MigrationsAreDone, NextFile, OneInsert, ShownPasswordOpens, LoseSuperadmin
  <2>2. CASE UNCHANGED bootVars
    BY <2>2 DEF ServerInv, Typed, MigrationsAreDone, NextFile, OneInsert, ShownPasswordOpens, bootVars, dbVars
  <2> QED BY <1>4, <2>1, <2>2
<1> QED BY <1>1, <1>2, <1>3, <1>4 DEF BootNext

LEMMA ServerAlways == BootSpec => []ServerInv
BY ServerBegins, ServerInductive, PTL DEF BootSpec

(* A process serves only when every migration of its image is in the       *)
(* schema, however many start together and stop on the way.                *)
THEOREM ServesMigratedAlways == BootSpec => []ServesMigrated
<1>1. ServerInv => ServesMigrated
  BY DEF ServerInv, MigrationsAreDone, ServesMigrated, AfterMigrations
<1> QED BY <1>1, ServerAlways, PTL

(* Whoever raced to create the first superadmin, the password shown last   *)
(* opens it.                                                               *)
THEOREM ShownPasswordOpensAlways == BootSpec => []ShownPasswordOpens
<1>1. ServerInv => ShownPasswordOpens
  BY DEF ServerInv
<1> QED BY <1>1, ServerAlways, PTL
---------------------------------------------------------------------------

\* A nonempty set of numbers has a smallest.
LEMMA Smallest ==
  ASSUME NEW S \in SUBSET Nat, S # {}
  PROVE  \E m \in S : \A n \in S : m <= n
<1> DEFINE R == {ss \in Nat \X Nat : ss[1] < ss[2]}
<1>1. IsWellFoundedOn(R, Nat)
  BY NatLessThanWellFounded DEF OpToRel
<1>2. \A s \in Nat \X Nat : s[1] < s[2] => s \in R
  OBVIOUS
<1> HIDE DEF R
<1>3. PICK m \in S : \A n \in S : ~ (<<n, m>> \in R)
  BY <1>1, WFMin
<1>4. ASSUME NEW n \in S PROVE m <= n
  <2>1. ~(n < m)
    BY <1>2, <1>3
  <2> QED BY <2>1
<1> QED BY <1>3, <1>4

\* From the lock of the migrations to its release.
Locked == {"status", "apply", "log", "unlock"}

\* One process at a time works on the migrations.
LockHeld ==
  /\ holder \in [LockNames -> Replicas \cup {None}]
  /\ \A r \in Replicas : boot[r] \in Locked => holder[SchemaLock] = r

\* What is left to do is what the ledger does not have.
LeftToDo ==
  \A r \in Replicas : boot[r] \in {"apply", "log"} =>
    todo[r] # {} /\ todo[r] = (1..image[r]) \ ledger

\* A file that is committed and not recorded was torn, or is being recorded.
TornOrLogging ==
  \A m \in schema \ ledger : m \in torn \/ \E r \in Replicas : boot[r] = "log" /\ m = NextFile(r)

MigrationInv == Typed /\ LockHeld /\ LeftToDo /\ TornOrLogging

LEMMA MigrationBegins == BootInit => MigrationInv
BY DEF BootInit, MigrationInv, Typed, BootSteps, LockHeld, LeftToDo, TornOrLogging, LockNames, Locked

\* What is torn stays torn, and a process that stops tears its file.
LEMMA TornGrows ==
  ASSUME torn' = torn \cup UNION {Torn(r) : r \in Replicas}
  PROVE  /\ torn \subseteq torn'
         /\ \A r \in Replicas : boot[r] = "log" /\ boot'[r] = "down" => NextFile(r) \in torn'
BY DEF Torn

LEMMA StopTears ==
  ASSUME MigrationInv, NEW r \in Replicas, Dies(r),
         torn' = torn \cup UNION {Torn(o) : o \in Replicas}
  PROVE  MigrationInv'
<1>0. /\ boot' = [boot EXCEPT ![r] = "down"]
      /\ image' = [image EXCEPT ![r] = 0]
      /\ todo' = [todo EXCEPT ![r] = {}]
      /\ draft' = [draft EXCEPT ![r] = None]
      /\ holder' = Freed(r)
      /\ UNCHANGED <<schema, ledger>>
  BY DEF Dies, dbVars
<1>1. Typed'
  BY <1>0 DEF MigrationInv, Typed, BootSteps
<1>2. boot'[r] = "down"
  BY <1>0 DEF MigrationInv, Typed
<1>3. ASSUME NEW o \in Replicas, o # r
      PROVE  boot'[o] = boot[o] /\ todo'[o] = todo[o] /\ image'[o] = image[o]
  BY <1>0, <1>3 DEF MigrationInv, Typed
<1>4. LockHeld'
  BY <1>0, <1>2, <1>3 DEF MigrationInv, LockHeld, Freed, Locked, LockNames
<1>5. LeftToDo'
  BY <1>0, <1>2, <1>3 DEF MigrationInv, LeftToDo
<1>6. TornOrLogging'
  <2>1. ASSUME NEW m \in schema' \ ledger', m \notin torn'
        PROVE  \E o \in Replicas : boot'[o] = "log" /\ m = NextFile(o)'
    <3>1. PICK o \in Replicas : boot[o] = "log" /\ m = NextFile(o)
      BY <1>0, <2>1, TornGrows DEF MigrationInv, TornOrLogging
    <3>2. o # r
      BY <1>2, <2>1, <3>1, TornGrows
    <3> QED BY <1>3, <3>1, <3>2 DEF NextFile
  <2> QED BY <2>1 DEF TornOrLogging
<1> QED BY <1>1, <1>4, <1>5, <1>6 DEF MigrationInv

\* A step that leaves the files, the lock of the migrations and every process
\* on its way through them alone.
LEMMA Bystands ==
  ASSUME MigrationInv, Typed', UNCHANGED <<schema, ledger>>, torn \subseteq torn',
         holder' \in [LockNames -> Replicas \cup {None}],
         holder'[SchemaLock] = holder[SchemaLock],
         \A o \in Replicas : \/ boot'[o] \notin Locked /\ boot[o] \notin Locked
                             \/ boot'[o] = boot[o] /\ todo'[o] = todo[o] /\ image'[o] = image[o]
  PROVE  MigrationInv'
<1>1. LockHeld'
  BY DEF MigrationInv, LockHeld, Locked
<1>2. LeftToDo'
  BY DEF MigrationInv, LeftToDo, Locked
<1>3. TornOrLogging'
  <2>1. ASSUME NEW m \in schema' \ ledger', m \notin torn'
        PROVE  \E o \in Replicas : boot'[o] = "log" /\ m = NextFile(o)'
    <3>1. PICK o \in Replicas : boot[o] = "log" /\ m = NextFile(o)
      BY <2>1 DEF MigrationInv, TornOrLogging
    <3> QED BY <3>1 DEF NextFile, Locked
  <2> QED BY <2>1 DEF TornOrLogging
<1> QED BY <1>1, <1>2, <1>3 DEF MigrationInv

\* A file is applied and recorded under the lock.
LEMMA LockedKeeps ==
  ASSUME MigrationInv, NEW r \in Replicas, torn \subseteq torn', None \notin Replicas,
         \/ TakeSchemaLock(r) \/ Status(r) \/ ApplyFile(r) \/ LogMigration(r) \/ SchemaUnlock(r)
  PROVE  MigrationInv'
<1>0. UNCHANGED <<image, draft>>
  BY DEF TakeSchemaLock, Status, ApplyFile, LogMigration, SchemaUnlock
<1>1. PICK from, to : /\ boot[r] = from /\ boot' = [boot EXCEPT ![r] = to]
                      /\ <<from, to>> \in {<<"lock", "status">>, <<"status", "unlock">>, <<"status", "apply">>,
                                           <<"apply", "log">>, <<"log", "unlock">>, <<"log", "apply">>,
                                           <<"unlock", "settings">>}
  BY DEF TakeSchemaLock, Status, ApplyFile, LogMigration, SchemaUnlock, Goes
<1>2. boot'[r] = to /\ \A o \in Replicas : o # r => boot'[o] = boot[o]
  BY <1>1 DEF MigrationInv, Typed
<1>3. SchemaLock \in LockNames
  BY DEF LockNames
<1>4. Typed'
  <2>1. boot' \in [Replicas -> BootSteps]
    BY <1>1 DEF MigrationInv, Typed, BootSteps
  <2>2. DOMAIN todo' = Replicas /\ todo' = [o \in Replicas |-> todo'[o]]
    BY DEF MigrationInv, Typed, TakeSchemaLock, Status, ApplyFile, LogMigration, SchemaUnlock
  <2> QED BY <1>0, <2>1, <2>2 DEF MigrationInv, Typed
<1>5. \A o \in Replicas : o # r => todo'[o] = todo[o] /\ boot'[o] \notin Locked
  <2>1. \A o \in Replicas : o # r => todo'[o] = todo[o]
    BY DEF MigrationInv, Typed, TakeSchemaLock, Status, ApplyFile, LogMigration, SchemaUnlock
  <2>2. CASE TakeSchemaLock(r)
    BY <1>2, <2>1, <2>2 DEF TakeSchemaLock, MigrationInv, LockHeld
  <2>3. CASE ~TakeSchemaLock(r)
    <3>1. boot[r] \in Locked
      BY <2>3 DEF Status, ApplyFile, LogMigration, SchemaUnlock, Goes, Locked
    <3> QED BY <1>2, <2>1, <3>1 DEF MigrationInv, LockHeld
  <2> QED BY <2>2, <2>3
<1>6. LockHeld'
  <2>1. CASE TakeSchemaLock(r)
    BY <1>2, <1>3, <1>5, <2>1 DEF TakeSchemaLock, MigrationInv, LockHeld
  <2>2. CASE Status(r) \/ ApplyFile(r) \/ LogMigration(r)
    <3>1. holder' = holder /\ boot[r] \in Locked
      BY <2>2 DEF Status, ApplyFile, LogMigration, Goes, Locked
    <3> QED BY <1>5, <3>1 DEF MigrationInv, LockHeld
  <2>3. CASE SchemaUnlock(r)
    <3>1. holder' = [holder EXCEPT ![SchemaLock] = None] /\ boot'[r] \notin Locked
      BY <1>2, <2>3 DEF SchemaUnlock, Goes, Locked, MigrationInv, Typed
    <3> QED BY <1>5, <3>1 DEF MigrationInv, LockHeld
  <2> QED BY <2>1, <2>2, <2>3
<1>7. LeftToDo' /\ TornOrLogging'
  <2>1. CASE TakeSchemaLock(r) \/ SchemaUnlock(r)
    <3>1. UNCHANGED <<todo, schema, ledger>> /\ boot'[r] \notin {"apply", "log"} /\ boot[r] # "log"
      BY <1>2, <2>1 DEF TakeSchemaLock, SchemaUnlock, dbVars, Goes, MigrationInv, Typed
    <3>2. LeftToDo'
      BY <1>5, <3>1 DEF LeftToDo, Locked
    <3> QED BY <1>2, <3>1, <3>2 DEF MigrationInv, TornOrLogging, NextFile
  <2>2. CASE Status(r)
    <3>1. /\ todo' = [todo EXCEPT ![r] = (1..image[r]) \ ledger]
          /\ boot' = [boot EXCEPT ![r] = IF (1..image[r]) \ ledger = {} THEN "unlock" ELSE "apply"]
          /\ boot[r] = "status"
          /\ UNCHANGED <<schema, ledger>>
      BY <2>2 DEF Status, Goes, dbVars
    <3>2. todo'[r] = (1..image[r]) \ ledger /\ (boot'[r] = "apply" => todo'[r] # {}) /\ boot'[r] # "log"
      BY <3>1 DEF MigrationInv, Typed
    <3>3. LeftToDo'
      BY <1>0, <1>5, <3>1, <3>2 DEF LeftToDo, Locked
    <3>4. TornOrLogging'
      BY <1>2, <1>5, <3>1 DEF MigrationInv, TornOrLogging, NextFile
    <3> QED BY <3>3, <3>4
  <2>3. CASE ApplyFile(r)
    <3>1. /\ boot[r] = "apply" /\ boot'[r] = "log"
          /\ schema' = schema \cup {NextFile(r)}
          /\ UNCHANGED <<todo, ledger>>
      BY <1>2, <2>3 DEF ApplyFile, Goes, MigrationInv, Typed
    <3>2. LeftToDo'
      BY <1>0, <1>5, <3>1 DEF MigrationInv, LeftToDo, Locked
    <3>3. TornOrLogging'
      BY <1>2, <3>1 DEF MigrationInv, TornOrLogging, NextFile
    <3> QED BY <3>2, <3>3
  <2>4. CASE LogMigration(r)
    <3>1. /\ boot[r] = "log"
          /\ boot' = [boot EXCEPT ![r] = IF todo[r] = {NextFile(r)} THEN "unlock" ELSE "apply"]
          /\ ledger' = ledger \cup {NextFile(r)}
          /\ todo' = [todo EXCEPT ![r] = todo[r] \ {NextFile(r)}]
          /\ schema' = schema
      BY <2>4 DEF LogMigration, Goes
    <3>2. /\ todo'[r] = todo[r] \ {NextFile(r)} /\ boot'[r] # "log"
          /\ boot'[r] = "apply" => todo[r] # {NextFile(r)}
      BY <3>1 DEF MigrationInv, Typed
    <3>3. todo[r] # {} /\ todo[r] = (1..image[r]) \ ledger
      BY <3>1 DEF MigrationInv, LeftToDo
    <3>4. todo'[r] = (1..image'[r]) \ ledger' /\ (boot'[r] = "apply" => todo'[r] # {})
      BY <1>0, <3>1, <3>2, <3>3
    <3>5. LeftToDo'
      BY <1>5, <3>2, <3>4 DEF LeftToDo, Locked
    <3>6. \A o \in Replicas : boot[o] = "log" => o = r
      BY <1>2, <1>5 DEF Locked
    <3>7. TornOrLogging'
      BY <3>1, <3>6 DEF MigrationInv, TornOrLogging
    <3> QED BY <3>5, <3>7
  <2> QED BY <2>1, <2>2, <2>3, <2>4
<1> QED BY <1>4, <1>6, <1>7 DEF MigrationInv
\* The lock of a job is another; the way to and from the migrations leaves the files alone.
LEMMA RestBystands ==
  ASSUME MigrationInv, NEW r \in Replicas, torn \subseteq torn', SchemaLock \notin JobNames,
         \/ \E n \in Images : Boot(r, n)
         \/ EnsureSettingsRow(r) \/ FindSuperadmin(r) \/ \E p \in Passwords : InsertSuperadmin(r, p)
         \/ Announce(r) \/ CommitSuperadmin(r) \/ Serve(r) \/ Answer(r) \/ LoseSuperadmin
         \/ \E j \in JobNames : Tick(r, j) \/ Job(r, j)
         \/ UNCHANGED bootVars
  PROVE  MigrationInv'
<1>1. CASE \/ \E n \in Images : Boot(r, n)
           \/ EnsureSettingsRow(r) \/ FindSuperadmin(r) \/ \E p \in Passwords : InsertSuperadmin(r, p)
           \/ Announce(r) \/ CommitSuperadmin(r)
  <2>1. UNCHANGED <<todo, holder, schema, ledger>>
    BY <1>1 DEF Boot, EnsureSettingsRow, FindSuperadmin, InsertSuperadmin, Announce, CommitSuperadmin, dbVars
  <2>2. PICK from \in BootSteps \ Locked, to \in BootSteps \ Locked :
          boot[r] = from /\ boot' = [boot EXCEPT ![r] = to]
    BY <1>1 DEF Boot, EnsureSettingsRow, FindSuperadmin, InsertSuperadmin, Announce, CommitSuperadmin, Goes,
                BootSteps, Locked
  <2>3. Typed'
    <3>1. image' \in [Replicas -> Images \cup {0}]
      BY <1>1 DEF MigrationInv, Typed, Boot, EnsureSettingsRow, FindSuperadmin, InsertSuperadmin, Announce,
                  CommitSuperadmin
    <3>2. draft' \in [Replicas -> Passwords \cup {None}]
      BY <1>1 DEF MigrationInv, Typed, Boot, EnsureSettingsRow, FindSuperadmin, InsertSuperadmin, Announce,
                  CommitSuperadmin
    <3> QED BY <2>1, <2>2, <3>1, <3>2 DEF MigrationInv, Typed
  <2>4. \A o \in Replicas : o # r => boot'[o] = boot[o] /\ image'[o] = image[o]
    BY <1>1, <2>2 DEF MigrationInv, Typed, Boot, EnsureSettingsRow, FindSuperadmin, InsertSuperadmin, Announce,
                      CommitSuperadmin
  <2>5. boot'[r] \notin Locked /\ boot[r] \notin Locked
    BY <2>2 DEF MigrationInv, Typed
  <2> QED BY <2>1, <2>3, <2>4, <2>5, Bystands DEF MigrationInv, LockHeld
<1>2. CASE Serve(r) \/ Answer(r) \/ LoseSuperadmin \/ UNCHANGED bootVars
  <2>1. UNCHANGED <<boot, image, todo, draft, holder, schema, ledger>>
    BY <1>2 DEF Serve, Answer, LoseSuperadmin, bootVars, dbVars
  <2> QED BY <2>1, Bystands DEF MigrationInv, LockHeld, Typed
<1>3. ASSUME NEW j \in JobNames, Tick(r, j) \/ Job(r, j) PROVE MigrationInv'
  <2>1. UNCHANGED <<boot, image, todo, draft, schema, ledger>>
    BY <1>3 DEF Tick, Job, Connect, ConnectTimesOut, TryLock, Work, JobUnlock, dbVars
  <2>2. j # SchemaLock /\ j \in LockNames
    BY DEF LockNames
  <2>3. holder' = holder \/ \E h \in Replicas \cup {None} : holder' = [holder EXCEPT ![j] = h]
    BY <1>3 DEF Tick, Job, Connect, ConnectTimesOut, TryLock, Work, JobUnlock
  <2>4. /\ holder' \in [LockNames -> Replicas \cup {None}]
        /\ holder'[SchemaLock] = holder[SchemaLock]
    <3>1. holder \in [LockNames -> Replicas \cup {None}] /\ SchemaLock \in LockNames
      BY DEF MigrationInv, LockHeld, LockNames
    <3>2. CASE holder' = holder
      BY <3>1, <3>2
    <3>3. ASSUME NEW h \in Replicas \cup {None}, holder' = [holder EXCEPT ![j] = h]
          PROVE  holder' \in [LockNames -> Replicas \cup {None}] /\ holder'[SchemaLock] = holder[SchemaLock]
      BY <2>2, <3>1, <3>3
    <3> QED BY <2>3, <3>2, <3>3
  <2> QED BY <2>1, <2>4, Bystands DEF MigrationInv, Typed
<1> QED BY <1>1, <1>2, <1>3

LEMMA MigrationInductive ==
  ASSUME None \notin Replicas, SchemaLock \notin JobNames
  PROVE  MigrationInv /\ [MCNext]_<<bootVars, torn>> => MigrationInv'
<1> SUFFICES ASSUME MigrationInv, [MCNext]_<<bootVars, torn>> PROVE MigrationInv'
  OBVIOUS
<1>1. CASE UNCHANGED <<bootVars, torn>>
  <2>1. UNCHANGED <<boot, image, todo, draft, holder, schema, ledger, torn>>
    BY <1>1 DEF bootVars, dbVars
  <2> QED BY <2>1, Bystands DEF MigrationInv, LockHeld, Typed
<1>2. CASE MCNext
  <2>1. torn' = torn \cup UNION {Torn(r) : r \in Replicas} /\ torn \subseteq torn'
    BY <1>2, TornGrows DEF MCNext
  <2>2. ASSUME NEW r \in Replicas, Start(r) \/ Stops(r) PROVE MigrationInv'
    <3>1. CASE Stops(r) \/ ApplyRefused(r) \/ InsertRefused(r)
      BY <2>1, <3>1, StopTears DEF Stops, ApplyRefused, InsertRefused
    <3>2. CASE \/ TakeSchemaLock(r) \/ Status(r) \/ ApplyFile(r) \/ LogMigration(r) \/ SchemaUnlock(r)
      BY <2>1, <3>2, LockedKeeps
    <3>3. CASE \/ EnsureSettingsRow(r) \/ FindSuperadmin(r) \/ \E p \in Passwords : InsertSuperadmin(r, p)
               \/ Announce(r) \/ CommitSuperadmin(r)
      BY <2>1, <3>3, RestBystands
    <3> QED BY <2>2, <3>1, <3>2, <3>3 DEF Start
  <2>3. ASSUME NEW r \in Replicas,
               \/ \E n \in Images : Boot(r, n)
               \/ Serve(r) \/ Answer(r)
               \/ \E j \in JobNames : Tick(r, j) \/ Job(r, j)
        PROVE  MigrationInv'
    BY <2>1, <2>3, RestBystands
  <2>4. CASE LoseSuperadmin
    <3>1. UNCHANGED <<boot, image, todo, draft, holder, schema, ledger>>
      BY <2>4 DEF LoseSuperadmin
    <3> QED BY <2>1, <3>1, Bystands DEF MigrationInv, LockHeld, Typed
  <2> QED BY <1>2, <2>2, <2>3, <2>4 DEF MCNext, BootNext
<1> QED BY <1>1, <1>2

LEMMA MigrationAlways == MCSpec => []MigrationInv
<1>1. MCInit => MigrationInv
  BY MigrationBegins DEF MCInit
<1>2. MigrationInv /\ [MCNext]_<<bootVars, torn>> => MigrationInv'
  BY MigrationInductive, NoneAssumption, LockAssumption
<1> QED BY <1>1, <1>2, PTL DEF MCSpec

(* A migration that is about to be applied and is there already was torn:  *)
(* two processes that start together never apply one file twice.           *)
THEOREM TwiceOnlyWhenTornAlways == MCSpec => []TwiceOnlyWhenTorn
<1>1. MigrationInv => TwiceOnlyWhenTorn
  <2> SUFFICES ASSUME MigrationInv, NEW r \in Replicas, boot[r] = "apply", NextFile(r) \in schema
               PROVE  NextFile(r) \in torn
    BY DEF TwiceOnlyWhenTorn
  <2>1. todo[r] # {} /\ todo[r] = (1..image[r]) \ ledger
    BY DEF MigrationInv, LeftToDo
  <2>2. todo[r] \subseteq Nat
    BY <2>1, ImageAssumption DEF MigrationInv, Typed
  <2>3. NextFile(r) \in todo[r]
    BY <2>1, <2>2, Smallest DEF NextFile
  <2>4. NextFile(r) \notin ledger
    BY <2>1, <2>3
  <2>5. ASSUME NEW o \in Replicas, boot[o] = "log" PROVE FALSE
    BY <2>5 DEF MigrationInv, LockHeld, Locked
  <2> QED BY <2>4, <2>5 DEF MigrationInv, TornOrLogging
<1>2. MCSpec => []MigrationInv
  BY MigrationAlways
<1> QED BY <1>1, <1>2, PTL
=============================================================================
