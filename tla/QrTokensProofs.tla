---------------------------- MODULE QrTokensProofs ----------------------------
(***************************************************************************)
(* What QrTokens keeps for any number of connections, members, branches,   *)
(* codes and days: a code issued to a member lets one check past the       *)
(* geofence, and nobody but that member spends it.                         *)
(***************************************************************************)
EXTENDS QrTokens, TLAPS

\* A step that leaves requests, codes and the history alone keeps the invariant, but
\* for the types of what it changes.
LEMMA QuietStep ==
  ASSUME IInv, TypeOK', UNCHANGED <<tokens, txn, arrivals, holders>>
  PROVE  IInv'
BY DEF IInv, RequestsFollowTheirCode, OneHolderPerCode, ClaimsAreUnspent, HistoryFollowsTheRows,
       SingleUseAdmitsOnce, SpentByItsMember, Holds, At, Claimed, SingleUse

\* A request that ends without writing gives back what it held.
LEMMA EndedStep ==
  ASSUME IInv, NEW x \in Txns, End(x), UNCHANGED <<rules, requiresMember, home, today, tokens, window, arrivals, holders>>
  PROVE  IInv'
<1> USE NothingAssumption DEF IInv
<1>1. TypeOK' BY DEF TypeOK, End
<1>2. /\ txn'[x] = Idle
      /\ \A y \in Txns \ {x} : txn'[y] = txn[y]
  BY DEF TypeOK, End
<1>3. RequestsFollowTheirCode' BY <1>2 DEF RequestsFollowTheirCode, At, SingleUse
<1>4. OneHolderPerCode' BY <1>2 DEF OneHolderPerCode, Holds, At, Claimed, SingleUse
<1>5. ClaimsAreUnspent' BY <1>2 DEF ClaimsAreUnspent, At, Claimed, SingleUse
<1>6. HistoryFollowsTheRows' /\ SingleUseAdmitsOnce' /\ SpentByItsMember'
  BY DEF HistoryFollowsTheRows, SingleUseAdmitsOnce, SpentByItsMember, SingleUse
<1> QED BY <1>1, <1>3, <1>4, <1>5, <1>6

-----------------------------------------------------------------------------
(* Mint *)

LEMMA BeginMintStep ==
  ASSUME IInv, NEW x \in Txns, NEW b \in Branches, NEW m \in Members \cup {Anyone}, NEW d \in 1..Days,
         NEW byMember \in BOOLEAN, BeginMint(x, b, m, d, byMember)
  PROVE  IInv'
<1> DEFINE r == [pc |-> "minting", member |-> m, branch |-> b, day |-> d, code |-> NoToken]
<1> USE NothingAssumption DEF IInv, BeginMint, Begin
<1>1. r \in Request BY DEF Request
<1>2. TypeOK' BY <1>1 DEF TypeOK
<1>3. /\ txn'[x] = r /\ r.pc = "minting"
      /\ \A y \in Txns \ {x} : txn'[y] = txn[y]
  BY DEF TypeOK
<1>4. RequestsFollowTheirCode' BY <1>3 DEF RequestsFollowTheirCode, At, SingleUse
<1>5. OneHolderPerCode' BY <1>3 DEF OneHolderPerCode, Holds, At, Claimed, SingleUse
<1>6. ClaimsAreUnspent' BY <1>3 DEF ClaimsAreUnspent, At, Claimed, SingleUse
<1>7. HistoryFollowsTheRows' /\ SingleUseAdmitsOnce' /\ SpentByItsMember'
  BY DEF HistoryFollowsTheRows, SingleUseAdmitsOnce, SpentByItsMember, SingleUse
<1> QED BY <1>2, <1>4, <1>5, <1>6, <1>7

\* Deleting a row keeps whom it was for and whether it was used; a new one was never used.
LEMMA FinishMintStep ==
  ASSUME IInv, NEW x \in Txns, NEW c \in Codes, FinishMint(x, c)
  PROVE  IInv'
<1> USE NothingAssumption DEF IInv, FinishMint
<1> DEFINE r == txn[x]
           n == [branch |-> r.branch, member |-> r.member, day |-> r.day, used |-> FALSE, age |-> "valid"]
<1>1. r \in Request BY DEF TypeOK, At
<1>2. n \in Token BY <1>1 DEF Request, Token
<1>3. /\ tokens' \in [Codes -> Token \cup {NoToken}]
      /\ tokens'[c] = n
      /\ \A e \in Codes \ {c} :
           /\ tokens'[e] = NoToken <=> tokens[e] = NoToken
           /\ tokens'[e] # NoToken => tokens'[e].member = tokens[e].member /\ tokens'[e].used = tokens[e].used
  <2> DEFINE gone(e) == [tokens[e] EXCEPT !.age = "gone"]
  <2>1. \A e \in Rows : gone(e) \in Token /\ gone(e).member = tokens[e].member /\ gone(e).used = tokens[e].used
    BY DEF TypeOK, Token, Rows
  <2>2. \A e \in Codes : tokens'[e] = n \/ tokens'[e] = tokens[e] \/ (e \in Rows /\ tokens'[e] = gone(e))
    OBVIOUS
  <2>3. \A e \in Codes \ {c} : tokens'[e] = tokens[e] \/ (e \in Rows /\ tokens'[e] = gone(e))
    OBVIOUS
  <2>4. DOMAIN tokens' = Codes /\ tokens'[c] = n OBVIOUS
  <2>5. \A e \in Codes : tokens'[e] \in Token \cup {NoToken} BY <1>2, <2>1, <2>2 DEF TypeOK
  <2>6. tokens' \in [Codes -> Token \cup {NoToken}] BY <2>5
  <2> HIDE DEF n, r, gone, FinishMint
  <2>7. ASSUME NEW e \in Codes \ {c}
        PROVE  /\ tokens'[e] = NoToken <=> tokens[e] = NoToken
               /\ tokens'[e] # NoToken => tokens'[e].member = tokens[e].member /\ tokens'[e].used = tokens[e].used
    <3>1. CASE tokens'[e] = tokens[e] BY <3>1
    <3>2. CASE e \in Rows /\ tokens'[e] = gone(e) BY <2>1, <3>2 DEF Rows
    <3> QED BY <2>3, <3>1, <3>2
  <2> QED BY <2>4, <2>6, <2>7
<1>4. TypeOK' BY <1>3 DEF TypeOK, End
<1>5. /\ txn'[x] = Idle
      /\ \A y \in Txns \ {x} : txn'[y] = txn[y]
  BY DEF TypeOK, End
<1> HIDE DEF n, r
<1>6. n # NoToken /\ n.used = FALSE BY <1>2 DEF n
<1>7. \A y \in Txns : txn'[y] # Idle /\ txn'[y].pc # "minting" => txn[y].code \in Codes \ {c}
  BY <1>5 DEF RequestsFollowTheirCode, At
<1>8. RequestsFollowTheirCode' BY <1>3, <1>5, <1>7 DEF RequestsFollowTheirCode, At, SingleUse
<1>9. OneHolderPerCode' BY <1>3, <1>5, <1>7 DEF OneHolderPerCode, Holds, At, Claimed, SingleUse
<1>10. ClaimsAreUnspent' BY <1>3, <1>5, <1>7 DEF ClaimsAreUnspent, At, Claimed, SingleUse
<1>11. HistoryFollowsTheRows' BY <1>3, <1>6 DEF HistoryFollowsTheRows, SingleUse
<1>12. SingleUseAdmitsOnce' BY <1>3, <1>6 DEF HistoryFollowsTheRows, SingleUseAdmitsOnce, SingleUse, TypeOK
<1>13. SpentByItsMember' BY <1>3, <1>6 DEF HistoryFollowsTheRows, SpentByItsMember, SingleUse
<1> QED BY <1>4, <1>8, <1>9, <1>10, <1>11, <1>12, <1>13

-----------------------------------------------------------------------------
(* Redeem *)

\* A code that is only read is not held.
LEMMA BeginRedeemStep ==
  ASSUME IInv, NEW x \in Txns, NEW m \in Members, NEW c \in Codes, BeginRedeem(x, m, c)
  PROVE  IInv'
<1> DEFINE r == [pc |-> "selected", member |-> m, branch |-> home[m], day |-> today, code |-> c]
<1> USE NothingAssumption DEF IInv, BeginRedeem, Begin
<1>1. r \in Request BY DEF Request, TypeOK
<1>2. TypeOK' BY <1>1 DEF TypeOK
<1>3. /\ txn'[x] = r /\ r.pc = "selected" /\ r.code = c /\ r.member = m
      /\ \A y \in Txns \ {x} : txn'[y] = txn[y]
  BY DEF TypeOK
<1>4. tokens[c] # NoToken /\ tokens[c].member \in {m, Anyone} BY DEF Valid, Rows
<1> HIDE DEF r
<1>5. RequestsFollowTheirCode' BY <1>3, <1>4 DEF RequestsFollowTheirCode, At, SingleUse
<1>6. OneHolderPerCode' BY <1>3 DEF OneHolderPerCode, Holds, At, Claimed, SingleUse
<1>7. ClaimsAreUnspent' BY <1>3 DEF ClaimsAreUnspent, At, Claimed, SingleUse
<1>8. HistoryFollowsTheRows' /\ SingleUseAdmitsOnce' /\ SpentByItsMember'
  BY DEF HistoryFollowsTheRows, SingleUseAdmitsOnce, SpentByItsMember, SingleUse
<1> QED BY <1>2, <1>5, <1>6, <1>7, <1>8

\* A redemption takes its code only when no other request has it.
LEMMA MarkTokenUsedStep ==
  ASSUME IInv, NEW x \in Txns, MarkTokenUsed(x)
  PROVE  IInv'
<1> DEFINE r == [txn[x] EXCEPT !.pc = "opening"]
<1> USE NothingAssumption DEF IInv, MarkTokenUsed
<1>1. r \in Request /\ r.pc = "opening" /\ r.code = txn[x].code /\ r.member = txn[x].member
  BY DEF Request, TypeOK, At
<1>2. TypeOK' BY <1>1 DEF TypeOK
<1>3. txn'[x] = r /\ \A y \in Txns \ {x} : txn'[y] = txn[y] BY DEF TypeOK
<1> HIDE DEF r
<1>4. RequestsFollowTheirCode' BY <1>1, <1>3 DEF RequestsFollowTheirCode, At, SingleUse
<1>5. OneHolderPerCode' BY <1>1, <1>3 DEF OneHolderPerCode, Holds, At, Claimed, SingleUse, Locked
<1>6. ClaimsAreUnspent' BY <1>1, <1>3 DEF ClaimsAreUnspent, At, Claimed, SingleUse
<1>7. HistoryFollowsTheRows' /\ SingleUseAdmitsOnce' /\ SpentByItsMember'
  BY DEF HistoryFollowsTheRows, SingleUseAdmitsOnce, SpentByItsMember, SingleUse
<1> QED BY <1>2, <1>4, <1>5, <1>6, <1>7

\* Taking the member's row changes nothing about who holds the code.
LEMMA UpdateMemberBypassStep ==
  ASSUME IInv, NEW x \in Txns, UpdateMemberBypass(x)
  PROVE  IInv'
<1> DEFINE r == [txn[x] EXCEPT !.pc = "opened"]
<1> USE NothingAssumption DEF IInv, UpdateMemberBypass
<1>1. r \in Request /\ r.pc = "opened" /\ r.code = txn[x].code /\ r.member = txn[x].member
  BY DEF Request, TypeOK, At
<1>2. TypeOK' BY <1>1 DEF TypeOK
<1>3. txn'[x] = r /\ \A y \in Txns \ {x} : txn'[y] = txn[y] BY DEF TypeOK
<1> HIDE DEF r
<1>4. RequestsFollowTheirCode' BY <1>1, <1>3 DEF RequestsFollowTheirCode, At, SingleUse
<1>5. OneHolderPerCode' BY <1>1, <1>3 DEF OneHolderPerCode, Holds, At, Claimed, SingleUse
<1>6. ClaimsAreUnspent' BY <1>1, <1>3 DEF ClaimsAreUnspent, At, Claimed, SingleUse
<1>7. HistoryFollowsTheRows' /\ SingleUseAdmitsOnce' /\ SpentByItsMember'
  BY DEF HistoryFollowsTheRows, SingleUseAdmitsOnce, SpentByItsMember, SingleUse
<1> QED BY <1>2, <1>4, <1>5, <1>6, <1>7

\* Marking a code spends it if it is personal, and touches nothing else of any code.
LEMMA MarkedRows ==
  ASSUME TypeOK, NEW c \in Codes, tokens[c] # NoToken,
         tokens' = IF SingleUse(tokens[c]) THEN [tokens EXCEPT ![c].used = TRUE] ELSE tokens
  PROVE  /\ tokens' \in [Codes -> Token \cup {NoToken}]
         /\ \A e \in Codes :
              /\ tokens'[e] = NoToken <=> tokens[e] = NoToken
              /\ tokens'[e] # NoToken => tokens'[e].member = tokens[e].member
              /\ e # c => tokens'[e] = tokens[e]
         /\ SingleUse(tokens[c]) => tokens'[c].used = TRUE
<1> DEFINE n == [tokens[c] EXCEPT !.used = TRUE]
<1> USE NothingAssumption
<1>1. n \in Token /\ n.member = tokens[c].member /\ n.used = TRUE BY DEF TypeOK, Token
<1>2. CASE SingleUse(tokens[c])
  <2>1. tokens' = [tokens EXCEPT ![c] = n] BY <1>2 DEF TypeOK
  <2> HIDE DEF n
  <2>2. tokens'[c] = n /\ \A e \in Codes \ {c} : tokens'[e] = tokens[e] BY <2>1 DEF TypeOK
  <2>3. tokens' \in [Codes -> Token \cup {NoToken}] BY <1>1, <2>1 DEF TypeOK
  <2> QED BY <1>1, <2>2, <2>3
<1>3. CASE ~SingleUse(tokens[c]) BY <1>3 DEF TypeOK
<1> QED BY <1>2, <1>3

\* A redemption held its code, so nobody had claimed what it spends.
LEMMA CommitRedeemStep ==
  ASSUME IInv, NEW x \in Txns, CommitRedeem(x)
  PROVE  IInv'
<1> DEFINE c == txn[x].code
           m == txn[x].member
<1> USE NothingAssumption DEF IInv
<1>1. /\ c \in Codes /\ tokens[c] # NoToken /\ m \in Members
      /\ SingleUse(tokens[c]) => m = tokens[c].member
      /\ txn[x] # Idle /\ txn[x].pc = "opened"
  BY DEF CommitRedeem, RequestsFollowTheirCode, At
<1>2. PICK k \in Codes, mm \in Members : k = c /\ mm = m BY <1>1
<1>3. /\ tokens' \in [Codes -> Token \cup {NoToken}]
      /\ \A e \in Codes :
           /\ tokens'[e] = NoToken <=> tokens[e] = NoToken
           /\ tokens'[e] # NoToken => tokens'[e].member = tokens[e].member
           /\ e # k => tokens'[e] = tokens[e]
      /\ SingleUse(tokens[k]) => tokens'[k].used = TRUE
  BY <1>1, <1>2, MarkedRows DEF CommitRedeem
<1>4. /\ txn'[x] = Idle
      /\ \A y \in Txns \ {x} : txn'[y] = txn[y]
  BY DEF CommitRedeem, TypeOK, End
<1>5. /\ arrivals' = arrivals
      /\ holders'[k] = holders[k] \cup {mm}
      /\ \A e \in Codes \ {k} : holders'[e] = holders[e]
  BY <1>1, <1>2 DEF CommitRedeem, TypeOK
<1>6. TypeOK' BY <1>1, <1>3 DEF CommitRedeem, TypeOK, End, Opens
<1>7. \A y \in Txns \ {x} : Claimed(y) /\ SingleUse(tokens[txn[y].code]) => txn[y].code # k
  BY <1>1, <1>2 DEF OneHolderPerCode, Holds, At, Claimed
<1> HIDE DEF c, m
<1>8. /\ tokens[k] # NoToken
      /\ SingleUse(tokens[k]) => mm = tokens[k].member
  BY <1>1, <1>2 DEF c, m
<1>9. RequestsFollowTheirCode' BY <1>3, <1>4 DEF RequestsFollowTheirCode, At, SingleUse
<1>10. OneHolderPerCode'
  BY <1>3, <1>4 DEF OneHolderPerCode, RequestsFollowTheirCode, Holds, At, Claimed, SingleUse
<1>11. ClaimsAreUnspent'
  BY <1>3, <1>4, <1>7 DEF ClaimsAreUnspent, RequestsFollowTheirCode, At, Claimed, SingleUse
<1>12. HistoryFollowsTheRows' BY <1>3, <1>5, <1>8 DEF HistoryFollowsTheRows, SingleUse
<1>13. SingleUseAdmitsOnce' BY <1>3, <1>5 DEF SingleUseAdmitsOnce, SingleUse
<1>14. SpentByItsMember' BY <1>3, <1>5, <1>8 DEF SpentByItsMember, SingleUse
<1> QED BY <1>6, <1>9, <1>10, <1>11, <1>12, <1>13, <1>14

-----------------------------------------------------------------------------
(* Check *)

\* The lock is skipped when somebody has it, and a spent code is not there to claim.
LEMMA BeginCheckStep ==
  ASSUME IInv, NEW x \in Txns, NEW m \in Members, NEW c \in Codes, BeginCheck(x, m, c)
  PROVE  IInv'
<1> USE NothingAssumption DEF IInv
<1>1. PICK p \in {"cleared", "barred"} :
        txn' = [txn EXCEPT ![x] = [pc |-> p, member |-> m, branch |-> home[m], day |-> today, code |-> c]]
  BY DEF BeginCheck, Begin
<1> DEFINE r == [pc |-> p, member |-> m, branch |-> home[m], day |-> today, code |-> c]
<1>2. r \in Request BY DEF Request, TypeOK
<1>3. UNCHANGED <<rules, requiresMember, home, today, tokens, window, arrivals, holders>> BY DEF BeginCheck
<1>4. TypeOK' BY <1>1, <1>2, <1>3 DEF TypeOK
<1>5. /\ txn'[x] = r /\ r.pc = p /\ r.code = c /\ r.member = m
      /\ \A y \in Txns \ {x} : txn'[y] = txn[y]
  BY <1>1 DEF TypeOK
<1>6. /\ tokens[c] # NoToken /\ tokens[c].member \in {m, Anyone}
      /\ SingleUse(tokens[c]) => ~tokens[c].used
      /\ \A y \in Txns \ {x} : ~Holds(y, c)
  BY DEF BeginCheck, Claimable, Valid, Rows, Locked
<1> HIDE DEF r
<1>7. RequestsFollowTheirCode' BY <1>3, <1>5, <1>6 DEF RequestsFollowTheirCode, At, SingleUse
<1>8. OneHolderPerCode' BY <1>3, <1>5, <1>6 DEF OneHolderPerCode, Holds, At, Claimed, SingleUse
<1>9. ClaimsAreUnspent' BY <1>3, <1>5, <1>6 DEF ClaimsAreUnspent, At, Claimed, SingleUse
<1>10. HistoryFollowsTheRows' /\ SingleUseAdmitsOnce' /\ SpentByItsMember'
  BY <1>3 DEF HistoryFollowsTheRows, SingleUseAdmitsOnce, SpentByItsMember, SingleUse
<1> QED BY <1>4, <1>7, <1>8, <1>9, <1>10

\* A claimed personal code was unspent, so this is the first check it lets pass.
LEMMA AcceptCheckStep ==
  ASSUME IInv, NEW x \in Txns, AcceptCheck(x)
  PROVE  IInv'
<1> DEFINE c == txn[x].code
           m == txn[x].member
<1> USE NothingAssumption DEF IInv
<1>1. /\ c \in Codes /\ tokens[c] # NoToken /\ m \in Members
      /\ SingleUse(tokens[c]) => m = tokens[c].member /\ ~tokens[c].used
      /\ txn[x] # Idle /\ txn[x].pc = "cleared"
  BY DEF AcceptCheck, RequestsFollowTheirCode, ClaimsAreUnspent, At, Claimed
<1>2. PICK k \in Codes, mm \in Members : k = c /\ mm = m BY <1>1
<1>3. /\ tokens' \in [Codes -> Token \cup {NoToken}]
      /\ \A e \in Codes :
           /\ tokens'[e] = NoToken <=> tokens[e] = NoToken
           /\ tokens'[e] # NoToken => tokens'[e].member = tokens[e].member
           /\ e # k => tokens'[e] = tokens[e]
      /\ SingleUse(tokens[k]) => tokens'[k].used = TRUE
  BY <1>1, <1>2, MarkedRows DEF AcceptCheck
<1>4. /\ txn'[x] = Idle
      /\ \A y \in Txns \ {x} : txn'[y] = txn[y]
  BY DEF AcceptCheck, TypeOK, End
<1>5. /\ holders'[k] = holders[k] \cup {mm}
      /\ arrivals'[k] = IF arrivals[k] < 2 THEN arrivals[k] + 1 ELSE arrivals[k]
      /\ \A e \in Codes \ {k} : holders'[e] = holders[e] /\ arrivals'[e] = arrivals[e]
  BY <1>1, <1>2 DEF AcceptCheck, TypeOK
<1>6. arrivals' \in [Codes -> 0..2]
  <2>1. (IF arrivals[k] < 2 THEN arrivals[k] + 1 ELSE arrivals[k]) \in 0..2 BY DEF TypeOK
  <2> QED BY <1>2, <2>1 DEF AcceptCheck, TypeOK
<1>7. TypeOK' BY <1>1, <1>3, <1>6 DEF AcceptCheck, TypeOK, End
<1>8. \A y \in Txns \ {x} : Claimed(y) => txn[y].code # k
  BY <1>1, <1>2 DEF OneHolderPerCode, Holds, At, Claimed
<1> HIDE DEF c, m
<1>9. /\ tokens[k] # NoToken
      /\ SingleUse(tokens[k]) => mm = tokens[k].member /\ arrivals[k] = 0
  BY <1>1, <1>2 DEF HistoryFollowsTheRows, c, m
<1>10. RequestsFollowTheirCode' BY <1>3, <1>4 DEF RequestsFollowTheirCode, At, SingleUse
<1>11. OneHolderPerCode'
  BY <1>3, <1>4 DEF OneHolderPerCode, RequestsFollowTheirCode, Holds, At, Claimed, SingleUse
<1>12. ClaimsAreUnspent'
  BY <1>3, <1>4, <1>8 DEF ClaimsAreUnspent, RequestsFollowTheirCode, At, Claimed, SingleUse
<1>13. HistoryFollowsTheRows' BY <1>3, <1>5, <1>9 DEF HistoryFollowsTheRows, SingleUse
<1>14. SingleUseAdmitsOnce' BY <1>3, <1>5, <1>9 DEF SingleUseAdmitsOnce, SingleUse
<1>15. SpentByItsMember' BY <1>3, <1>5, <1>9 DEF SpentByItsMember, SingleUse
<1> QED BY <1>7, <1>10, <1>11, <1>12, <1>13, <1>14, <1>15

-----------------------------------------------------------------------------
(* Time and staff *)

\* A code that grows old keeps whom it was for and whether it was used.
LEMMA AgedRows ==
  ASSUME IInv,
         NEW old \in SUBSET Rows, NEW to \in {"lapsed", "stale", "gone"},
         tokens' = [c \in Codes |-> IF c \in old THEN [tokens[c] EXCEPT !.age = to] ELSE tokens[c]],
         UNCHANGED <<rules, requiresMember, home, today, window, txn, arrivals, holders>>
  PROVE  IInv'
<1> DEFINE aged(c) == [tokens[c] EXCEPT !.age = to]
<1> USE NothingAssumption DEF IInv
<1>1. \A c \in Rows : aged(c) \in Token /\ aged(c).member = tokens[c].member /\ aged(c).used = tokens[c].used
  BY DEF TypeOK, Token, Rows
<1>2. \A c \in Codes : tokens'[c] = tokens[c] \/ (c \in Rows /\ tokens'[c] = aged(c)) OBVIOUS
<1>3. tokens' \in [Codes -> Token \cup {NoToken}]
  <2>1. \A c \in Codes : tokens'[c] \in Token \cup {NoToken} BY <1>1, <1>2 DEF TypeOK
  <2> QED BY <2>1
<1> HIDE DEF aged
<1>4. ASSUME NEW c \in Codes
      PROVE  /\ tokens'[c] = NoToken <=> tokens[c] = NoToken
             /\ tokens'[c] # NoToken => tokens'[c].member = tokens[c].member /\ tokens'[c].used = tokens[c].used
  <2>1. CASE tokens'[c] = tokens[c] BY <2>1
  <2>2. CASE c \in Rows /\ tokens'[c] = aged(c) BY <1>1, <2>2 DEF Rows
  <2> QED BY <1>2, <2>1, <2>2
<1>5. TypeOK' BY <1>3 DEF TypeOK
<1>6. RequestsFollowTheirCode' BY <1>4 DEF RequestsFollowTheirCode, At, SingleUse
<1>7. OneHolderPerCode'
  BY <1>4 DEF OneHolderPerCode, RequestsFollowTheirCode, Holds, At, Claimed, SingleUse
<1>8. ClaimsAreUnspent' BY <1>4 DEF ClaimsAreUnspent, RequestsFollowTheirCode, At, Claimed, SingleUse
<1>9. HistoryFollowsTheRows' /\ SingleUseAdmitsOnce' /\ SpentByItsMember'
  BY <1>4 DEF HistoryFollowsTheRows, SingleUseAdmitsOnce, SpentByItsMember, SingleUse
<1> QED BY <1>5, <1>6, <1>7, <1>8, <1>9

\* cleanup-expired-qr deletes rows and nothing else.
LEMMA CleanupStep ==
  ASSUME IInv, Cleanup
  PROVE  IInv'
<1> DEFINE old == {c \in Rows : tokens[c].age = "stale"}
<1>1. old \in SUBSET Rows OBVIOUS
<1>2. /\ tokens' = [c \in Codes |-> IF c \in old THEN [tokens[c] EXCEPT !.age = "gone"] ELSE tokens[c]]
      /\ UNCHANGED <<rules, requiresMember, home, today, window, txn, arrivals, holders>>
  BY DEF Cleanup
<1> HIDE DEF old
<1> QED BY <1>1, <1>2, AgedRows

\* The seconds of one code run out.
LEMMA AgeStep ==
  ASSUME IInv, NEW e \in Codes, Age(e)
  PROVE  IInv'
<1>1. PICK to \in {"lapsed", "stale", "gone"} : tokens' = [tokens EXCEPT ![e].age = to]
  BY DEF Age
<1>2. {e} \in SUBSET Rows BY DEF Age
<1>3. tokens' = [c \in Codes |-> IF c \in {e} THEN [tokens[c] EXCEPT !.age = to] ELSE tokens[c]]
  BY <1>1 DEF IInv, TypeOK
<1>4. UNCHANGED <<rules, requiresMember, home, today, window, txn, arrivals, holders>> BY DEF Age
<1> QED BY <1>2, <1>3, <1>4, AgedRows

\* The clock, the settings, the branches and the members' homes are nothing to a code
\* that was already read.
LEMMA OutsideStep ==
  ASSUME IInv, \/ Midnight \/ EditRules
               \/ \E m \in Members : CloseWindow(m)
               \/ \E m \in Members, b \in Branches : MoveMember(m, b)
  PROVE  IInv'
<1> USE RulebookAssumption DEF IInv
<1>1. CASE Midnight
  <2>1. TypeOK' BY <1>1 DEF Midnight, TypeOK
  <2> QED BY <1>1, <2>1, QuietStep DEF Midnight
<1>2. CASE EditRules
  <2>1. rules' \in [Branches -> Rulebook] /\ requiresMember' \in BOOLEAN BY <1>2 DEF EditRules, TypeOK
  <2>2. TypeOK' BY <1>2, <2>1 DEF EditRules, TypeOK
  <2> QED BY <1>2, <2>2, QuietStep DEF EditRules
<1>3. CASE \E m \in Members : CloseWindow(m)
  <2>1. TypeOK' BY <1>3 DEF CloseWindow, TypeOK
  <2> QED BY <1>3, <2>1, QuietStep DEF CloseWindow
<1>4. CASE \E m \in Members, b \in Branches : MoveMember(m, b)
  <2>1. TypeOK' BY <1>4 DEF MoveMember, TypeOK
  <2> QED BY <1>4, <2>1, QuietStep DEF MoveMember
<1> QED BY <1>1, <1>2, <1>3, <1>4

-----------------------------------------------------------------------------
(* The theorems *)

\* Nothing is minted, in hand or spent at the start.
LEMMA InitStep == Init => IInv
BY RulebookAssumption, NothingAssumption
   DEF Init, IInv, TypeOK, RequestsFollowTheirCode, OneHolderPerCode, ClaimsAreUnspent,
       HistoryFollowsTheRows, SingleUseAdmitsOnce, SpentByItsMember, Holds, At, Claimed

\* Every step of any connection, and of the world around them, keeps the invariant.
LEMMA EveryStep == IInv /\ [Next]_vars => IInv'
<1> SUFFICES ASSUME IInv, [Next]_vars PROVE IInv'
  OBVIOUS
<1>1. CASE UNCHANGED vars
  <2>1. TypeOK' BY <1>1 DEF IInv, TypeOK, vars
  <2> QED BY <1>1, <2>1, QuietStep DEF vars
<1>2. CASE Next
  <2>1. ASSUME NEW x \in Txns, Progress(x) PROVE IInv'
    <3>1. CASE \E c \in Codes : FinishMint(x, c) BY <3>1, FinishMintStep
    <3>2. CASE MarkTokenUsed(x) BY <3>2, MarkTokenUsedStep
    <3>3. CASE UpdateMemberBypass(x) BY <3>3, UpdateMemberBypassStep
    <3>4. CASE CommitRedeem(x) BY <3>4, CommitRedeemStep
    <3>5. CASE RefuseCheck(x) BY <3>5, EndedStep DEF RefuseCheck
    <3>6. CASE AcceptCheck(x) BY <3>6, AcceptCheckStep
    <3> QED BY <2>1, <3>1, <3>2, <3>3, <3>4, <3>5, <3>6 DEF Progress
  <2>2. ASSUME NEW x \in Txns, Lose(x) PROVE IInv' BY <2>2, EndedStep DEF Lose
  <2>3. ASSUME NEW x \in Txns, NEW b \in Branches, NEW m \in Members \cup {Anyone}, NEW d \in 1..Days,
               NEW byMember \in BOOLEAN, BeginMint(x, b, m, d, byMember)
        PROVE  IInv'
    BY <2>3, BeginMintStep
  <2>4. ASSUME NEW x \in Txns, NEW m \in Members, NEW c \in Codes, BeginRedeem(x, m, c) PROVE IInv'
    BY <2>4, BeginRedeemStep
  <2>5. ASSUME NEW x \in Txns, NEW m \in Members, NEW c \in Codes, BeginCheck(x, m, c) PROVE IInv'
    BY <2>5, BeginCheckStep
  <2>6. CASE Cleanup BY <2>6, CleanupStep
  <2>7. ASSUME NEW c \in Codes, Age(c) PROVE IInv' BY <2>7, AgeStep
  <2> QED BY <1>2, <2>1, <2>2, <2>3, <2>4, <2>5, <2>6, <2>7, OutsideStep DEF Next
<1> QED BY <1>1, <1>2

\* Requests, codes and history stay in step, for any number of each: a request's code was
\* minted, one request holds it, and a claimed personal code is unspent.
THEOREM CodesInductive == Spec => []IInv
<1>1. Init => IInv BY InitStep
<1>2. IInv /\ [Next]_vars => IInv' BY EveryStep
<1> QED BY <1>1, <1>2, PTL DEF Spec

\* Every variable keeps its type.
THEOREM QrTyped == Spec => []TypeOK
<1>1. IInv => TypeOK BY DEF IInv
<1> QED BY <1>1, CodesInductive, PTL

\* redeemQrToken's SKIP LOCKED claim: however many check-ins carry a personal code at once,
\* and whatever redemptions, deletions and midnights fall between, one is let past the geofence.
THEOREM PersonalCodeAdmitsOnce == Spec => []SingleUseAdmitsOnce
<1>1. IInv => SingleUseAdmitsOnce BY DEF IInv
<1> QED BY <1>1, CodesInductive, PTL

\* A personal code is marked exactly when a request of its member was accepted with it:
\* a refusal or a lost connection undoes the mark, and nobody else's request makes one.
THEOREM PersonalCodeSpentByItsMember == Spec => []SpentByItsMember
<1>1. IInv => SpentByItsMember BY DEF IInv
<1> QED BY <1>1, CodesInductive, PTL

=============================================================================
