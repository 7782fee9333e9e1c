------------------------------- MODULE QrTokens -------------------------------
(***************************************************************************)
(* The codes a supervisor's screen shows, and the two ways to spend one:   *)
(* redeemQr opens a timed window in which the member's place is not asked  *)
(* for, and a check-in or check-out that carries the code is let past the  *)
(* geofence itself.  Each request is one READ COMMITTED transaction; an    *)
(* attendance request claims its code with FOR UPDATE SKIP LOCKED and      *)
(* gives it back when it is refused, redeemQr reads first and marks later. *)
(***************************************************************************)
EXTENDS Naturals

CONSTANTS
  Txns,       \* connections
  Members,
  Branches,
  Codes,      \* bound: the codes that are ever minted
  Days,       \* bound: how often midnight passes, and the dates a screen may send
  Rulebook,   \* the rules a branch may be under
  NoToken, Anyone, Idle

\* What the check-in method of the settings and the flags of a branch come to.
Rule == [qr : BOOLEAN, blocked : BOOLEAN]

ASSUME RulebookAssumption == Rulebook \subseteq Rule /\ Days \in Nat \ {0}

VARIABLES
  rules,          \* what each branch accepts
  requiresMember, \* the setting that refuses codes issued to nobody in particular
  home,           \* the branch each member belongs to
  today,
  tokens,         \* qr_tokens; a deleted row stays, its age "gone", as a memory
  window,         \* the members whose location_bypass_until is still ahead
  txn,            \* what each connection is in the middle of
  arrivals,       \* history: attendance requests each code was accepted for
  holders         \* history: the members each code was accepted from

vars == <<rules, requiresMember, home, today, tokens, window, txn, arrivals, holders>>

\* "lapsed": past its expiry; "stale": by more than the minute the cleanup allows.
Token == [branch : Branches, member : Members \cup {Anyone}, day : 1..Days,
          used : BOOLEAN, age : {"valid", "lapsed", "stale", "gone"}]

\* "cleared" and "barred" are attendance requests that have claimed their code, in a
\* branch that took check-ins when they read it and in one that did not.
Request == [pc : {"minting", "selected", "opening", "opened", "cleared", "barred"},
            member : Members \cup {Anyone}, branch : Branches, day : 1..Days,
            code : Codes \cup {NoToken}]

ASSUME NothingAssumption ==
  NoToken \notin Token \cup Codes /\ Anyone \notin Members /\ Idle \notin Request

At(x, pc) == txn[x] # Idle /\ txn[x].pc = pc
Claimed(x) == At(x, "cleared") \/ At(x, "barred")

Rows == {c \in Codes : tokens[c] # NoToken /\ tokens[c].age # "gone"}

\* Mutant: every code is spent by its first use.
SingleAll(t) == TRUE

\* planMint: single use exactly when it is issued to somebody.
SingleUse(t) == t.member # Anyone

\* A code row is locked by the redemption that marked it and the attendance request
\* that claimed it, a member's row by the redemption that opens their window.
Holds(y, c) ==
  /\ txn[y] # Idle /\ txn[y].code = c
  /\ Claimed(y) \/ ((At(y, "opening") \/ At(y, "opened")) /\ SingleUse(tokens[c]))
Locked(x, c) == \E y \in Txns \ {x} : Holds(y, c)
HoldsMember(y, m) == At(y, "opened") /\ txn[y].member = m

Init ==
  /\ rules \in [Branches -> Rulebook]
  /\ requiresMember \in BOOLEAN
  /\ home \in [Members -> Branches]
  /\ today = 1
  /\ tokens = [c \in Codes |-> NoToken]
  /\ window = {}
  /\ txn = [x \in Txns |-> Idle]
  /\ arrivals = [c \in Codes |-> 0]
  /\ holders = [c \in Codes |-> {}]

Begin(x, pc, m, b, d, c) ==
  txn' = [txn EXCEPT ![x] = [pc |-> pc, member |-> m, branch |-> b, day |-> d, code |-> c]]
End(x) == txn' = [txn EXCEPT ![x] = Idle]

-----------------------------------------------------------------------------
(* Minting: mintQr *)

\* A member who may generate codes gets an open one for their own branch; staff name
\* a member or nobody, and have to name one where the settings say so.
BeginMint(x, b, m, d, byMember) ==
  /\ txn[x] = Idle /\ rules[b].qr
  /\ byMember => m = Anyone /\ \E g \in Members : home[g] = b
  /\ ~byMember /\ requiresMember => m # Anyone
  /\ Begin(x, "minting", m, b, d, NoToken)
  /\ UNCHANGED <<rules, requiresMember, home, today, tokens, window, arrivals, holders>>

\* Every code past its expiry is deleted, waiting for those somebody is redeeming,
\* and the new one is inserted.
FinishMint(x, c) ==
  LET lapsed == {e \in Rows : tokens[e].age # "valid"}
      r == txn[x]
  IN /\ At(x, "minting") /\ tokens[c] = NoToken
     /\ \A e \in lapsed : ~Locked(x, e)
     /\ tokens' = [e \in Codes |->
          IF e = c THEN [branch |-> r.branch, member |-> r.member, day |-> r.day,
                         used |-> FALSE, age |-> "valid"]
          ELSE IF e \in lapsed THEN [tokens[e] EXCEPT !.age = "gone"]
          ELSE tokens[e]]
     /\ End(x)
     /\ UNCHANGED <<rules, requiresMember, home, today, window, arrivals, holders>>

-----------------------------------------------------------------------------
(* What makes a code redeemable *)

\* Mutant: who a code was issued to is not looked at.
ValidForAnyone(c, m) ==
  /\ c \in Rows /\ tokens[c].branch = home[m] /\ tokens[c].day = today /\ tokens[c].age = "valid"
  /\ SingleUse(tokens[c]) => ~tokens[c].used
  /\ requiresMember => tokens[c].member # Anyone

\* The branch is the member's, the date the server's, the code alive and unspent,
\* and issued to this member or to nobody.
Valid(c, m) ==
  /\ c \in Rows /\ tokens[c].branch = home[m] /\ tokens[c].day = today /\ tokens[c].age = "valid"
  /\ SingleUse(tokens[c]) => ~tokens[c].used
  /\ tokens[c].member \in {m, Anyone}
  /\ requiresMember => tokens[c].member # Anyone

-----------------------------------------------------------------------------
(* Opening a window: redeemQr *)

\* The code is read, and not locked; a request that finds none is refused at once.
BeginRedeem(x, m, c) ==
  /\ txn[x] = Idle
  /\ ~rules[home[m]].blocked /\ rules[home[m]].qr
  /\ Valid(c, m)
  /\ Begin(x, "selected", m, home[m], today, c)
  /\ UNCHANGED <<rules, requiresMember, home, today, tokens, window, arrivals, holders>>

\* A single-use code is marked, whatever it says by now; an open one is left alone.
MarkTokenUsed(x) ==
  LET c == txn[x].code
  IN /\ At(x, "selected")
     /\ SingleUse(tokens[c]) => ~Locked(x, c)
     /\ txn' = [txn EXCEPT ![x].pc = "opening"]
     /\ UNCHANGED <<rules, requiresMember, home, today, tokens, window, arrivals, holders>>

\* The member's window is written once nobody else is writing it.
UpdateMemberBypass(x) ==
  /\ At(x, "opening")
  /\ \A y \in Txns \ {x} : ~HoldsMember(y, txn[x].member)
  /\ txn' = [txn EXCEPT ![x].pc = "opened"]
  /\ UNCHANGED <<rules, requiresMember, home, today, tokens, window, arrivals, holders>>

\* Mutant: the window is opened for whoever the code was issued to.
IssuedTo(x) == tokens[txn[x].code].member

Opens(x) == txn[x].member

CommitRedeem(x) ==
  LET c == txn[x].code
  IN /\ At(x, "opened")
     /\ tokens' = IF SingleUse(tokens[c]) THEN [tokens EXCEPT ![c].used = TRUE] ELSE tokens
     /\ window' = window \cup {Opens(x)}
     /\ holders' = [holders EXCEPT ![c] = @ \cup {txn[x].member}]
     /\ End(x)
     /\ UNCHANGED <<rules, requiresMember, home, today, arrivals>>

-----------------------------------------------------------------------------
(* Passing the geofence: recordAttendance *)

\* Mutant: the code is read and not locked.
ClaimableUnlocked(x, c, m) == Valid(c, m)

\* redeemQrToken: a code that somebody else has locked is skipped.
Claimable(x, c, m) == Valid(c, m) /\ ~Locked(x, c)

\* A request with a code, of a member whose place no flag or window excuses: the
\* code is claimed, and a code that cannot be claimed refuses the request.  Whether
\* the branch takes check-ins at all was read before and is asked after.
BeginCheck(x, m, c) ==
  /\ txn[x] = Idle /\ m \notin window /\ rules[home[m]].qr
  /\ Claimable(x, c, m)
  /\ Begin(x, IF rules[home[m]].blocked THEN "barred" ELSE "cleared", m, home[m], today, c)
  /\ UNCHANGED <<rules, requiresMember, home, today, tokens, window, arrivals, holders>>

\* Mutant: the mark is made in a transaction of its own.
RefuseCheckSpent(x) ==
  /\ Claimed(x) /\ End(x)
  /\ tokens' = [tokens EXCEPT ![txn[x].code].used = SingleUse(tokens[txn[x].code])]
  /\ UNCHANGED <<rules, requiresMember, home, today, window, arrivals, holders>>

\* A later gate or the slot refuses: the mark is undone with everything else.
RefuseCheck(x) ==
  /\ Claimed(x) /\ End(x)
  /\ UNCHANGED <<rules, requiresMember, home, today, tokens, window, arrivals, holders>>

AcceptCheck(x) ==
  LET c == txn[x].code
  IN /\ At(x, "cleared")
     /\ tokens' = IF SingleUse(tokens[c]) THEN [tokens EXCEPT ![c].used = TRUE] ELSE tokens
     /\ arrivals' = [arrivals EXCEPT ![c] = IF @ < 2 THEN @ + 1 ELSE @]
     /\ holders' = [holders EXCEPT ![c] = @ \cup {txn[x].member}]
     /\ End(x)
     /\ UNCHANGED <<rules, requiresMember, home, today, window>>

-----------------------------------------------------------------------------
(* Time, staff and failure *)

\* cleanup-expired-qr: the rows a minute past their expiry.
Cleanup ==
  LET old == {c \in Rows : tokens[c].age = "stale"}
  IN /\ old # {} /\ \A c \in old, y \in Txns : ~Holds(y, c)
     /\ tokens' = [c \in Codes |-> IF c \in old THEN [tokens[c] EXCEPT !.age = "gone"] ELSE tokens[c]]
     /\ UNCHANGED <<rules, requiresMember, home, today, window, txn, arrivals, holders>>

\* A code's seconds run out, and then the minute after them.
Age(c) ==
  /\ c \in Rows /\ tokens[c].age # "stale"
  /\ tokens' = [tokens EXCEPT ![c].age = IF @ = "valid" THEN "lapsed" ELSE "stale"]
  /\ UNCHANGED <<rules, requiresMember, home, today, window, txn, arrivals, holders>>

CloseWindow(m) ==
  /\ m \in window /\ window' = window \ {m}
  /\ UNCHANGED <<rules, requiresMember, home, today, tokens, txn, arrivals, holders>>

Midnight ==
  /\ today < Days /\ today' = today + 1
  /\ UNCHANGED <<rules, requiresMember, home, tokens, window, txn, arrivals, holders>>

\* An admin edits the settings or a branch, or moves a member nobody is writing.
EditRules ==
  /\ \/ \E b \in Branches, r \in Rulebook : rules' = [rules EXCEPT ![b] = r] /\ UNCHANGED requiresMember
     \/ requiresMember' = ~requiresMember /\ UNCHANGED rules
  /\ UNCHANGED <<home, today, tokens, window, txn, arrivals, holders>>

MoveMember(m, b) ==
  /\ b # home[m] /\ \A y \in Txns : ~HoldsMember(y, m)
  /\ home' = [home EXCEPT ![m] = b]
  /\ UNCHANGED <<rules, requiresMember, today, tokens, window, txn, arrivals, holders>>

\* The connection is lost: nothing was committed.
Lose(x) ==
  /\ txn[x] # Idle /\ End(x)
  /\ UNCHANGED <<rules, requiresMember, home, today, tokens, window, arrivals, holders>>

Progress(x) ==
  \/ \E c \in Codes : FinishMint(x, c)
  \/ MarkTokenUsed(x) \/ UpdateMemberBypass(x) \/ CommitRedeem(x)
  \/ RefuseCheck(x) \/ AcceptCheck(x)

Next ==
  \/ \E x \in Txns :
       \/ Progress(x) \/ Lose(x)
       \/ \E b \in Branches, m \in Members \cup {Anyone}, d \in 1..Days, byMember \in BOOLEAN :
            BeginMint(x, b, m, d, byMember)
       \/ \E m \in Members, c \in Codes : BeginRedeem(x, m, c) \/ BeginCheck(x, m, c)
  \/ Cleanup \/ Midnight \/ EditRules
  \/ \E c \in Codes : Age(c)
  \/ \E m \in Members : CloseWindow(m)
  \/ \E m \in Members, b \in Branches : MoveMember(m, b)

Spec == Init /\ [][Next]_vars

-----------------------------------------------------------------------------
(* Properties *)

\* Every variable keeps its type.
TypeOK ==
  /\ rules \in [Branches -> Rulebook] /\ requiresMember \in BOOLEAN
  /\ home \in [Members -> Branches] /\ today \in 1..Days
  /\ tokens \in [Codes -> Token \cup {NoToken}]
  /\ window \subseteq Members
  /\ txn \in [Txns -> Request \cup {Idle}]
  /\ arrivals \in [Codes -> 0..2] /\ holders \in [Codes -> SUBSET Members]

\* However many attendance requests carry it at once, a code issued to a member
\* stands in for their place once.
SingleUseAdmitsOnce ==
  \A c \in Codes : tokens[c] # NoToken /\ SingleUse(tokens[c]) => arrivals[c] <= 1

\* A code is spent by the member it was issued to, in a request that was accepted:
\* one that was refused, or cut off, leaves it as it was.
SpentByItsMember ==
  \A c \in Codes : tokens[c] # NoToken /\ SingleUse(tokens[c]) =>
    /\ holders[c] \subseteq {tokens[c].member}
    /\ tokens[c].used <=> holders[c] # {}

\* The code a request has in hand was minted, and a personal one is its member's.
RequestsFollowTheirCode ==
  \A x \in Txns : txn[x] # Idle /\ ~At(x, "minting") =>
    /\ txn[x].code \in Codes /\ tokens[txn[x].code] # NoToken
    /\ txn[x].member \in Members
    /\ SingleUse(tokens[txn[x].code]) => txn[x].member = tokens[txn[x].code].member

\* The lock on a code has one holder.
OneHolderPerCode ==
  \A x, y \in Txns : \A c \in Codes : Holds(x, c) /\ Holds(y, c) => x = y

\* Nobody spends a personal code somebody has claimed.
ClaimsAreUnspent ==
  \A x \in Txns : Claimed(x) /\ SingleUse(tokens[txn[x].code]) => ~tokens[txn[x].code].used

\* A code never minted was never used, and a personal one that let a check pass is used.
HistoryFollowsTheRows ==
  \A c \in Codes :
    /\ tokens[c] = NoToken => arrivals[c] = 0 /\ holders[c] = {}
    /\ tokens[c] # NoToken /\ SingleUse(tokens[c]) /\ arrivals[c] # 0 => tokens[c].used

\* The inductive invariant behind the theorems of QrTokensProofs.
IInv ==
  /\ TypeOK
  /\ RequestsFollowTheirCode
  /\ OneHolderPerCode
  /\ ClaimsAreUnspent
  /\ HistoryFollowsTheRows
  /\ SingleUseAdmitsOnce
  /\ SpentByItsMember

\* A redemption that has reached its member's window did not take a code spent by
\* somebody it overtook: "a single-use token that has been used is spent".
SpentIsSpent ==
  \A x \in Txns : At(x, "opened") /\ SingleUse(tokens[txn[x].code]) => ~tokens[txn[x].code].used

=============================================================================
