----------------------------- MODULE MemberCodes -----------------------------
(***************************************************************************)
(* The codes printed on rosters, and the requests that hand them out: each *)
(* is one READ COMMITTED transaction that writes a member's group and then *)
(* looks whether the code still names the member's cohort.  A new code is  *)
(* one above the highest serial the transaction can see; nothing is locked *)
(* for that, so two may choose the same one, and the unique index on       *)
(* member_code makes the second wait and then refuses it.                  *)
(***************************************************************************)
EXTENDS FiniteSets, Naturals

CONSTANTS
  Txns,       \* connections
  People,     \* national ids: a person deleted and created again is the same person
  Groups,
  Cohorts,    \* an academic year of an institution: what a code's prefix names
  MaxSerial,  \* bound: the highest serial a cohort reaches
  Attempts,   \* how often a refused code is chosen anew: 5 in the code
  NoMember, NoCode, NoCohort, Untouched, Idle

ASSUME AttemptsAssumption == Attempts \in Nat \ {0} /\ MaxSerial \in Nat

VARIABLES
  cohort,     \* the cohort each group stands for; a group may have no academic year
  rows,       \* members, committed: group and code
  work,       \* what each transaction has written and not committed
  txn,        \* what each connection is in the middle of
  patched,    \* history: members whose group was last written by updateMember
  edited      \* history: groups whose year or institution was edited

vars == <<cohort, rows, work, txn, patched, edited>>

Code == [cohort : Cohorts, serial : 1..MaxSerial]
Row == [group : Groups, code : Code \cup {NoCode}]
Steps == {"updating", "inserting", "ensuring", "counting", "coding"}
Request == [pc : Steps, person : People, group : Groups, todo : SUBSET People,
            want : Cohorts \cup {NoCohort}, serial : 0..MaxSerial, tries : 0..Attempts, rivals : 0..Attempts]

ASSUME NothingAssumption ==
  /\ NoMember \notin Row /\ NoCode \notin Code /\ NoCohort \notin Cohorts
  /\ Untouched \notin Row \cup {NoMember} /\ Idle \notin Request

At(x, pc) == txn[x] # Idle /\ txn[x].pc = pc

\* A row somebody has written is locked until they commit.
LockedAgainst(x, p) == \E y \in Txns \ {x} : work[y][p] # Untouched
Unlocked(S) == \A p \in S, y \in Txns : work[y][p] = Untouched

\* What a transaction sees of a row: its own write, or what is committed.
Seen(x, p) == IF work[x][p] # Untouched THEN work[x][p] ELSE rows[p]
Holds(r, c) == r \in Row /\ r.code = c

\* nextSerial: one above the highest serial of the cohort in sight.
SerialsSeen(x, c) == {n \in 1..MaxSerial : \E p \in People : Holds(Seen(x, p), [cohort |-> c, serial |-> n])}

\* Mutant: the codes of the cohort are counted instead.
NextSerialCounted(x, c, n) == n = 1 + Cardinality(SerialsSeen(x, c))

NextSerial(x, c, n) ==
  /\ \A k \in SerialsSeen(x, c) : k < n
  /\ n = 1 \/ n - 1 \in SerialsSeen(x, c)

\* Mutant: a member who changes group always gets a new code.
ReissueAlways(code, c) == c # NoCohort

\* Mutant: only a member without a code gets one.
ReissueMissing(code, c) == c # NoCohort /\ code = NoCode

\* A group without an academic year asks for no code and leaves the old one.
ReissueNeeded(code, c) == c # NoCohort /\ (code = NoCode \/ code.cohort # c)

\* Mutant: the index looks at committed rows only.
UndecidedNever(x, c) == FALSE

\* members_member_code_key: a code in a row that another transaction is changing is
\* undecided until that transaction ends; one in any other row in sight is taken.
Undecided(x, c) ==
  \E y \in Txns \ {x}, p \in People :
    work[y][p] # Untouched /\ (work[y][p].code = c \/ Holds(rows[p], c))

Taken(x, p, c) == \E q \in People \ {p} : Holds(Seen(x, q), c)

Init ==
  /\ cohort \in [Groups -> Cohorts \cup {NoCohort}]
  /\ rows = [p \in People |-> NoMember]
  /\ work = [x \in Txns |-> [p \in People |-> Untouched]]
  /\ txn = [x \in Txns |-> Idle]
  /\ patched = {} /\ edited = {}

Begin(x, pc, p, g, todo) ==
  txn' = [txn EXCEPT ![x] = [pc |-> pc, person |-> p, group |-> g, todo |-> todo,
                             want |-> NoCohort, serial |-> 0, tries |-> 0, rivals |-> 0]]

\* The transaction ends with nothing written.
Abort(x) ==
  /\ txn' = [txn EXCEPT ![x] = Idle]
  /\ work' = [work EXCEPT ![x] = [p \in People |-> Untouched]]
  /\ UNCHANGED <<cohort, rows, patched, edited>>

-----------------------------------------------------------------------------
(* Creating or re-importing a member: upsertMember *)

\* Whether the national id is known is asked before anything is locked.
BeginUpsert(x, p, g) ==
  /\ txn[x] = Idle
  /\ Begin(x, IF rows[p] = NoMember THEN "inserting" ELSE "updating", p, g, {})
  /\ UNCHANGED <<cohort, rows, work, patched, edited>>

\* The group is written.
UpdateMember(x) ==
  LET p == txn[x].person
  IN /\ At(x, "updating") /\ ~LockedAgainst(x, p) /\ rows[p] # NoMember
     /\ work' = [work EXCEPT ![x][p] = [rows[p] EXCEPT !.group = txn[x].group]]
     /\ txn' = [txn EXCEPT ![x] = [txn[x] EXCEPT !.pc = "ensuring", !.todo = {p}]]
     /\ UNCHANGED <<cohort, rows, patched, edited>>

\* Profile and member are inserted; a national id taken since fails the item.
InsertMember(x) ==
  LET p == txn[x].person
  IN /\ At(x, "inserting") /\ ~LockedAgainst(x, p)
     /\ IF rows[p] # NoMember
          THEN Abort(x)
          ELSE /\ work' = [work EXCEPT ![x][p] = [group |-> txn[x].group, code |-> NoCode]]
               /\ txn' = [txn EXCEPT ![x] = [txn[x] EXCEPT !.pc = "ensuring", !.todo = {p}]]
               /\ UNCHANGED <<cohort, rows, patched, edited>>

\* bulkUpdateMembers with a group: one statement for the members the filter matches.
BulkUpdate(x, S, g) ==
  /\ txn[x] = Idle
  /\ S # {} /\ Unlocked(S) /\ \A p \in S : rows[p] # NoMember
  /\ work' = [work EXCEPT ![x] = [p \in People |-> IF p \in S THEN [rows[p] EXCEPT !.group = g] ELSE Untouched]]
  /\ \E p \in S : Begin(x, "ensuring", p, g, S)
  /\ UNCHANGED <<cohort, rows, patched, edited>>

-----------------------------------------------------------------------------
(* Issuing the code: ensureMemberCode for each member whose group was written *)

\* Reads the code and the cohort of the group; a code of that cohort is kept.
EnsureMemberCode(x, p) ==
  /\ At(x, "ensuring") /\ p \in txn[x].todo
  /\ LET c == cohort[work[x][p].group]
     IN IF ReissueNeeded(work[x][p].code, c)
          THEN txn' = [txn EXCEPT ![x] = [txn[x] EXCEPT !.pc = "counting", !.person = p, !.want = c,
                                                   !.tries = 0, !.rivals = 0]]
          ELSE txn' = [txn EXCEPT ![x] = [txn[x] EXCEPT !.todo = @ \ {p}]]
  /\ UNCHANGED <<cohort, rows, work, patched, edited>>

ChooseSerial(x) ==
  \E n \in 1..MaxSerial :
    /\ At(x, "counting") /\ NextSerial(x, txn[x].want, n)
    /\ txn' = [txn EXCEPT ![x] = [txn[x] EXCEPT !.pc = "coding", !.serial = n]]
    /\ UNCHANGED <<cohort, rows, work, patched, edited>>

Choice(x) == [cohort |-> txn[x].want, serial |-> txn[x].serial]

\* The code is written inside a savepoint once the index has decided.
WriteCode(x) ==
  LET p == txn[x].person
  IN /\ At(x, "coding") /\ ~Undecided(x, Choice(x)) /\ ~Taken(x, p, Choice(x))
     /\ work' = [work EXCEPT ![x][p] = [work[x][p] EXCEPT !.code = Choice(x)]]
     /\ txn' = [txn EXCEPT ![x] = [txn[x] EXCEPT !.pc = "ensuring", !.todo = @ \ {p}, !.want = NoCohort,
                                              !.serial = 0, !.tries = 0, !.rivals = 0]]
     /\ UNCHANGED <<cohort, rows, patched, edited>>

\* The index refuses it: only the savepoint is undone and the serial chosen anew.
Retry(x) ==
  /\ At(x, "coding") /\ ~Undecided(x, Choice(x)) /\ Taken(x, txn[x].person, Choice(x))
  /\ txn[x].tries + 1 < Attempts
  /\ txn' = [txn EXCEPT ![x] = [txn[x] EXCEPT !.pc = "counting", !.tries = @ + 1]]
  /\ UNCHANGED <<cohort, rows, work, patched, edited>>

\* The last attempt is refused: the whole item, or the whole bulk change, fails.
GiveUp(x) ==
  /\ At(x, "coding") /\ ~Undecided(x, Choice(x)) /\ Taken(x, txn[x].person, Choice(x))
  /\ txn[x].tries + 1 = Attempts
  /\ Abort(x)

\* Somebody else choosing in a cohort sees the codes committed to it.
Witnessed(x, y) ==
  \E p \in People : /\ work[x][p] # Untouched /\ work[x][p].code # NoCode
                    /\ work[x][p].code.cohort = txn[y].want
                    /\ ~Holds(rows[p], work[x][p].code)

Commit(x) ==
  /\ At(x, "ensuring") /\ txn[x].todo = {}
  /\ rows' = [p \in People |-> Seen(x, p)]
  /\ work' = [work EXCEPT ![x] = [p \in People |-> Untouched]]
  /\ txn' = [y \in Txns |->
       IF y = x THEN Idle
       ELSE IF txn[y] # Idle /\ Witnessed(x, y) /\ txn[y].rivals < Attempts
            THEN [txn[y] EXCEPT !.rivals = @ + 1]
            ELSE txn[y]]
  /\ patched' = {p \in patched : work[x][p] = Untouched}
  /\ UNCHANGED <<cohort, edited>>

-----------------------------------------------------------------------------
(* The other writers *)

\* MembersService.updateMember: the group is written and the code left alone.
PatchMember(p, g) ==
  /\ rows[p] # NoMember /\ Unlocked({p})
  /\ rows' = [rows EXCEPT ![p].group = g]
  /\ patched' = patched \cup {p}
  /\ UNCHANGED <<cohort, work, txn, edited>>

\* deleteProfile or bulkDeleteProfiles: the member goes with the profile.  An upsert
\* that had found the member updates no row, issues no code and ends.
DeleteMembers(S) ==
  /\ S # {} /\ Unlocked(S) /\ \A p \in S : rows[p] # NoMember
  /\ rows' = [p \in People |-> IF p \in S THEN NoMember ELSE rows[p]]
  /\ patched' = patched \ S
  /\ txn' = [x \in Txns |-> IF At(x, "updating") /\ txn[x].person \in S THEN Idle ELSE txn[x]]
  /\ UNCHANGED <<cohort, work, edited>>

\* updateGroup, or updateInstitution taken group by group: another cohort, and no
\* code is looked at.  Bound: once per group.
EditGroup(g, c) ==
  /\ g \notin edited /\ c # cohort[g]
  /\ cohort' = [cohort EXCEPT ![g] = c]
  /\ edited' = edited \cup {g}
  /\ UNCHANGED <<rows, work, txn, patched>>

\* The connection is lost, the server goes down or Postgres ends a deadlock.
Lose(x) == txn[x] # Idle /\ Abort(x)

Next ==
  \/ \E x \in Txns :
       \/ UpdateMember(x) \/ InsertMember(x) \/ ChooseSerial(x)
       \/ WriteCode(x) \/ Retry(x) \/ GiveUp(x) \/ Commit(x) \/ Lose(x)
       \/ \E p \in People : EnsureMemberCode(x, p)
       \/ \E p \in People, g \in Groups : BeginUpsert(x, p, g)
       \/ \E S \in SUBSET People, g \in Groups : BulkUpdate(x, S, g)
  \/ \E p \in People, g \in Groups : PatchMember(p, g)
  \/ \E S \in SUBSET People : DeleteMembers(S)
  \/ \E g \in Groups, c \in Cohorts \cup {NoCohort} : EditGroup(g, c)

Spec == Init /\ [][Next]_vars

-----------------------------------------------------------------------------
(* Properties *)

\* Every variable keeps its type.
TypeOK ==
  /\ cohort \in [Groups -> Cohorts \cup {NoCohort}]
  /\ rows \in [People -> Row \cup {NoMember}]
  /\ work \in [Txns -> [People -> Row \cup {Untouched}]]
  /\ txn \in [Txns -> Request \cup {Idle}]
  /\ patched \subseteq People /\ edited \subseteq Groups

\* However many requests choose the same serial, no two members hold one code.
CodesAreDistinct ==
  \A p, q \in People : \A c \in Code : Holds(rows[p], c) /\ Holds(rows[q], c) => p = q

\* Every code refused by the index was lost to a request that committed one in the
\* same cohort meanwhile, a different one each time: a creation fails for want of a
\* code only after as many others succeeded as there are attempts.
EveryRetryHasARival ==
  \A x \in Txns : At(x, "counting") \/ At(x, "coding") => txn[x].tries <= txn[x].rivals

\* Creating, re-importing and moving members leaves every one of them with a code of
\* the cohort their group stands for, unless the group itself was edited or the
\* member moved by updateMember.
CodeFollowsCohort ==
  \A p \in People \ patched :
    (rows[p] \in Row /\ rows[p].group \notin edited /\ cohort[rows[p].group] # NoCohort)
    => rows[p].code # NoCode /\ rows[p].code.cohort = cohort[rows[p].group]

\* A member who keeps a code of the cohort they end in keeps that very code: it is
\* printed on the rosters of the year.
PrintedCodeStands ==
  [][\A p \in People :
       (rows[p] \in Row /\ rows'[p] \in Row /\ rows[p].code # NoCode /\ rows'[p].code # rows[p].code)
       => rows'[p].code # NoCode /\ rows'[p].code.cohort # rows[p].code.cohort]_vars

\* A code names the cohort of its member's group whatever wrote the group.
CodeNamesItsCohort ==
  \A p \in People :
    (rows[p] \in Row /\ rows[p].group \notin edited /\ cohort[rows[p].group] # NoCohort)
    => rows[p].code # NoCode /\ rows[p].code.cohort = cohort[rows[p].group]

=============================================================================
