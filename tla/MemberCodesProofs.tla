-------------------------- MODULE MemberCodesProofs --------------------------
(***************************************************************************)
(* What MemberCodes keeps for any number of connections, people, groups,   *)
(* serials and attempts.  Three invariants stand on one about the shape of *)
(* a request: what members hold and see is distinct, what a request lost   *)
(* it lost to a rival, and what it is done with names its cohort.          *)
(***************************************************************************)
EXTENDS MemberCodes, TLAPS

Coding(x) == At(x, "counting") \/ At(x, "coding")

\* A request has written the members it still has to look at, and nothing before
\* its first statement; what it chooses is a serial of a cohort.
Shaped(x) ==
  /\ txn[x] = Idle \/ At(x, "updating") \/ At(x, "inserting")
     => \A p \in People : work[x][p] = Untouched
  /\ txn[x] # Idle => \A p \in txn[x].todo : work[x][p] # Untouched
  /\ Coding(x) => txn[x].person \in txn[x].todo /\ txn[x].want \in Cohorts
  /\ At(x, "coding") => txn[x].serial \in 1..MaxSerial

Shape == TypeOK /\ \A x \in Txns : Shaped(x)

\* A row is written by one transaction at a time.
RowsAreLocked ==
  \A p \in People : \A x, y \in Txns :
    work[x][p] # Untouched /\ work[y][p] # Untouched => x = y

\* No transaction sees a code twice.
SightIsDistinct ==
  \A x \in Txns : \A p, q \in People : \A c \in Code :
    Holds(Seen(x, p), c) /\ Holds(Seen(x, q), c) => p = q

\* No two members are being written with one code.
WorkIsDistinct ==
  \A x, y \in Txns : \A p, q \in People : \A c \in Code :
    Holds(work[x][p], c) /\ Holds(work[y][q], c) => p = q

Distinct == RowsAreLocked /\ SightIsDistinct /\ WorkIsDistinct /\ CodesAreDistinct

\* A serial that is no longer free was taken by one rival more than it was retried for.
Contested(x) ==
  /\ Coding(x) => txn[x].tries < Attempts /\ txn[x].tries <= txn[x].rivals
  /\ At(x, "coding") /\ Taken(x, txn[x].person, Choice(x)) => txn[x].tries < txn[x].rivals

ChoicesAreContested == \A x \in Txns : Contested(x)

\* A row names the cohort of its group.
Named(r) ==
  r.group \notin edited /\ cohort[r.group] # NoCohort
  => r.code # NoCode /\ r.code.cohort = cohort[r.group]

\* What a request has written and looked at names its cohort; what it looks at asks
\* for a code of the cohort it has.
Follows(x) ==
  /\ \A p \in People : work[x][p] # Untouched => txn[x] # Idle /\ (p \in txn[x].todo \/ Named(work[x][p]))
  /\ Coding(x) => work[x][txn[x].person].group \in edited
                  \/ txn[x].want = cohort[work[x][txn[x].person].group]

Following == CodeFollowsCohort /\ \A x \in Txns : Follows(x)

-----------------------------------------------------------------------------
(* The shape of requests *)

LEMMA ShapeInitially == Init => Shape
BY DEF Init, Shape, TypeOK, Shaped, Coding, At

\* A step of one request leaves the shape of the others.
LEMMA OthersKeepShape ==
  ASSUME NEW x \in Txns, Shape,
         txn' \in [Txns -> Request \cup {Idle}], work' \in [Txns -> [People -> Row \cup {Untouched}]],
         cohort' \in [Groups -> Cohorts \cup {NoCohort}], rows' \in [People -> Row \cup {NoMember}],
         patched' \subseteq People, edited' \subseteq Groups,
         \A y \in Txns \ {x} : txn'[y] = txn[y] /\ work'[y] = work[y],
         Shaped(x)'
  PROVE  Shape'
<1>1. TypeOK'
  BY DEF TypeOK
<1>2. ASSUME NEW y \in Txns \ {x} PROVE Shaped(y)'
  <2>1. Shaped(y)
    BY DEF Shape
  <2>2. txn'[y] = txn[y] /\ work'[y] = work[y]
    OBVIOUS
  <2> QED BY <2>1, <2>2 DEF Shaped, Coding, At
<1> QED BY <1>1, <1>2 DEF Shape

\* Asking to create or re-import a member.
LEMMA BeginKeepsShape ==
  ASSUME Shape, NEW x \in Txns, NEW p \in People, NEW g \in Groups, BeginUpsert(x, p, g)
  PROVE  Shape'
<1> DEFINE r == [pc |-> IF rows[p] = NoMember THEN "inserting" ELSE "updating", person |-> p,
                 group |-> g, todo |-> {}, want |-> NoCohort, serial |-> 0, tries |-> 0, rivals |-> 0]
<1>1. r \in Request /\ r # Idle
  BY AttemptsAssumption, NothingAssumption DEF Request, Steps
<1>2. txn' = [txn EXCEPT ![x] = r] /\ txn[x] = Idle /\ UNCHANGED <<cohort, rows, work, patched, edited>>
  BY DEF BeginUpsert, Begin
<1>3. txn'[x] = r /\ r.todo = {} /\ r.pc \in {"inserting", "updating"}
  BY <1>2 DEF Shape, TypeOK
<1> HIDE DEF r
<1>4. Shaped(x)'
  BY <1>1, <1>2, <1>3 DEF Shape, Shaped, Coding, At
<1> QED BY <1>1, <1>2, <1>4, OthersKeepShape DEF Shape, TypeOK

\* Writing the group of a member, or the member.
LEMMA WriteMemberKeepsShape ==
  ASSUME Shape, NEW x \in Txns, UpdateMember(x) \/ InsertMember(x)
  PROVE  Shape'
<1> DEFINE p == txn[x].person
<1>1. txn[x] \in Request /\ p \in People
  BY NothingAssumption DEF Shape, TypeOK, Request, UpdateMember, InsertMember, At
<1>2. CASE InsertMember(x) /\ rows[p] # NoMember
  <2>1. txn' = [txn EXCEPT ![x] = Idle] /\ work' = [work EXCEPT ![x] = [q \in People |-> Untouched]]
        /\ UNCHANGED <<cohort, rows, patched, edited>>
    BY <1>2 DEF InsertMember, Abort
  <2>2. Shaped(x)'
    BY <2>1 DEF Shape, TypeOK, Shaped, Coding, At
  <2> QED BY <2>1, <2>2, OthersKeepShape DEF Shape, TypeOK
<1>3. CASE UpdateMember(x) \/ (InsertMember(x) /\ rows[p] = NoMember)
  <2> DEFINE r == [txn[x] EXCEPT !.pc = "ensuring", !.todo = {p}]
  <2>1. txn' = [txn EXCEPT ![x] = r] /\ UNCHANGED <<cohort, rows, patched, edited>>
    BY <1>3 DEF UpdateMember, InsertMember
  <2>2. r \in Request /\ r.pc = "ensuring" /\ r.todo = {p}
    BY <1>1 DEF Request, Steps
  <2>3. PICK w \in Row : work' = [work EXCEPT ![x][p] = w]
    <3>1. CASE UpdateMember(x)
      <4>1. rows[p] \in Row
        BY <1>1, <3>1 DEF UpdateMember, Shape, TypeOK
      <4>2. [rows[p] EXCEPT !.group = txn[x].group] \in Row
        BY <1>1, <4>1 DEF Request, Row
      <4> QED BY <3>1, <4>2 DEF UpdateMember
    <3>2. CASE InsertMember(x) /\ rows[p] = NoMember
      <4>1. [group |-> txn[x].group, code |-> NoCode] \in Row
        BY <1>1 DEF Request, Row
      <4> QED BY <3>2, <4>1 DEF InsertMember
    <3> QED BY <1>3, <3>1, <3>2
  <2>4. w # Untouched
    BY NothingAssumption
  <2> HIDE DEF r
  <2>5. work' \in [Txns -> [People -> Row \cup {Untouched}]] /\ work'[x][p] = w
        /\ \A y \in Txns \ {x} : work'[y] = work[y]
    BY <1>1, <2>3 DEF Shape, TypeOK
  <2>6. txn' \in [Txns -> Request \cup {Idle}] /\ txn'[x] = r /\ \A y \in Txns \ {x} : txn'[y] = txn[y]
    BY <2>1, <2>2 DEF Shape, TypeOK
  <2>7. Shaped(x)'
    BY <2>2, <2>4, <2>5, <2>6, NothingAssumption DEF Shaped, Coding, At
  <2> HIDE DEF p
  <2> QED BY <2>1, <2>5, <2>6, <2>7, OthersKeepShape DEF Shape, TypeOK
<1> QED BY <1>2, <1>3

\* Writing the group of every member a filter matches.
LEMMA BulkUpdateKeepsShape ==
  ASSUME Shape, NEW x \in Txns, NEW S \in SUBSET People, NEW g \in Groups, BulkUpdate(x, S, g)
  PROVE  Shape'
<1> DEFINE w == [p \in People |-> IF p \in S THEN [rows[p] EXCEPT !.group = g] ELSE Untouched]
           r(p) == [pc |-> "ensuring", person |-> p, group |-> g, todo |-> S, want |-> NoCohort,
                    serial |-> 0, tries |-> 0, rivals |-> 0]
<1>1. \A p \in S : r(p) \in Request /\ r(p).todo = S /\ r(p).pc = "ensuring"
  BY AttemptsAssumption DEF Request, Steps
<1>2. PICK p \in S : txn' = [txn EXCEPT ![x] = r(p)]
  BY DEF BulkUpdate, Begin
<1>3. work' = [work EXCEPT ![x] = w] /\ UNCHANGED <<cohort, rows, patched, edited>>
  BY DEF BulkUpdate
<1>4. ASSUME NEW q \in S PROVE w[q] \in Row
  <2>1. rows[q] \in Row
    BY DEF BulkUpdate, Shape, TypeOK
  <2> QED BY <2>1 DEF Row
<1>5. w \in [People -> Row \cup {Untouched}] /\ \A q \in S : w[q] # Untouched
  BY <1>4, NothingAssumption
<1> HIDE DEF w, r
<1>6. txn' \in [Txns -> Request \cup {Idle}] /\ txn'[x] = r(p) /\ \A y \in Txns \ {x} : txn'[y] = txn[y]
  BY <1>1, <1>2 DEF Shape, TypeOK
<1>7. work' \in [Txns -> [People -> Row \cup {Untouched}]] /\ work'[x] = w
      /\ \A y \in Txns \ {x} : work'[y] = work[y]
  BY <1>3, <1>5 DEF Shape, TypeOK
<1>8. Shaped(x)'
  BY <1>1, <1>5, <1>6, <1>7, NothingAssumption DEF Shaped, Coding, At
<1> QED BY <1>3, <1>6, <1>7, <1>8, OthersKeepShape DEF Shape, TypeOK

\* Looking at a member's code, choosing a serial and choosing anew move one request on.
LEMMA LookingKeepsShape ==
  ASSUME Shape, NEW x \in Txns,
         ChooseSerial(x) \/ Retry(x) \/ \E p \in People : EnsureMemberCode(x, p)
  PROVE  Shape'
<1>1. txn[x] \in Request /\ txn[x] # Idle /\ Shaped(x)
  BY NothingAssumption DEF Shape, TypeOK, ChooseSerial, Retry, EnsureMemberCode, At
<1>2. UNCHANGED <<cohort, rows, work, patched, edited>>
  BY DEF ChooseSerial, Retry, EnsureMemberCode
<1>3. \E r \in Request : /\ txn' = [txn EXCEPT ![x] = r]
                         /\ r.pc \in {"ensuring", "counting", "coding"}
                         /\ r.todo \subseteq txn[x].todo
                         /\ r.pc \in {"counting", "coding"} => r.person \in r.todo /\ r.want \in Cohorts
                         /\ r.pc = "coding" => r.serial \in 1..MaxSerial
  <2>1. CASE ChooseSerial(x)
    <3>1. PICK n \in 1..MaxSerial : txn' = [txn EXCEPT ![x] = [txn[x] EXCEPT !.pc = "coding", !.serial = n]]
      BY <2>1 DEF ChooseSerial
    <3> DEFINE r == [txn[x] EXCEPT !.pc = "coding", !.serial = n]
    <3>5. n \in 0..MaxSerial
      BY AttemptsAssumption
    <3>2. r \in Request /\ r.pc = "coding" /\ r.serial = n /\ r.todo = txn[x].todo
          /\ r.person = txn[x].person /\ r.want = txn[x].want
      BY <1>1, <3>5 DEF Request, Steps
    <3>3. txn[x].person \in txn[x].todo /\ txn[x].want \in Cohorts
      BY <1>1, <2>1 DEF ChooseSerial, Shaped, Coding
    <3>4. txn' = [txn EXCEPT ![x] = r]
      BY <3>1
    <3> HIDE DEF r
    <3> QED BY <3>2, <3>3, <3>4
  <2>2. CASE Retry(x)
    <3> DEFINE r == [txn[x] EXCEPT !.pc = "counting", !.tries = @ + 1]
    <3>1. txn[x].tries + 1 \in 0..Attempts
      BY <1>1, <2>2, AttemptsAssumption DEF Request, Retry
    <3>2. r \in Request /\ r.pc = "counting" /\ r.todo = txn[x].todo
          /\ r.person = txn[x].person /\ r.want = txn[x].want
      BY <1>1, <3>1 DEF Request, Steps
    <3>3. txn[x].person \in txn[x].todo /\ txn[x].want \in Cohorts
      BY <1>1, <2>2 DEF Retry, Shaped, Coding
    <3>4. txn' = [txn EXCEPT ![x] = r]
      BY <2>2 DEF Retry
    <3> HIDE DEF r
    <3> QED BY <3>2, <3>3, <3>4
  <2>3. ASSUME NEW p \in People, EnsureMemberCode(x, p)
        PROVE  \E r \in Request : /\ txn' = [txn EXCEPT ![x] = r]
                                  /\ r.pc \in {"ensuring", "counting", "coding"}
                                  /\ r.todo \subseteq txn[x].todo
                                  /\ r.pc \in {"counting", "coding"} => r.person \in r.todo /\ r.want \in Cohorts
                                  /\ r.pc = "coding" => r.serial \in 1..MaxSerial
    <3> DEFINE c == cohort[work[x][p].group]
               r == [txn[x] EXCEPT !.pc = "counting", !.person = p, !.want = c, !.tries = 0, !.rivals = 0]
               s == [txn[x] EXCEPT !.todo = @ \ {p}]
    <3>1. p \in txn[x].todo /\ txn[x].pc = "ensuring"
      BY <2>3 DEF EnsureMemberCode, At
    <3>2. work[x][p] \in Row
      BY <1>1, <3>1 DEF Shaped, Shape, TypeOK
    <3>3. c \in Cohorts \cup {NoCohort}
      BY <3>2 DEF Row, Shape, TypeOK
    <3>4. CASE ReissueNeeded(work[x][p].code, c)
      <4>1. c \in Cohorts
        BY <3>3, <3>4 DEF ReissueNeeded
      <4>2. txn' = [txn EXCEPT ![x] = r]
        BY <2>3, <3>4 DEF EnsureMemberCode
      <4> HIDE DEF c
      <4>5. 0 \in 0..Attempts
        BY AttemptsAssumption
      <4>3. r \in Request /\ r.pc = "counting" /\ r.todo = txn[x].todo /\ r.person = p /\ r.want = c
        BY <1>1, <4>1, <4>5 DEF Request, Steps
      <4> HIDE DEF r
      <4> QED BY <3>1, <4>1, <4>2, <4>3
    <3>5. CASE ~ReissueNeeded(work[x][p].code, c)
      <4>1. txn' = [txn EXCEPT ![x] = s]
        BY <2>3, <3>5 DEF EnsureMemberCode
      <4>2. s \in Request /\ s.pc = "ensuring" /\ s.todo \subseteq txn[x].todo
        BY <1>1, <3>1 DEF Request
      <4> HIDE DEF s
      <4> QED BY <4>1, <4>2
    <3> QED BY <3>4, <3>5
  <2> QED BY <2>1, <2>2, <2>3
<1>4. txn' \in [Txns -> Request \cup {Idle}] /\ \A y \in Txns \ {x} : txn'[y] = txn[y]
  BY <1>3 DEF Shape, TypeOK
<1>5. Shaped(x)'
  BY <1>1, <1>2, <1>3, NothingAssumption DEF Shape, TypeOK, Shaped, Coding, At
<1> QED BY <1>2, <1>4, <1>5, OthersKeepShape DEF Shape, TypeOK

\* Writing the code is one more write of a row that is written already.
LEMMA WriteCodeKeepsShape ==
  ASSUME Shape, NEW x \in Txns, WriteCode(x)
  PROVE  /\ Shape'
         /\ txn[x].person \in People /\ work[x][txn[x].person] \in Row
         /\ Choice(x) \in Code
<1> DEFINE p == txn[x].person
           w == [work[x][p] EXCEPT !.code = Choice(x)]
           r == [txn[x] EXCEPT !.pc = "ensuring", !.todo = @ \ {p}, !.want = NoCohort,
                               !.serial = 0, !.tries = 0, !.rivals = 0]
<1>1. txn[x] \in Request /\ txn[x] # Idle /\ Shaped(x) /\ At(x, "coding")
  BY NothingAssumption DEF Shape, TypeOK, WriteCode, At
<1>2. p \in txn[x].todo /\ p \in People /\ work[x][p] \in Row
  BY <1>1 DEF Shaped, Coding, Request, Shape, TypeOK
<1>3. Choice(x) \in Code
  BY <1>1 DEF Shaped, Coding, Choice, Code
<1>4. w \in Row /\ w # Untouched
  BY <1>2, <1>3, NothingAssumption DEF Row
<1>11. 0 \in 0..Attempts /\ 0 \in 0..MaxSerial
  BY AttemptsAssumption
<1>5. r \in Request /\ r.pc = "ensuring" /\ r.todo = txn[x].todo \ {p}
  BY <1>1, <1>11 DEF Request, Steps
<1>6. work' = [work EXCEPT ![x][p] = w] /\ txn' = [txn EXCEPT ![x] = r]
      /\ UNCHANGED <<cohort, rows, patched, edited>>
  BY DEF WriteCode
<1> HIDE DEF w, r
<1>7. work' \in [Txns -> [People -> Row \cup {Untouched}]] /\ work'[x][p] = w
      /\ (\A q \in People \ {p} : work'[x][q] = work[x][q])
      /\ \A y \in Txns \ {x} : work'[y] = work[y]
  BY <1>2, <1>4, <1>6 DEF Shape, TypeOK
<1>8. txn' \in [Txns -> Request \cup {Idle}] /\ txn'[x] = r /\ \A y \in Txns \ {x} : txn'[y] = txn[y]
  BY <1>5, <1>6 DEF Shape, TypeOK
<1>9. Shaped(x)'
  BY <1>1, <1>2, <1>4, <1>5, <1>7, <1>8, NothingAssumption DEF Shaped, Coding, At, Request
<1> HIDE DEF p
<1>10. Shape'
  BY <1>6, <1>7, <1>8, <1>9, OthersKeepShape DEF Shape, TypeOK
<1> QED BY <1>2, <1>3, <1>10 DEF p

\* A request that ends without a trace.
LEMMA AbortKeepsShape ==
  ASSUME Shape, NEW x \in Txns, Abort(x)
  PROVE  Shape'
<1>1. txn' = [txn EXCEPT ![x] = Idle] /\ work' = [work EXCEPT ![x] = [q \in People |-> Untouched]]
      /\ UNCHANGED <<cohort, rows, patched, edited>>
  BY DEF Abort
<1>2. Shaped(x)'
  BY <1>1 DEF Shape, TypeOK, Shaped, Coding, At
<1> QED BY <1>1, <1>2, OthersKeepShape DEF Shape, TypeOK

\* Committing leaves the request's rows, and counts for those who were choosing.
LEMMA CommitKeepsShape ==
  ASSUME Shape, NEW x \in Txns, Commit(x)
  PROVE  Shape'
<1>1. rows' = [p \in People |-> Seen(x, p)] /\ rows' \in [People -> Row \cup {NoMember}]
  BY DEF Commit, Seen, Shape, TypeOK
<1>2. work' = [work EXCEPT ![x] = [p \in People |-> Untouched]]
      /\ cohort' = cohort /\ edited' = edited /\ patched' \subseteq People
  BY DEF Commit, Shape, TypeOK
<1>3. ASSUME NEW y \in Txns, txn[y] # Idle, txn[y].rivals < Attempts
      PROVE  /\ [txn[y] EXCEPT !.rivals = @ + 1] \in Request
             /\ \A r : r = [txn[y] EXCEPT !.rivals = @ + 1] =>
                  /\ r.pc = txn[y].pc /\ r.todo = txn[y].todo /\ r.person = txn[y].person
                  /\ r.want = txn[y].want /\ r.serial = txn[y].serial
  <2>1. txn[y] \in Request
    BY <1>3 DEF Shape, TypeOK
  <2>2. txn[y].rivals + 1 \in 0..Attempts
    BY <1>3, <2>1, AttemptsAssumption DEF Request
  <2> QED BY <2>1, <2>2 DEF Request
<1>4. ASSUME NEW y \in Txns
      PROVE  /\ txn'[y] \in Request \cup {Idle}
             /\ y = x => txn'[y] = Idle
             /\ y # x => /\ txn'[y] = Idle <=> txn[y] = Idle
                         /\ txn[y] # Idle => /\ txn'[y].pc = txn[y].pc /\ txn'[y].todo = txn[y].todo
                                             /\ txn'[y].person = txn[y].person /\ txn'[y].want = txn[y].want
                                             /\ txn'[y].serial = txn[y].serial
  BY <1>3, NothingAssumption DEF Commit, Shape, TypeOK
<1>5. txn' \in [Txns -> Request \cup {Idle}]
  BY <1>4 DEF Commit
<1>6. TypeOK'
  BY <1>1, <1>2, <1>5 DEF Shape, TypeOK
<1>7. ASSUME NEW y \in Txns PROVE Shaped(y)'
  <2>1. CASE y = x
    BY <1>2, <1>4, <2>1 DEF Shape, TypeOK, Shaped, Coding, At
  <2>2. CASE y # x
    <3>1. work'[y] = work[y] /\ Shaped(y)
      BY <1>2, <2>2 DEF Shape, TypeOK
    <3> QED BY <1>4, <2>2, <3>1 DEF Shaped, Coding, At
  <2> QED BY <2>1, <2>2
<1> QED BY <1>6, <1>7 DEF Shape

\* The other writers touch no request but those whose member they delete.
LEMMA WritersKeepShape ==
  ASSUME Shape,
         \/ \E p \in People, g \in Groups : PatchMember(p, g)
         \/ \E S \in SUBSET People : DeleteMembers(S)
         \/ \E g \in Groups, c \in Cohorts \cup {NoCohort} : EditGroup(g, c)
  PROVE  Shape'
<1>1. ASSUME NEW p \in People, NEW g \in Groups, PatchMember(p, g) PROVE Shape'
  <2>1. [rows[p] EXCEPT !.group = g] \in Row
    BY <1>1 DEF PatchMember, Shape, TypeOK, Row
  <2>2. rows' \in [People -> Row \cup {NoMember}]
    BY <1>1, <2>1 DEF PatchMember, Shape, TypeOK
  <2>3. TypeOK'
    BY <1>1, <2>2 DEF PatchMember, Shape, TypeOK
  <2> QED BY <1>1, <2>3 DEF PatchMember, Shape, Shaped, Coding, At
<1>2. ASSUME NEW S \in SUBSET People, DeleteMembers(S) PROVE Shape'
  <2>1. TypeOK'
    BY <1>2 DEF DeleteMembers, Shape, TypeOK
  <2>2. ASSUME NEW y \in Txns PROVE Shaped(y)'
    <3>1. Shaped(y) /\ work' = work /\ (txn'[y] = txn[y] \/ (At(y, "updating") /\ txn'[y] = Idle))
      BY <1>2 DEF DeleteMembers, Shape
    <3> QED BY <3>1 DEF Shaped, Coding, At
  <2> QED BY <2>1, <2>2 DEF Shape
<1>3. ASSUME NEW g \in Groups, NEW c \in Cohorts \cup {NoCohort}, EditGroup(g, c) PROVE Shape'
  <2>1. TypeOK'
    BY <1>3 DEF EditGroup, Shape, TypeOK
  <2> QED BY <1>3, <2>1 DEF EditGroup, Shape, Shaped, Coding, At
<1> QED BY <1>1, <1>2, <1>3

LEMMA ShapeKept == Shape /\ [Next]_vars => Shape'
<1> SUFFICES ASSUME Shape, [Next]_vars PROVE Shape'
  OBVIOUS
<1>1. CASE UNCHANGED vars
  BY <1>1 DEF vars, Shape, TypeOK, Shaped, Coding, At
<1>2. ASSUME NEW x \in Txns, UpdateMember(x) \/ InsertMember(x) PROVE Shape'
  BY <1>2, WriteMemberKeepsShape
<1>3. ASSUME NEW x \in Txns, ChooseSerial(x) \/ Retry(x) \/ \E p \in People : EnsureMemberCode(x, p)
      PROVE  Shape'
  BY <1>3, LookingKeepsShape
<1>4. ASSUME NEW x \in Txns, WriteCode(x) PROVE Shape'
  BY <1>4, WriteCodeKeepsShape
<1>5. ASSUME NEW x \in Txns, GiveUp(x) \/ Lose(x) PROVE Shape'
  BY <1>5, AbortKeepsShape DEF GiveUp, Lose
<1>6. ASSUME NEW x \in Txns, Commit(x) PROVE Shape'
  BY <1>6, CommitKeepsShape
<1>7. ASSUME NEW x \in Txns, NEW p \in People, NEW g \in Groups, BeginUpsert(x, p, g) PROVE Shape'
  BY <1>7, BeginKeepsShape
<1>8. ASSUME NEW x \in Txns, NEW S \in SUBSET People, NEW g \in Groups, BulkUpdate(x, S, g) PROVE Shape'
  BY <1>8, BulkUpdateKeepsShape
<1> QED BY <1>1, <1>2, <1>3, <1>4, <1>5, <1>6, <1>7, <1>8, WritersKeepShape DEF Next

\* Every variable keeps its type, and every request the shape the code gives it.
THEOREM RequestsShaped == Spec => []Shape
BY ShapeInitially, ShapeKept, PTL DEF Spec

\* What MembersRepository reads and writes keeps its type.
THEOREM MemberCodesTyped == Spec => []TypeOK
<1>1. Shape => TypeOK
  BY DEF Shape
<1> QED BY <1>1, RequestsShaped, PTL

-----------------------------------------------------------------------------
(* No two members hold one code *)

LEMMA DistinctInitially == Init => Distinct
BY NothingAssumption DEF Init, Distinct, RowsAreLocked, SightIsDistinct, WorkIsDistinct, CodesAreDistinct,
   Holds, Seen

\* Writing members nobody else is writing, each with the code they have or none.
LEMMA MovingKeepsDistinct ==
  ASSUME Shape, Distinct, NEW x \in Txns, NEW S \in SUBSET People,
         Unlocked(S), rows' = rows,
         \A y \in Txns \ {x} : work'[y] = work[y],
         \A p \in People \ S : work'[x][p] = work[x][p],
         \A p \in S, c \in Code : Holds(work'[x][p], c) => Holds(rows[p], c)
  PROVE  Distinct'
<1>1. \A p \in S, y \in Txns : work[y][p] = Untouched
  BY DEF Unlocked
<1>2. \A c \in Code : ~Holds(Untouched, c)
  BY NothingAssumption DEF Holds
<1>3. RowsAreLocked'
  BY <1>1 DEF RowsAreLocked, Distinct
<1>4. ASSUME NEW y \in Txns, NEW p \in People, NEW c \in Code, Holds(Seen(y, p)', c)
      PROVE  Holds(Seen(y, p), c)
  <2>1. CASE y # x \/ p \notin S
    BY <1>4, <2>1 DEF Seen
  <2>2. CASE y = x /\ p \in S
    BY <1>1, <1>4, <2>2 DEF Seen
  <2> QED BY <2>1, <2>2
<1>5. SightIsDistinct'
  BY <1>4 DEF SightIsDistinct, Distinct, Holds
<1>6. WorkIsDistinct'
  <2>1. ASSUME NEW y \in Txns, NEW p \in People, NEW c \in Code, Holds(work'[y][p], c)
        PROVE  Holds(work[y][p], c) \/ (y = x /\ p \in S /\ Holds(rows[p], c))
    BY <2>1
  <2>2. ASSUME NEW y \in Txns, NEW z \in Txns, NEW p \in People, NEW q \in People, NEW c \in Code,
               Holds(work'[y][p], c), Holds(work'[z][q], c)
        PROVE  p = q
    <3>1. CASE Holds(work[y][p], c) /\ Holds(work[z][q], c)
      BY <3>1 DEF WorkIsDistinct, Distinct
    <3>2. CASE p \in S /\ Holds(rows[p], c) /\ Holds(work[z][q], c)
      <4>1. Holds(Seen(z, p), c) /\ Holds(Seen(z, q), c)
        BY <1>1, <1>2, <3>2 DEF Seen
      <4> QED BY <4>1 DEF SightIsDistinct, Distinct
    <3>3. CASE q \in S /\ Holds(rows[q], c) /\ Holds(work[y][p], c)
      <4>1. Holds(Seen(y, p), c) /\ Holds(Seen(y, q), c)
        BY <1>1, <1>2, <3>3 DEF Seen
      <4> QED BY <4>1 DEF SightIsDistinct, Distinct
    <3>4. CASE Holds(rows[p], c) /\ Holds(rows[q], c)
      BY <3>4 DEF CodesAreDistinct, Distinct
    <3> QED BY <2>1, <2>2, <3>1, <3>2, <3>3, <3>4
  <2> QED BY <2>2 DEF WorkIsDistinct, Holds
<1> QED BY <1>3, <1>5, <1>6 DEF Distinct, CodesAreDistinct

\* The code that is written is in nobody's sight and in nobody's hands.
LEMMA WriteCodeKeepsDistinct ==
  ASSUME Shape, Distinct, NEW x \in Txns, WriteCode(x)
  PROVE  Distinct'
<1>13. PICK p \in People : p = txn[x].person /\ work[x][p] \in Row
  BY WriteCodeKeepsShape
<1> DEFINE w == [work[x][p] EXCEPT !.code = Choice(x)]
<1>1. p \in People /\ work[x][p] \in Row /\ Choice(x) \in Code
  BY <1>13, WriteCodeKeepsShape
<1>2. w \in Row /\ w.code = Choice(x) /\ w # Untouched
  BY <1>1, NothingAssumption DEF Row
<1>3. work' = [work EXCEPT ![x][p] = w] /\ rows' = rows
      /\ ~Undecided(x, Choice(x)) /\ ~Taken(x, p, Choice(x))
  BY <1>13 DEF WriteCode
<1> HIDE DEF w
<1>4. work'[x][p] = w /\ (\A q \in People \ {p} : work'[x][q] = work[x][q])
      /\ \A y \in Txns \ {x} : work'[y] = work[y]
  BY <1>1, <1>3 DEF Shape, TypeOK
<1>5. \A c \in Code : ~Holds(Untouched, c)
  BY NothingAssumption DEF Holds
<1>6. RowsAreLocked'
  BY <1>1, <1>2, <1>4, NothingAssumption DEF RowsAreLocked, Distinct
<1>7. \A c \in Code : Holds(work'[x][p], c) => c = Choice(x)
  BY <1>2, <1>4 DEF Holds
<1>8. ASSUME NEW y \in Txns, NEW q \in People, y # x \/ q # p
      PROVE  Seen(y, q)' = Seen(y, q) /\ work'[y][q] = work[y][q]
  <2>1. work'[y][q] = work[y][q]
    <3>1. CASE y # x
      BY <1>4, <3>1
    <3>2. CASE y = x
      BY <1>4, <1>8, <3>2
    <3> QED BY <3>1, <3>2
  <2> QED BY <1>3, <2>1 DEF Seen
<1>9. Seen(x, p)' = w
  BY <1>2, <1>4 DEF Seen
<1>10. \A q \in People \ {p} : ~Holds(Seen(x, q), Choice(x))
  BY <1>3 DEF Taken
<1>11. SightIsDistinct'
  <2>1. ASSUME NEW q \in People, NEW r \in People, NEW c \in Code, q # r,
               Holds(Seen(x, q)', c), Holds(Seen(x, r)', c), q = p
        PROVE  FALSE
    <3>1. c = Choice(x)
      BY <1>4, <1>7, <1>9, <2>1
    <3>2. Seen(x, r)' = Seen(x, r)
      BY <1>8, <2>1
    <3>3. Holds(Seen(x, r), Choice(x))
      BY <2>1, <3>1, <3>2
    <3> QED BY <1>10, <2>1, <3>3
  <2>2. ASSUME NEW y \in Txns, NEW q \in People, NEW r \in People, NEW c \in Code,
               Holds(Seen(y, q)', c), Holds(Seen(y, r)', c), q # r
        PROVE  FALSE
    <3>1. CASE y # x \/ (q # p /\ r # p)
      <4>1. Seen(y, q)' = Seen(y, q) /\ Seen(y, r)' = Seen(y, r)
        BY <1>8, <3>1
      <4>2. Holds(Seen(y, q), c) /\ Holds(Seen(y, r), c)
        BY <2>2, <4>1
      <4> QED BY <2>2, <4>2 DEF SightIsDistinct, Distinct
    <3>2. CASE y = x /\ (q = p \/ r = p)
      BY <2>1, <2>2, <3>2
    <3> QED BY <3>1, <3>2
  <2> QED BY <2>2 DEF SightIsDistinct, Holds
<1>12. WorkIsDistinct'
  <2>1. ASSUME NEW z \in Txns, NEW q \in People, q # p PROVE ~Holds(work'[z][q], Choice(x))
    <3>1. CASE z = x
      BY <1>1, <1>4, <1>5, <1>10, <2>1, <3>1 DEF Seen
    <3>2. CASE z # x
      BY <1>1, <1>3, <1>4, <1>5, <3>2 DEF Undecided, Holds
    <3> QED BY <3>1, <3>2
  <2> SUFFICES ASSUME NEW y \in Txns, NEW z \in Txns, NEW q \in People, NEW r \in People, NEW c \in Code,
                      Holds(work'[y][q], c), Holds(work'[z][r], c), q # r
               PROVE  FALSE
    BY DEF WorkIsDistinct, Holds
  <2>2. CASE y = x /\ q = p
    BY <1>7, <2>1, <2>2
  <2>3. CASE z = x /\ r = p
    BY <1>7, <2>1, <2>3
  <2>4. CASE (y # x \/ q # p) /\ (z # x \/ r # p)
    BY <1>8, <2>4 DEF WorkIsDistinct, Distinct
  <2> QED BY <2>2, <2>3, <2>4
<1> QED BY <1>3, <1>6, <1>11, <1>12 DEF Distinct, CodesAreDistinct

\* What nobody committed was seen by nobody else.
LEMMA AbortKeepsDistinct ==
  ASSUME Shape, Distinct, NEW x \in Txns, Abort(x)
  PROVE  Distinct'
<1>1. rows' = rows /\ (\A p \in People : work'[x][p] = Untouched)
      /\ \A y \in Txns \ {x} : work'[y] = work[y]
  BY DEF Abort, Shape, TypeOK
<1>2. \A c \in Code : ~Holds(Untouched, c)
  BY NothingAssumption DEF Holds
<1>3. \A p \in People : Seen(x, p)' = rows[p]
  BY <1>1 DEF Seen
<1>4. \A y \in Txns \ {x}, p \in People : Seen(y, p)' = Seen(y, p)
  BY <1>1 DEF Seen
<1>5. SightIsDistinct'
  BY <1>3, <1>4 DEF SightIsDistinct, CodesAreDistinct, Distinct, Holds
<1>6. RowsAreLocked' /\ WorkIsDistinct'
  BY <1>1, <1>2 DEF RowsAreLocked, WorkIsDistinct, Distinct, Holds
<1> QED BY <1>1, <1>5, <1>6 DEF Distinct, CodesAreDistinct

\* What a request commits, everybody else now sees beside what they have written.
LEMMA CommitKeepsDistinct ==
  ASSUME Shape, Distinct, NEW x \in Txns, Commit(x)
  PROVE  Distinct'
<1>1. (\A p \in People : rows'[p] = Seen(x, p) /\ work'[x][p] = Untouched)
      /\ \A y \in Txns \ {x} : work'[y] = work[y]
  BY DEF Commit, Shape, TypeOK
<1>2. \A c \in Code : ~Holds(Untouched, c)
  BY NothingAssumption DEF Holds
<1>3. RowsAreLocked' /\ WorkIsDistinct'
  BY <1>1, <1>2 DEF RowsAreLocked, WorkIsDistinct, Distinct, Holds
<1>4. CodesAreDistinct'
  BY <1>1 DEF CodesAreDistinct, SightIsDistinct, Distinct, Holds
<1>5. ASSUME NEW y \in Txns \ {x}, NEW p \in People, NEW q \in People, NEW c \in Code,
             work[y][p] # Untouched, Holds(work[y][p], c), work[y][q] = Untouched, Holds(Seen(x, q), c)
      PROVE  p = q
  <2>1. CASE work[x][q] = Untouched
    <3>1. Holds(Seen(y, p), c) /\ Holds(Seen(y, q), c)
      BY <1>5, <2>1 DEF Seen
    <3> QED BY <3>1 DEF SightIsDistinct, Distinct
  <2>2. CASE work[x][q] # Untouched
    <3>1. Holds(work[x][q], c)
      BY <1>5, <2>2 DEF Seen
    <3> QED BY <1>5, <3>1 DEF WorkIsDistinct, Distinct
  <2> QED BY <2>1, <2>2
<1>6. ASSUME NEW y \in Txns, NEW p \in People, NEW q \in People, NEW c \in Code,
             Holds(Seen(y, p)', c), Holds(Seen(y, q)', c)
      PROVE  p = q
  <2>1. CASE y = x
    BY <1>1, <1>6, <2>1 DEF Seen, SightIsDistinct, Distinct
  <2>2. CASE y # x
    <3>1. CASE work[y][p] = Untouched /\ work[y][q] = Untouched
      BY <1>1, <1>6, <2>2, <3>1 DEF Seen, SightIsDistinct, Distinct
    <3>2. CASE work[y][p] # Untouched /\ work[y][q] # Untouched
      BY <1>1, <1>6, <2>2, <3>2 DEF Seen, WorkIsDistinct, Distinct
    <3>3. CASE work[y][p] # Untouched /\ work[y][q] = Untouched
      <4>1. Holds(work[y][p], c) /\ Holds(Seen(x, q), c)
        BY <1>1, <1>6, <2>2, <3>3 DEF Seen
      <4> QED BY <1>5, <2>2, <3>3, <4>1
    <3>4. CASE work[y][p] = Untouched /\ work[y][q] # Untouched
      <4>1. Holds(work[y][q], c) /\ Holds(Seen(x, p), c)
        BY <1>1, <1>6, <2>2, <3>4 DEF Seen
      <4> QED BY <1>5, <2>2, <3>4, <4>1
    <3> QED BY <3>1, <3>2, <3>3, <3>4
  <2> QED BY <2>1, <2>2
<1>7. SightIsDistinct'
  BY <1>6 DEF SightIsDistinct, Holds
<1> QED BY <1>3, <1>4, <1>7 DEF Distinct

\* The other writers touch rows nobody is writing, and give out no code.
LEMMA WritersKeepDistinct ==
  ASSUME Shape, Distinct, NEW S \in SUBSET People, Unlocked(S), work' = work,
         \A p \in People \ S : rows'[p] = rows[p],
         \A p \in S, c \in Code : Holds(rows'[p], c) => Holds(rows[p], c)
  PROVE  Distinct'
<1>1. ASSUME NEW y \in Txns, NEW p \in People, NEW c \in Code, Holds(Seen(y, p)', c)
      PROVE  Holds(Seen(y, p), c)
  BY <1>1 DEF Seen, Unlocked
<1>2. SightIsDistinct'
  BY <1>1 DEF SightIsDistinct, Distinct, Holds
<1>3. CodesAreDistinct'
  BY DEF CodesAreDistinct, Distinct, Holds
<1>4. RowsAreLocked' /\ WorkIsDistinct'
  BY DEF RowsAreLocked, WorkIsDistinct, Distinct, Holds
<1> QED BY <1>2, <1>3, <1>4 DEF Distinct

LEMMA DistinctKept == Shape /\ Distinct /\ [Next]_vars => Distinct'
<1> SUFFICES ASSUME Shape, Distinct, [Next]_vars PROVE Distinct'
  OBVIOUS
<1>1. ASSUME UNCHANGED <<rows, work>> PROVE Distinct'
  BY <1>1 DEF Distinct, RowsAreLocked, SightIsDistinct, WorkIsDistinct, CodesAreDistinct, Holds, Seen
<1>2. ASSUME NEW x \in Txns, UpdateMember(x) \/ InsertMember(x) PROVE Distinct'
  <2> DEFINE p == txn[x].person
  <2>1. txn[x] \in Request /\ p \in People /\ \A q \in People : work[x][q] = Untouched
    BY <1>2, NothingAssumption DEF Shape, TypeOK, Request, UpdateMember, InsertMember, At, Shaped
  <2>2. Unlocked({p})
    BY <1>2, <2>1 DEF UpdateMember, InsertMember, Unlocked, LockedAgainst
  <2>3. CASE InsertMember(x) /\ rows[p] # NoMember
    BY <2>3, AbortKeepsDistinct DEF InsertMember
  <2>4. CASE InsertMember(x) /\ rows[p] = NoMember
    <3>1. work' = [work EXCEPT ![x][p] = [group |-> txn[x].group, code |-> NoCode]] /\ rows' = rows
      BY <2>4 DEF InsertMember
    <3>2. \A c \in Code : ~Holds(work'[x][p], c)
      BY <2>1, <3>1, NothingAssumption DEF Holds, Shape, TypeOK
    <3>3. (\A y \in Txns \ {x} : work'[y] = work[y])
          /\ \A q \in People \ {p} : work'[x][q] = work[x][q]
      BY <2>1, <3>1 DEF Shape, TypeOK
    <3> HIDE DEF p
    <3> QED BY <2>1, <2>2, <3>1, <3>2, <3>3, MovingKeepsDistinct
  <2>5. CASE UpdateMember(x)
    <3>1. work' = [work EXCEPT ![x][p] = [rows[p] EXCEPT !.group = txn[x].group]] /\ rows' = rows
          /\ rows[p] \in Row
      BY <2>1, <2>5 DEF UpdateMember, Shape, TypeOK
    <3>2. \A c \in Code : Holds(work'[x][p], c) => Holds(rows[p], c)
      BY <2>1, <3>1 DEF Holds, Shape, TypeOK, Row
    <3>3. (\A y \in Txns \ {x} : work'[y] = work[y])
          /\ \A q \in People \ {p} : work'[x][q] = work[x][q]
      BY <2>1, <3>1 DEF Shape, TypeOK
    <3> HIDE DEF p
    <3> QED BY <2>1, <2>2, <3>1, <3>2, <3>3, MovingKeepsDistinct
  <2> QED BY <1>2, <2>3, <2>4, <2>5
<1>3. ASSUME NEW x \in Txns, NEW S \in SUBSET People, NEW g \in Groups, BulkUpdate(x, S, g) PROVE Distinct'
  <2>1. work' = [work EXCEPT ![x] = [p \in People |-> IF p \in S THEN [rows[p] EXCEPT !.group = g] ELSE Untouched]]
        /\ rows' = rows /\ Unlocked(S) /\ txn[x] = Idle /\ \A p \in S : rows[p] # NoMember
    BY <1>3 DEF BulkUpdate
  <2>2. (\A y \in Txns \ {x} : work'[y] = work[y])
        /\ \A p \in People \ S : work'[x][p] = work[x][p]
    BY <2>1 DEF Shape, TypeOK, Shaped
  <2>3. ASSUME NEW p \in S, NEW c \in Code, Holds(work'[x][p], c) PROVE Holds(rows[p], c)
    <3>1. work'[x][p] = [rows[p] EXCEPT !.group = g] /\ rows[p] \in Row
      BY <2>1 DEF Shape, TypeOK
    <3> QED BY <2>3, <3>1 DEF Holds, Row
  <2> QED BY <2>1, <2>2, <2>3, MovingKeepsDistinct
<1>4. ASSUME NEW x \in Txns, ChooseSerial(x) \/ Retry(x) \/ \E p \in People : EnsureMemberCode(x, p)
      PROVE  Distinct'
  BY <1>1, <1>4 DEF ChooseSerial, Retry, EnsureMemberCode
<1>5. ASSUME NEW x \in Txns, GiveUp(x) \/ Lose(x) PROVE Distinct'
  BY <1>5, AbortKeepsDistinct DEF GiveUp, Lose
<1>6. ASSUME NEW p \in People, NEW g \in Groups, PatchMember(p, g) PROVE Distinct'
  <2>1. Unlocked({p}) /\ work' = work /\ rows' = [rows EXCEPT ![p].group = g] /\ rows[p] \in Row
    BY <1>6 DEF PatchMember, Shape, TypeOK
  <2>2. rows'[p] = [rows[p] EXCEPT !.group = g] /\ \A q \in People \ {p} : rows'[q] = rows[q]
    BY <2>1 DEF Shape, TypeOK
  <2>3. \A c \in Code : Holds(rows'[p], c) => Holds(rows[p], c)
    BY <2>1, <2>2 DEF Holds, Row
  <2> QED BY <2>1, <2>2, <2>3, WritersKeepDistinct
<1>7. ASSUME NEW S \in SUBSET People, DeleteMembers(S) PROVE Distinct'
  <2>1. Unlocked(S) /\ work' = work /\ (\A p \in S : rows'[p] = NoMember)
        /\ \A p \in People \ S : rows'[p] = rows[p]
    BY <1>7 DEF DeleteMembers
  <2>2. \A c \in Code : ~Holds(NoMember, c)
    BY NothingAssumption DEF Holds
  <2> QED BY <2>1, <2>2, WritersKeepDistinct
<1>8. ASSUME NEW g \in Groups, NEW c \in Cohorts \cup {NoCohort}, EditGroup(g, c) PROVE Distinct'
  BY <1>1, <1>8 DEF EditGroup
<1>9. ASSUME NEW x \in Txns, NEW p \in People, NEW g \in Groups, BeginUpsert(x, p, g) PROVE Distinct'
  BY <1>1, <1>9 DEF BeginUpsert
<1> QED BY <1>1, <1>2, <1>3, <1>4, <1>5, <1>6, <1>7, <1>8, <1>9,
           WriteCodeKeepsDistinct, CommitKeepsDistinct DEF Next, vars

\* Whatever number of requests chooses a serial at once, the code on one roster line
\* never names a second member (members_member_code_key and the savepoint around it).
THEOREM CodesAlwaysDistinct == Spec => []CodesAreDistinct
<1>1. Init => Shape /\ Distinct
  BY ShapeInitially, DistinctInitially
<1>2. Shape /\ Distinct /\ [Next]_vars => (Shape /\ Distinct)'
  BY ShapeKept, DistinctKept
<1>3. Shape /\ Distinct => CodesAreDistinct
  BY DEF Distinct
<1> QED BY <1>1, <1>2, <1>3, PTL DEF Spec

-----------------------------------------------------------------------------
(* Every retry has a rival *)

LEMMA ContestedInitially == Init => ChoicesAreContested
BY DEF Init, ChoicesAreContested, Contested, Coding, At

\* A request whose own state and sight stay as they were stays contested.
LEMMA ContestStands ==
  ASSUME NEW y \in Txns, Contested(y), txn'[y] = txn[y],
         \A q \in People, c \in Code : Holds(Seen(y, q)', c) => Holds(Seen(y, q), c),
         Shaped(y)
  PROVE  Contested(y)'
<1>1. At(y, "coding") => Choice(y) \in Code /\ Choice(y)' = Choice(y)
  BY DEF Shaped, Coding, Choice, Code
<1>2. At(y, "coding") /\ Taken(y, txn[y].person, Choice(y))' => Taken(y, txn[y].person, Choice(y))
  BY <1>1 DEF Taken
<1> QED BY <1>2 DEF Contested, Coding, At

\* The serial chosen is above every one in sight.
LEMMA ChooseKeepsContest ==
  ASSUME Shape, NEW x \in Txns, Contested(x), ChooseSerial(x)
  PROVE  Contested(x)'
<1>1. PICK n \in 1..MaxSerial : NextSerial(x, txn[x].want, n)
                                /\ txn' = [txn EXCEPT ![x] = [txn[x] EXCEPT !.pc = "coding", !.serial = n]]
  BY DEF ChooseSerial
<1>2. txn[x] \in Request /\ At(x, "counting") /\ UNCHANGED <<rows, work>>
  BY NothingAssumption DEF ChooseSerial, Shape, TypeOK, At
<1>3. txn'[x].tries = txn[x].tries /\ txn'[x].rivals = txn[x].rivals /\ txn'[x].person = txn[x].person
      /\ txn'[x].want = txn[x].want /\ txn'[x].serial = n
  BY <1>1, <1>2 DEF Shape, TypeOK, Request
<1>4. Choice(x)' = [cohort |-> txn[x].want, serial |-> n]
  BY <1>3 DEF Choice
<1>5. ~Taken(x, txn[x].person, Choice(x))'
  <2>1. ASSUME NEW q \in People, Holds(Seen(x, q), [cohort |-> txn[x].want, serial |-> n]) PROVE FALSE
    <3>1. n \in SerialsSeen(x, txn[x].want)
      BY <2>1 DEF SerialsSeen
    <3> QED BY <1>1, <3>1 DEF NextSerial
  <2>2. \A q \in People : Seen(x, q)' = Seen(x, q)
    BY <1>2 DEF Seen
  <2> QED BY <1>3, <1>4, <2>1, <2>2 DEF Taken
<1> QED BY <1>2, <1>3, <1>5 DEF Contested, Coding

\* What a commit takes from a request that is choosing is counted for it.
LEMMA CommitKeepsContest ==
  ASSUME Shape, ChoicesAreContested, NEW x \in Txns, Commit(x), NEW y \in Txns
  PROVE  Contested(y)'
<1>1. CASE y = x
  BY <1>1 DEF Commit, Contested, Coding, At
<1>2. CASE y # x /\ ~Coding(y)
  <2>1. ~Coding(y)'
    <3>1. CASE txn[y] = Idle \/ txn'[y] = txn[y]
      BY <1>2, <3>1 DEF Commit, Coding, At
    <3>2. CASE txn[y] # Idle /\ txn'[y] # txn[y]
      <4>1. txn[y] \in Request /\ txn'[y] = [txn[y] EXCEPT !.rivals = @ + 1]
        BY <1>2, <3>2 DEF Commit, Shape, TypeOK
      <4> QED BY <1>2, <3>2, <4>1 DEF Coding, At, Request
    <3> QED BY <3>1, <3>2
  <2> QED BY <2>1 DEF Contested, Coding
<1>3. CASE y # x /\ Coding(y)
  <2>1. txn[y] \in Request /\ txn[y] # Idle /\ Contested(y) /\ Shaped(y)
    BY <1>3 DEF Coding, At, Shape, TypeOK, ChoicesAreContested
  <2>2. txn[y].tries \in Nat /\ txn[y].rivals \in 0..Attempts /\ txn[y].tries < Attempts
        /\ txn[y].tries <= txn[y].rivals
    BY <1>3, <2>1, AttemptsAssumption DEF Request, Contested
  <2>3. txn'[y] = IF Witnessed(x, y) /\ txn[y].rivals < Attempts
                    THEN [txn[y] EXCEPT !.rivals = @ + 1] ELSE txn[y]
    BY <1>3, <2>1 DEF Commit
  <2>4. /\ txn'[y].pc = txn[y].pc /\ txn'[y].tries = txn[y].tries /\ txn'[y].person = txn[y].person
        /\ txn'[y].want = txn[y].want /\ txn'[y].serial = txn[y].serial
        /\ txn'[y].rivals = IF Witnessed(x, y) /\ txn[y].rivals < Attempts
                              THEN txn[y].rivals + 1 ELSE txn[y].rivals
    BY <2>1, <2>3 DEF Request
  <2>5. Choice(y)' = Choice(y)
    BY <2>4 DEF Choice
  <2>6. ASSUME NEW q \in People, At(y, "coding"), Holds(Seen(y, q)', Choice(y)), ~Holds(Seen(y, q), Choice(y))
        PROVE  Witnessed(x, y)
    <3>1. Choice(y) \in Code /\ Choice(y).cohort = txn[y].want
      BY <2>1, <2>6 DEF Shaped, Coding, Choice, Code
    <3>2. work'[y] = work[y] /\ rows'[q] = Seen(x, q)
      BY <1>3 DEF Commit, Shape, TypeOK
    <3>3. work[y][q] = Untouched /\ Holds(Seen(x, q), Choice(y)) /\ ~Holds(rows[q], Choice(y))
      BY <2>6, <3>2 DEF Seen
    <3>4. work[x][q] # Untouched /\ Holds(work[x][q], Choice(y))
      BY <3>3 DEF Seen
    <3>5. work[x][q].code = Choice(y) /\ Choice(y) # NoCode
      BY <3>1, <3>4, NothingAssumption DEF Holds
    <3> QED BY <3>1, <3>3, <3>4, <3>5 DEF Witnessed
  <2>7. ASSUME At(y, "coding"), Taken(y, txn[y].person, Choice(y))' PROVE txn'[y].tries < txn'[y].rivals
    <3>1. PICK q \in People \ {txn[y].person} : Holds(Seen(y, q)', Choice(y))
      BY <2>4, <2>5, <2>7 DEF Taken
    <3>2. CASE Holds(Seen(y, q), Choice(y))
      <4>1. txn[y].tries < txn[y].rivals
        BY <2>1, <2>7, <3>1, <3>2 DEF Taken, Contested
      <4> QED BY <2>2, <2>4, <4>1
    <3>3. CASE ~Holds(Seen(y, q), Choice(y))
      <4>1. Witnessed(x, y)
        BY <2>6, <2>7, <3>1, <3>3
      <4> QED BY <2>2, <2>4, <4>1, AttemptsAssumption
    <3> QED BY <3>2, <3>3
  <2>8. At(y, "coding")' <=> At(y, "coding")
    <3>1. txn'[y] # Idle
      <4>1. [txn[y] EXCEPT !.rivals = @ + 1].pc = txn[y].pc
        BY <2>1 DEF Request
      <4>2. CASE txn[y].rivals < Attempts
        <5>1. txn[y].rivals + 1 \in 0..Attempts
          BY <2>2, <4>2, AttemptsAssumption
        <5>2. [txn[y] EXCEPT !.rivals = @ + 1] \in Request
          BY <2>1, <5>1 DEF Request
        <5> QED BY <2>1, <2>3, <5>2, NothingAssumption
      <4>3. CASE ~(txn[y].rivals < Attempts)
        BY <2>1, <2>3, <4>3
      <4> QED BY <4>2, <4>3
    <3> QED BY <2>1, <2>4, <3>1 DEF At
  <2>9. txn'[y].tries < Attempts /\ txn'[y].tries <= txn'[y].rivals
    BY <2>2, <2>4
  <2> QED BY <2>7, <2>8, <2>9 DEF Contested
<1> QED BY <1>1, <1>2, <1>3

\* Nobody sees a code the other writers would have given out: they give out none.
LEMMA WritersKeepContest ==
  ASSUME Shape, ChoicesAreContested, NEW y \in Txns, work' = work,
         \A p \in People, c \in Code : Holds(rows'[p], c) => Holds(rows[p], c),
         txn'[y] = txn[y] \/ txn'[y] = Idle
  PROVE  Contested(y)'
<1>1. \A q \in People, c \in Code : Holds(Seen(y, q)', c) => Holds(Seen(y, q), c)
  BY DEF Seen
<1>2. CASE txn'[y] = Idle
  BY <1>2 DEF Contested, Coding, At
<1>3. CASE txn'[y] = txn[y]
  BY <1>1, <1>3, ContestStands DEF Shape, ChoicesAreContested
<1> QED BY <1>2, <1>3

\* A request writes for itself: the others see and choose what they did.
LEMMA OthersStayContested ==
  ASSUME Shape, ChoicesAreContested, NEW x \in Txns, rows' = rows,
         \A y \in Txns \ {x} : txn'[y] = txn[y] /\ work'[y] = work[y],
         Contested(x)'
  PROVE  ChoicesAreContested'
<1>1. ASSUME NEW y \in Txns \ {x} PROVE Contested(y)'
  <2>1. \A q \in People : Seen(y, q)' = Seen(y, q)
    BY DEF Seen
  <2> QED BY <2>1, ContestStands DEF Shape, ChoicesAreContested
<1> QED BY <1>1 DEF ChoicesAreContested

LEMMA ContestedKept == Shape /\ ChoicesAreContested /\ [Next]_vars => ChoicesAreContested'
<1> SUFFICES ASSUME Shape, ChoicesAreContested, [Next]_vars PROVE ChoicesAreContested'
  OBVIOUS
<1>1. CASE UNCHANGED vars
  BY <1>1 DEF vars, ChoicesAreContested, Contested, Coding, At, Taken, Choice, Holds, Seen
<1>2. ASSUME NEW x \in Txns, NEW p \in People, NEW g \in Groups, BeginUpsert(x, p, g)
      PROVE  ChoicesAreContested'
  <2>1. ~Coding(x)' /\ rows' = rows /\ work' = work /\ \A y \in Txns \ {x} : txn'[y] = txn[y]
    BY <1>2 DEF BeginUpsert, Begin, Coding, At, Shape, TypeOK
  <2> QED BY <2>1, OthersStayContested DEF Contested, Coding
<1>3. ASSUME NEW x \in Txns, UpdateMember(x) \/ InsertMember(x) PROVE ChoicesAreContested'
  <2>1. txn[x] \in Request
    BY <1>3, NothingAssumption DEF UpdateMember, InsertMember, At, Shape, TypeOK
  <2>2. ~Coding(x)'
    BY <1>3, <2>1 DEF UpdateMember, InsertMember, Abort, Coding, At, Shape, TypeOK, Request
  <2>3. rows' = rows /\ \A y \in Txns \ {x} : txn'[y] = txn[y] /\ work'[y] = work[y]
    BY <1>3 DEF UpdateMember, InsertMember, Abort, Shape, TypeOK
  <2> QED BY <2>2, <2>3, OthersStayContested DEF Contested, Coding
<1>4. ASSUME NEW x \in Txns, NEW S \in SUBSET People, NEW g \in Groups, BulkUpdate(x, S, g)
      PROVE  ChoicesAreContested'
  <2>1. ~Coding(x)' /\ rows' = rows
        /\ \A y \in Txns \ {x} : txn'[y] = txn[y] /\ work'[y] = work[y]
    BY <1>4 DEF BulkUpdate, Begin, Coding, At, Shape, TypeOK
  <2> QED BY <2>1, OthersStayContested DEF Contested, Coding
<1>5. ASSUME NEW x \in Txns, NEW p \in People, EnsureMemberCode(x, p) PROVE ChoicesAreContested'
  <2>1. txn[x] \in Request /\ txn[x].pc = "ensuring" /\ rows' = rows /\ work' = work
        /\ \A y \in Txns \ {x} : txn'[y] = txn[y]
    BY <1>5, NothingAssumption DEF EnsureMemberCode, At, Shape, TypeOK
  <2>2. txn'[x].pc = "ensuring" \/ (txn'[x].pc = "counting" /\ txn'[x].tries = 0 /\ txn'[x].rivals = 0)
    BY <1>5, <2>1 DEF EnsureMemberCode, Shape, TypeOK, Request
  <2>3. Contested(x)'
    BY <2>2, AttemptsAssumption DEF Contested, Coding, At
  <2> QED BY <2>1, <2>3, OthersStayContested
<1>6. ASSUME NEW x \in Txns, ChooseSerial(x) PROVE ChoicesAreContested'
  <2>1. rows' = rows /\ work' = work /\ \A y \in Txns \ {x} : txn'[y] = txn[y]
    BY <1>6 DEF ChooseSerial
  <2>2. Contested(x)'
    BY <1>6, ChooseKeepsContest DEF ChoicesAreContested
  <2> QED BY <2>1, <2>2, OthersStayContested
<1>7. ASSUME NEW x \in Txns, Retry(x) PROVE ChoicesAreContested'
  <2>1. txn[x] \in Request /\ rows' = rows /\ work' = work /\ \A y \in Txns \ {x} : txn'[y] = txn[y]
    BY <1>7, NothingAssumption DEF Retry, At, Shape, TypeOK
  <2>2. txn'[x].pc = "counting" /\ txn'[x].tries = txn[x].tries + 1 /\ txn'[x].rivals = txn[x].rivals
    BY <1>7, <2>1 DEF Retry, Shape, TypeOK, Request
  <2>3. txn[x].tries < txn[x].rivals /\ txn[x].tries + 1 < Attempts
    BY <1>7 DEF Retry, ChoicesAreContested, Contested
  <2>4. Contested(x)'
    BY <2>1, <2>2, <2>3, AttemptsAssumption DEF Contested, Coding, At, Request
  <2> QED BY <2>1, <2>4, OthersStayContested
<1>8. ASSUME NEW x \in Txns, WriteCode(x) PROVE ChoicesAreContested'
  <2>1. txn[x] \in Request /\ rows' = rows /\ \A y \in Txns \ {x} : txn'[y] = txn[y] /\ work'[y] = work[y]
    BY <1>8, NothingAssumption DEF WriteCode, At, Shape, TypeOK
  <2>2. txn'[x].pc = "ensuring"
    BY <1>8, <2>1 DEF WriteCode, Shape, TypeOK, Request
  <2> QED BY <2>1, <2>2, OthersStayContested DEF Contested, Coding, At
<1>9. ASSUME NEW x \in Txns, GiveUp(x) \/ Lose(x) PROVE ChoicesAreContested'
  <2>1. ~Coding(x)' /\ rows' = rows /\ \A y \in Txns \ {x} : txn'[y] = txn[y] /\ work'[y] = work[y]
    BY <1>9 DEF GiveUp, Lose, Abort, Coding, At, Shape, TypeOK
  <2> QED BY <2>1, OthersStayContested DEF Contested, Coding
<1>10. ASSUME NEW x \in Txns, Commit(x) PROVE ChoicesAreContested'
  BY <1>10, CommitKeepsContest DEF ChoicesAreContested
<1>11. ASSUME NEW p \in People, NEW g \in Groups, PatchMember(p, g) PROVE ChoicesAreContested'
  <2>1. txn' = txn /\ work' = work /\ rows[p] \in Row /\ rows'[p] = [rows[p] EXCEPT !.group = g]
        /\ \A q \in People \ {p} : rows'[q] = rows[q]
    BY <1>11 DEF PatchMember, Shape, TypeOK
  <2>2. \A q \in People, c \in Code : Holds(rows'[q], c) => Holds(rows[q], c)
    BY <2>1 DEF Holds, Row
  <2> QED BY <2>1, <2>2, WritersKeepContest DEF ChoicesAreContested
<1>12. ASSUME NEW S \in SUBSET People, DeleteMembers(S) PROVE ChoicesAreContested'
  <2>1. work' = work /\ \A y \in Txns : txn'[y] = txn[y] \/ txn'[y] = Idle
    BY <1>12 DEF DeleteMembers
  <2>2. \A q \in People, c \in Code : Holds(rows'[q], c) => Holds(rows[q], c)
    BY <1>12, NothingAssumption DEF DeleteMembers, Holds
  <2> QED BY <2>1, <2>2, WritersKeepContest DEF ChoicesAreContested
<1>13. ASSUME NEW g \in Groups, NEW c \in Cohorts \cup {NoCohort}, EditGroup(g, c) PROVE ChoicesAreContested'
  BY <1>13 DEF EditGroup, ChoicesAreContested, Contested, Coding, At, Taken, Choice, Holds, Seen
<1> QED BY <1>1, <1>2, <1>3, <1>4, <1>5, <1>6, <1>7, <1>8, <1>9, <1>10, <1>11, <1>12, <1>13 DEF Next

\* A creation fails for want of a code only after as many others got theirs as it
\* made attempts (the five of ensureMemberCode).
THEOREM EveryRetryHasARivalAlways == Spec => []EveryRetryHasARival
<1>1. Init => Shape /\ ChoicesAreContested
  BY ShapeInitially, ContestedInitially
<1>2. Shape /\ ChoicesAreContested /\ [Next]_vars => (Shape /\ ChoicesAreContested)'
  BY ShapeKept, ContestedKept
<1>3. ChoicesAreContested => EveryRetryHasARival
  BY DEF ChoicesAreContested, Contested, Coding, EveryRetryHasARival
<1> QED BY <1>1, <1>2, <1>3, PTL DEF Spec

-----------------------------------------------------------------------------
(* Codes follow cohorts *)

LEMMA FollowingInitially == Init => Following
BY NothingAssumption DEF Init, Following, Follows, CodeFollowsCohort, Coding, At

\* A request writes for itself: what the others wrote names what it named.
LEMMA OthersKeepFollowing ==
  ASSUME Shape, Following, NEW x \in Txns, UNCHANGED <<cohort, rows, patched, edited>>,
         \A y \in Txns \ {x} : txn'[y] = txn[y] /\ work'[y] = work[y],
         Follows(x)'
  PROVE  Following'
<1>1. ASSUME NEW y \in Txns \ {x} PROVE Follows(y)'
  BY DEF Following, Follows, Named, Coding, At
<1>2. CodeFollowsCohort'
  BY DEF Following, CodeFollowsCohort
<1> QED BY <1>1, <1>2 DEF Following

\* A request that has nothing written has nothing to name.
LEMMA NothingWrittenFollows ==
  ASSUME NEW x \in Txns, \A p \in People : work'[x][p] = Untouched, ~Coding(x)'
  PROVE  Follows(x)'
BY DEF Follows, Coding, At

\* A request that still has to look at all it has written names nothing yet.
LEMMA NothingLookedAtFollows ==
  ASSUME NEW x \in Txns, ~Coding(x)', txn'[x] # Idle,
         \A p \in People : work'[x][p] # Untouched => p \in txn'[x].todo
  PROVE  Follows(x)'
BY DEF Follows, Coding, At

\* Looking at a member names it, or asks for the code of its cohort.
LEMMA EnsureFollows ==
  ASSUME Shape, Following, NEW x \in Txns, NEW p \in People, EnsureMemberCode(x, p)
  PROVE  Follows(x)'
<1> DEFINE c == cohort[work[x][p].group]
<1>1. txn[x] \in Request /\ txn[x] # Idle /\ txn[x].pc = "ensuring" /\ p \in txn[x].todo
      /\ UNCHANGED <<cohort, rows, work, patched, edited>> /\ Follows(x) /\ Shaped(x)
  BY NothingAssumption DEF EnsureMemberCode, At, Shape, TypeOK, Following
<1>2. CASE ReissueNeeded(work[x][p].code, c)
  <2>1. /\ txn'[x].pc = "counting" /\ txn'[x].person = p /\ txn'[x].want = c /\ txn'[x].todo = txn[x].todo
        /\ txn'[x] \in Request
    <3>1. txn' = [txn EXCEPT ![x] = [txn[x] EXCEPT !.pc = "counting", !.person = p, !.want = c,
                                                   !.tries = 0, !.rivals = 0]]
      BY <1>2 DEF EnsureMemberCode
    <3>2. txn' \in [Txns -> Request \cup {Idle}]
      BY LookingKeepsShape DEF Shape, TypeOK
    <3>3. txn'[x] = [txn[x] EXCEPT !.pc = "counting", !.person = p, !.want = c, !.tries = 0, !.rivals = 0]
      BY <3>1 DEF Shape, TypeOK
    <3>4. txn'[x].pc = "counting" /\ txn'[x].person = p /\ txn'[x].want = c /\ txn'[x].todo = txn[x].todo
      BY <1>1, <3>3 DEF Request
    <3>5. txn'[x] # Idle
      <4>1. 0 \in 0..Attempts
        BY AttemptsAssumption
      <4>2. work[x][p] \in Row
        BY <1>1 DEF Shaped, Shape, TypeOK
      <4>3. c \in Cohorts \cup {NoCohort}
        BY <4>2 DEF Row, Shape, TypeOK
      <4> HIDE DEF c
      <4>4. [txn[x] EXCEPT !.pc = "counting", !.person = p, !.want = c, !.tries = 0, !.rivals = 0] \in Request
        BY <1>1, <4>1, <4>3 DEF Request, Steps
      <4> QED BY <3>3, <4>4, NothingAssumption
    <3> QED BY <3>2, <3>4, <3>5
  <2>2. work'[x][txn'[x].person].group = work[x][p].group
    BY <1>1, <2>1
  <2>3. txn'[x].want = cohort'[work'[x][txn'[x].person].group]
    BY <1>1, <2>1, <2>2
  <2>4. txn'[x] # Idle
    BY <2>1, NothingAssumption
  <2> QED BY <1>1, <2>1, <2>3, <2>4 DEF Follows, Named
<1>3. CASE ~ReissueNeeded(work[x][p].code, c)
  <2>1. txn' = [txn EXCEPT ![x] = [txn[x] EXCEPT !.todo = @ \ {p}]]
    BY <1>3 DEF EnsureMemberCode
  <2>2. txn'[x] = [txn[x] EXCEPT !.todo = @ \ {p}]
    BY <2>1 DEF Shape, TypeOK
  <2>3. txn'[x].pc = "ensuring" /\ txn'[x].todo = txn[x].todo \ {p} /\ txn'[x] \in Request
    BY <1>1, <2>2 DEF Request
  <2>4. Named(work[x][p])
    BY <1>3 DEF Named, ReissueNeeded
  <2>5. ~Coding(x)' /\ txn'[x] # Idle
    BY <2>3, NothingAssumption DEF Coding, At
  <2>6. ASSUME NEW q \in People, work'[x][q] # Untouched
        PROVE  q \in txn'[x].todo \/ Named(work[x][q])
    BY <1>1, <2>3, <2>4, <2>6 DEF Follows
  <2> QED BY <1>1, <2>5, <2>6 DEF Follows, Named
<1> QED BY <1>2, <1>3

\* The code written is of the cohort that was asked for.
LEMMA WriteCodeFollows ==
  ASSUME Shape, Following, NEW x \in Txns, WriteCode(x)
  PROVE  Follows(x)'
<1>1. PICK p \in People : p = txn[x].person /\ work[x][p] \in Row
  BY WriteCodeKeepsShape
<1>2. Choice(x) \in Code /\ Choice(x).cohort = txn[x].want
  BY WriteCodeKeepsShape DEF Choice
<1>3. txn[x] \in Request /\ Coding(x) /\ Follows(x) /\ UNCHANGED <<cohort, rows, patched, edited>>
  BY NothingAssumption DEF WriteCode, At, Coding, Shape, TypeOK, Following
<1>4. txn'[x] = [txn[x] EXCEPT !.pc = "ensuring", !.todo = @ \ {p}, !.want = NoCohort,
                               !.serial = 0, !.tries = 0, !.rivals = 0]
  BY <1>1 DEF WriteCode, Shape, TypeOK
<1>5. txn'[x].pc = "ensuring" /\ txn'[x].todo = txn[x].todo \ {p}
  BY <1>3, <1>4 DEF Request
<1>6. txn'[x] # Idle
  <2>1. 0 \in 0..Attempts /\ 0 \in 0..MaxSerial
    BY AttemptsAssumption
  <2>2. [txn[x] EXCEPT !.pc = "ensuring", !.todo = @ \ {p}, !.want = NoCohort,
                       !.serial = 0, !.tries = 0, !.rivals = 0] \in Request
    BY <1>3, <2>1 DEF Request, Steps
  <2> QED BY <1>4, <2>2, NothingAssumption
<1>7. work'[x][p] = [work[x][p] EXCEPT !.code = Choice(x)]
      /\ \A q \in People \ {p} : work'[x][q] = work[x][q]
  BY <1>1 DEF WriteCode, Shape, TypeOK
<1>8. Named(work'[x][p])
  <2>1. work'[x][p].group = work[x][p].group /\ work'[x][p].code = Choice(x)
    BY <1>1, <1>7 DEF Row
  <2>2. work[x][p].group \in edited \/ txn[x].want = cohort[work[x][p].group]
    BY <1>1, <1>3 DEF Follows
  <2> QED BY <1>2, <2>1, <2>2, NothingAssumption DEF Named
<1>9. ASSUME NEW q \in People, work'[x][q] # Untouched
      PROVE  q \in txn'[x].todo \/ Named(work'[x][q])
  BY <1>3, <1>5, <1>7, <1>8, <1>9 DEF Follows
<1> QED BY <1>3, <1>5, <1>6, <1>9 DEF Follows, Named, Coding, At

\* What is committed was looked at to the last row.
LEMMA CommitKeepsFollowing ==
  ASSUME Shape, Following, NEW x \in Txns, Commit(x)
  PROVE  Following'
<1>1. /\ \A p \in People : rows'[p] = Seen(x, p) /\ work'[x][p] = Untouched
      /\ \A y \in Txns \ {x} : work'[y] = work[y]
      /\ patched' = {p \in patched : work[x][p] = Untouched}
      /\ cohort' = cohort /\ edited' = edited /\ txn[x].todo = {}
  BY DEF Commit, Shape, TypeOK
<1>2. ASSUME NEW p \in People \ patched', rows'[p] \in Row PROVE Named(rows'[p])
  <2>1. CASE work[x][p] # Untouched
    BY <1>1, <2>1 DEF Seen, Following, Follows
  <2>2. CASE work[x][p] = Untouched
    BY <1>1, <1>2, <2>2 DEF Seen, Following, CodeFollowsCohort, Named
  <2> QED BY <2>1, <2>2
<1>3. CodeFollowsCohort'
  BY <1>1, <1>2 DEF CodeFollowsCohort, Named
<1>4. ASSUME NEW y \in Txns PROVE Follows(y)'
  <2>1. CASE y = x
    <3>1. ~Coding(y)'
      BY <2>1 DEF Commit, Coding, At, Shape, TypeOK
    <3> QED BY <1>1, <2>1, <3>1 DEF Follows
  <2>2. CASE y # x
    <3>1. CASE txn'[y] = txn[y]
      BY <1>1, <2>2, <3>1 DEF Following, Follows, Named, Coding, At
    <3>2. CASE txn'[y] # txn[y]
      <4>1. txn[y] \in Request /\ txn[y] # Idle /\ txn'[y] = [txn[y] EXCEPT !.rivals = @ + 1]
        BY <2>2, <3>2, NothingAssumption DEF Commit, Shape, TypeOK
      <4>2. /\ txn'[y].pc = txn[y].pc /\ txn'[y].person = txn[y].person
            /\ txn'[y].want = txn[y].want /\ txn'[y].todo = txn[y].todo
        BY <4>1 DEF Request
      <4>3. txn'[y] # Idle
        <5>1. txn[y].rivals < Attempts
          BY <2>2, <3>2 DEF Commit
        <5>2. txn[y].rivals + 1 \in 0..Attempts
          BY <4>1, <5>1, AttemptsAssumption DEF Request
        <5>3. [txn[y] EXCEPT !.rivals = @ + 1] \in Request
          BY <4>1, <5>2 DEF Request
        <5> QED BY <4>1, <5>3, NothingAssumption
      <4> QED BY <1>1, <2>2, <4>1, <4>2, <4>3 DEF Following, Follows, Named, Coding, At
    <3> QED BY <3>1, <3>2
  <2> QED BY <2>1, <2>2
<1> QED BY <1>3, <1>4 DEF Following

\* A group that is edited is one the rule no longer speaks of.
LEMMA EditKeepsFollowing ==
  ASSUME Shape, Following, NEW g \in Groups, NEW c \in Cohorts \cup {NoCohort}, EditGroup(g, c)
  PROVE  Following'
<1>1. /\ cohort' = [cohort EXCEPT ![g] = c] /\ edited' = edited \cup {g}
      /\ UNCHANGED <<rows, work, txn, patched>>
  BY DEF EditGroup
<1>2. ASSUME NEW r \in Row PROVE /\ Named(r) => Named(r)'
                                 /\ r.group \notin edited' => cohort'[r.group] = cohort[r.group]
  <2>1. r.group \in Groups
    BY DEF Row
  <2>2. r.group \notin edited' => cohort'[r.group] = cohort[r.group] /\ r.group \notin edited
    BY <1>1, <2>1 DEF Shape, TypeOK
  <2> QED BY <2>2 DEF Named
<1>3. CodeFollowsCohort'
  BY <1>1, <1>2 DEF Following, CodeFollowsCohort, Named
<1>4. ASSUME NEW y \in Txns PROVE Follows(y)'
  <2>1. Follows(y) /\ Shaped(y)
    BY DEF Following, Shape
  <2>2. ASSUME NEW p \in People, work[y][p] # Untouched, Named(work[y][p])
        PROVE  Named(work[y][p])'
    <3>1. work[y][p] \in Row
      BY <2>2 DEF Shape, TypeOK
    <3> QED BY <1>1, <1>2, <2>2, <3>1 DEF Named
  <2>3. ASSUME Coding(y)
        PROVE  \/ work[y][txn[y].person].group \in edited'
               \/ txn[y].want = cohort'[work[y][txn[y].person].group]
    <3>1. txn[y] \in Request
      BY <2>3, NothingAssumption DEF Coding, At, Shape, TypeOK
    <3>2. work[y][txn[y].person] \in Row
      BY <2>1, <2>3, <3>1 DEF Shaped, Coding, At, Shape, TypeOK, Request
    <3> QED BY <1>1, <1>2, <2>1, <2>3, <3>2 DEF Follows
  <2> QED BY <1>1, <2>1, <2>2, <2>3 DEF Follows, Coding, At
<1> QED BY <1>3, <1>4 DEF Following

LEMMA FollowingKept == Shape /\ Following /\ [Next]_vars => Following'
<1> SUFFICES ASSUME Shape, Following, [Next]_vars PROVE Following'
  OBVIOUS
<1>1. CASE UNCHANGED vars
  BY <1>1 DEF vars, Following, Follows, Named, Coding, At, CodeFollowsCohort
<1>2. ASSUME NEW x \in Txns, NEW p \in People, NEW g \in Groups, BeginUpsert(x, p, g) PROVE Following'
  <2>1. /\ ~Coding(x)' /\ UNCHANGED <<cohort, rows, work, patched, edited>>
        /\ \A y \in Txns \ {x} : txn'[y] = txn[y]
    BY <1>2 DEF BeginUpsert, Begin, Coding, At, Shape, TypeOK
  <2>2. \A q \in People : work'[x][q] = Untouched
    BY <1>2, <2>1 DEF BeginUpsert, Shape, Shaped
  <2> QED BY <2>1, <2>2, NothingWrittenFollows, OthersKeepFollowing
<1>3. ASSUME NEW x \in Txns, UpdateMember(x) \/ InsertMember(x) PROVE Following'
  <2>1. /\ txn[x] \in Request /\ \A q \in People : work[x][q] = Untouched
    BY <1>3, NothingAssumption DEF UpdateMember, InsertMember, At, Shape, TypeOK, Shaped
  <2>2. /\ UNCHANGED <<cohort, rows, patched, edited>>
        /\ \A y \in Txns \ {x} : txn'[y] = txn[y] /\ work'[y] = work[y]
    BY <1>3 DEF UpdateMember, InsertMember, Abort, Shape, TypeOK
  <2>3. CASE InsertMember(x) /\ rows[txn[x].person] # NoMember
    <3>1. ~Coding(x)' /\ \A q \in People : work'[x][q] = Untouched
      BY <2>3 DEF InsertMember, Abort, Coding, At, Shape, TypeOK
    <3> QED BY <2>2, <3>1, NothingWrittenFollows, OthersKeepFollowing
  <2>4. CASE UpdateMember(x) \/ (InsertMember(x) /\ rows[txn[x].person] = NoMember)
    <3>1. txn'[x] = [txn[x] EXCEPT !.pc = "ensuring", !.todo = {txn[x].person}]
      BY <2>4 DEF UpdateMember, InsertMember, Shape, TypeOK
    <3>2. txn'[x].pc = "ensuring" /\ txn'[x].todo = {txn[x].person}
      BY <2>1, <3>1 DEF Request
    <3>3. txn'[x] # Idle
      <4>1. [txn[x] EXCEPT !.pc = "ensuring", !.todo = {txn[x].person}] \in Request
        BY <2>1 DEF Request, Steps
      <4> QED BY <3>1, <4>1, NothingAssumption
    <3>4. \A q \in People \ {txn[x].person} : work'[x][q] = work[x][q]
      BY <2>4 DEF UpdateMember, InsertMember, Shape, TypeOK
    <3>5. ~Coding(x)'
      BY <3>2 DEF Coding, At
    <3> QED BY <2>1, <2>2, <3>2, <3>3, <3>4, <3>5, NothingLookedAtFollows, OthersKeepFollowing
  <2> QED BY <1>3, <2>3, <2>4
<1>4. ASSUME NEW x \in Txns, NEW S \in SUBSET People, NEW g \in Groups, BulkUpdate(x, S, g) PROVE Following'
  <2>1. /\ UNCHANGED <<cohort, rows, patched, edited>>
        /\ \A y \in Txns \ {x} : txn'[y] = txn[y] /\ work'[y] = work[y]
        /\ \A q \in People \ S : work'[x][q] = Untouched
    BY <1>4 DEF BulkUpdate, Begin, Shape, TypeOK
  <2>2. txn'[x].pc = "ensuring" /\ txn'[x].todo = S
    BY <1>4 DEF BulkUpdate, Begin, Shape, TypeOK
  <2>3. txn'[x] # Idle
    <3>1. PICK p \in S : txn'[x] = [pc |-> "ensuring", person |-> p, group |-> g, todo |-> S,
                                    want |-> NoCohort, serial |-> 0, tries |-> 0, rivals |-> 0]
      BY <1>4 DEF BulkUpdate, Begin, Shape, TypeOK
    <3>2. [pc |-> "ensuring", person |-> p, group |-> g, todo |-> S, want |-> NoCohort,
           serial |-> 0, tries |-> 0, rivals |-> 0] \in Request
      BY AttemptsAssumption DEF Request, Steps
    <3> QED BY <3>1, <3>2, NothingAssumption
  <2>4. ~Coding(x)'
    BY <2>2 DEF Coding, At
  <2> QED BY <2>1, <2>2, <2>3, <2>4, NothingLookedAtFollows, OthersKeepFollowing
<1>5. ASSUME NEW x \in Txns, NEW p \in People, EnsureMemberCode(x, p) PROVE Following'
  <2>1. UNCHANGED <<cohort, rows, work, patched, edited>> /\ \A y \in Txns \ {x} : txn'[y] = txn[y]
    BY <1>5 DEF EnsureMemberCode, Shape, TypeOK
  <2> QED BY <1>5, <2>1, EnsureFollows, OthersKeepFollowing
<1>6. ASSUME NEW x \in Txns, ChooseSerial(x) \/ Retry(x) PROVE Following'
  <2>1. /\ UNCHANGED <<cohort, rows, work, patched, edited>> /\ (\A y \in Txns \ {x} : txn'[y] = txn[y])
        /\ Coding(x) /\ txn[x] \in Request /\ Follows(x) /\ txn[x] # Idle
    BY <1>6, NothingAssumption DEF ChooseSerial, Retry, Coding, At, Shape, TypeOK, Following
  <2>2. /\ txn'[x].person = txn[x].person /\ txn'[x].want = txn[x].want /\ txn'[x].todo = txn[x].todo
    <3>1. CASE ChooseSerial(x)
      BY <2>1, <3>1 DEF ChooseSerial, Shape, TypeOK, Request
    <3>2. CASE Retry(x)
      BY <2>1, <3>2 DEF Retry, Shape, TypeOK, Request
    <3> QED BY <1>6, <3>1, <3>2
  <2>3. txn'[x] # Idle
    <3>1. Coding(x)'
      <4>1. Shape'
        BY <1>6, LookingKeepsShape
      <4>2. txn[x].person \in txn[x].todo /\ work[x][txn[x].person] # Untouched
        BY <2>1 DEF Shape, Shaped
      <4>3. txn[x].person \in People
        BY <2>1 DEF Request
      <4>4. txn'[x] = Idle => work'[x][txn[x].person] = Untouched
        BY <4>1, <4>3 DEF Shape, Shaped
      <4>5. txn'[x] # Idle
        BY <2>1, <4>2, <4>4
      <4>6. txn'[x].pc \in {"coding", "counting"}
        <5>1. CASE ChooseSerial(x)
          BY <2>1, <5>1 DEF ChooseSerial, Shape, TypeOK, Request
        <5>2. CASE Retry(x)
          BY <2>1, <5>2 DEF Retry, Shape, TypeOK, Request
        <5> QED BY <1>6, <5>1, <5>2
      <4> QED BY <4>5, <4>6 DEF Coding, At
    <3> QED BY <3>1 DEF Coding, At
  <2>4. Follows(x)'
    BY <2>1, <2>2, <2>3 DEF Follows, Named
  <2> QED BY <2>1, <2>4, OthersKeepFollowing
<1>7. ASSUME NEW x \in Txns, WriteCode(x) PROVE Following'
  <2>1. /\ UNCHANGED <<cohort, rows, patched, edited>>
        /\ \A y \in Txns \ {x} : txn'[y] = txn[y] /\ work'[y] = work[y]
    BY <1>7 DEF WriteCode, Shape, TypeOK
  <2> QED BY <1>7, <2>1, WriteCodeFollows, OthersKeepFollowing
<1>8. ASSUME NEW x \in Txns, GiveUp(x) \/ Lose(x) PROVE Following'
  <2>1. /\ UNCHANGED <<cohort, rows, patched, edited>> /\ ~Coding(x)'
        /\ (\A y \in Txns \ {x} : txn'[y] = txn[y] /\ work'[y] = work[y])
        /\ \A q \in People : work'[x][q] = Untouched
    BY <1>8 DEF GiveUp, Lose, Abort, Coding, At, Shape, TypeOK
  <2> QED BY <2>1, NothingWrittenFollows, OthersKeepFollowing
<1>9. ASSUME NEW p \in People, NEW g \in Groups, PatchMember(p, g) PROVE Following'
  <2>1. /\ UNCHANGED <<cohort, work, txn, edited>> /\ patched' = patched \cup {p}
        /\ \A q \in People \ {p} : rows'[q] = rows[q]
    BY <1>9 DEF PatchMember
  <2>2. CodeFollowsCohort'
    BY <2>1 DEF Following, CodeFollowsCohort
  <2> QED BY <2>1, <2>2 DEF Following, Follows, Named, Coding, At
<1>10. ASSUME NEW S \in SUBSET People, DeleteMembers(S) PROVE Following'
  <2>1. /\ UNCHANGED <<cohort, work, edited>> /\ patched' = patched \ S
        /\ \A q \in People : rows'[q] = IF q \in S THEN NoMember ELSE rows[q]
    BY <1>10 DEF DeleteMembers
  <2>2. CodeFollowsCohort'
    BY <2>1, NothingAssumption DEF Following, CodeFollowsCohort
  <2>3. ASSUME NEW y \in Txns PROVE Follows(y)'
    <3>1. CASE txn'[y] = txn[y]
      BY <2>1, <3>1 DEF Following, Follows, Named, Coding, At
    <3>2. CASE txn'[y] # txn[y]
      <4>1. At(y, "updating") /\ txn'[y] = Idle
        BY <1>10, <3>2 DEF DeleteMembers
      <4>2. \A q \in People : work'[y][q] = Untouched
        BY <2>1, <4>1 DEF Shape, Shaped
      <4>3. ~Coding(y)'
        BY <4>1 DEF Coding, At
      <4> QED BY <4>2, <4>3, NothingWrittenFollows
    <3> QED BY <3>1, <3>2
  <2> QED BY <2>2, <2>3 DEF Following
<1> QED BY <1>1, <1>2, <1>3, <1>4, <1>5, <1>6, <1>7, <1>8, <1>9, <1>10,
           CommitKeepsFollowing, EditKeepsFollowing DEF Next

\* A member's code names the year and institution their group stands for, whichever of
\* the requests that issue codes wrote the group last.
THEOREM CodeFollowsCohortAlways == Spec => []CodeFollowsCohort
<1>1. Init => Shape /\ Following
  BY ShapeInitially, FollowingInitially
<1>2. Shape /\ Following /\ [Next]_vars => (Shape /\ Following)'
  BY ShapeKept, FollowingKept
<1>3. Following => CodeFollowsCohort
  BY DEF Following
<1> QED BY <1>1, <1>2, <1>3, PTL DEF Spec

-----------------------------------------------------------------------------
(* The code on the rosters stays *)

\* A code that is on a roster is rewritten only by one of another cohort, once: a
\* request that still has to look at a member has left the code as it is, and one
\* that looks for a code has found none or one of another cohort.
Standing(x) ==
  /\ \A p \in People :
       work[x][p] # Untouched /\ rows[p] \in Row /\ rows[p].code # NoCode
       => \/ work[x][p].code = rows[p].code
          \/ work[x][p].code # NoCode /\ work[x][p].code.cohort # rows[p].code.cohort
  /\ txn[x] # Idle => \A p \in txn[x].todo : rows[p] \in Row => work[x][p].code = rows[p].code
  /\ Coding(x) => \/ work[x][txn[x].person].code = NoCode
                  \/ work[x][txn[x].person].code.cohort # txn[x].want

CodesStand == \A x \in Txns : Standing(x)

LEMMA StandingInitially == Init => CodesStand
BY NothingAssumption DEF Init, CodesStand, Standing, Coding, At

\* A request that writes nothing a row was without leaves the codes of the others.
LEMMA OthersKeepStanding ==
  ASSUME CodesStand, NEW x \in Txns, rows' = rows,
         \A y \in Txns \ {x} : txn'[y] = txn[y] /\ work'[y] = work[y],
         Standing(x)'
  PROVE  CodesStand'
<1>1. ASSUME NEW y \in Txns \ {x} PROVE Standing(y)'
  BY DEF CodesStand, Standing, Coding, At
<1> QED BY <1>1 DEF CodesStand

\* Writing groups and leaving the codes, or ending.
LEMMA MovingKeepsStanding ==
  ASSUME CodesStand, NEW x \in Txns, rows' = rows, ~Coding(x)',
         \A y \in Txns \ {x} : txn'[y] = txn[y] /\ work'[y] = work[y],
         \A p \in People : work'[x][p] # Untouched /\ rows[p] \in Row => work'[x][p].code = rows[p].code,
         txn'[x] # Idle => \A p \in txn'[x].todo : p \in People /\ work'[x][p] # Untouched
  PROVE  CodesStand'
<1>1. Standing(x)'
  BY DEF Standing, Coding, At
<1> QED BY <1>1, OthersKeepStanding

\* An ended request has written nothing.
LEMMA AbortKeepsStanding ==
  ASSUME Shape, CodesStand, NEW x \in Txns, Abort(x)
  PROVE  CodesStand'
<1>1. /\ txn'[x] = Idle /\ rows' = rows /\ \A p \in People : work'[x][p] = Untouched
      /\ \A y \in Txns \ {x} : txn'[y] = txn[y] /\ work'[y] = work[y]
  BY DEF Abort, Shape, TypeOK
<1> QED BY <1>1, MovingKeepsStanding DEF Coding, At

\* Looking at a code, choosing a serial and writing the code of the cohort wanted.
LEMMA CodingKeepsStanding ==
  ASSUME Shape, CodesStand, NEW x \in Txns,
         ChooseSerial(x) \/ Retry(x) \/ WriteCode(x) \/ \E p \in People : EnsureMemberCode(x, p)
  PROVE  CodesStand'
<1>1. txn[x] \in Request /\ txn[x] # Idle /\ Shaped(x) /\ Standing(x) /\ rows' = rows
  BY NothingAssumption DEF ChooseSerial, Retry, WriteCode, EnsureMemberCode, At, Shape, TypeOK, CodesStand
<1>2. txn[x].todo \subseteq People /\ \A p \in txn[x].todo : work[x][p] \in Row
  BY <1>1 DEF Request, Shape, TypeOK, Shaped
<1>3. CASE ChooseSerial(x) \/ Retry(x)
  <2>1. PICK r \in Request : /\ txn' = [txn EXCEPT ![x] = r] /\ r.pc \in {"counting", "coding"}
                             /\ r.todo = txn[x].todo /\ r.person = txn[x].person /\ r.want = txn[x].want
    <3>1. CASE ChooseSerial(x)
      <4>1. PICK n \in 1..MaxSerial : txn' = [txn EXCEPT ![x] = [txn[x] EXCEPT !.pc = "coding", !.serial = n]]
        BY <3>1 DEF ChooseSerial
      <4>2. n \in 0..MaxSerial
        BY AttemptsAssumption
      <4>3. [txn[x] EXCEPT !.pc = "coding", !.serial = n] \in Request
        BY <1>1, <4>2 DEF Request, Steps
      <4> QED BY <1>1, <4>1, <4>3 DEF Request
    <3>2. CASE Retry(x)
      <4>1. txn' = [txn EXCEPT ![x] = [txn[x] EXCEPT !.pc = "counting", !.tries = txn[x].tries + 1]]
            /\ txn[x].tries + 1 < Attempts
        BY <3>2 DEF Retry
      <4>2. txn[x].tries + 1 \in 0..Attempts
        BY <1>1, <4>1, AttemptsAssumption DEF Request
      <4>3. [txn[x] EXCEPT !.pc = "counting", !.tries = txn[x].tries + 1] \in Request
        BY <1>1, <4>2 DEF Request, Steps
      <4> QED BY <1>1, <4>1, <4>3 DEF Request
    <3> QED BY <1>3, <3>1, <3>2
  <2>2. Coding(x) /\ work' = work
    BY <1>3 DEF ChooseSerial, Retry, Coding
  <2>3. txn'[x] = r /\ r # Idle /\ \A y \in Txns \ {x} : txn'[y] = txn[y]
    BY <2>1, NothingAssumption DEF Shape, TypeOK
  <2>4. Standing(x)'
    BY <1>1, <2>1, <2>2, <2>3 DEF Standing
  <2> QED BY <1>1, <2>2, <2>3, <2>4, OthersKeepStanding
<1>4. ASSUME NEW p \in People, EnsureMemberCode(x, p) PROVE CodesStand'
  <2> DEFINE c == cohort[work[x][p].group]
  <2>1. p \in txn[x].todo /\ work' = work /\ At(x, "ensuring")
    BY <1>4 DEF EnsureMemberCode
  <2>2. \/ /\ ReissueNeeded(work[x][p].code, c)
           /\ txn' = [txn EXCEPT ![x] = [txn[x] EXCEPT !.pc = "counting", !.person = p, !.want = c,
                                                     !.tries = 0, !.rivals = 0]]
        \/ txn' = [txn EXCEPT ![x] = [txn[x] EXCEPT !.todo = txn[x].todo \ {p}]]
    BY <1>4 DEF EnsureMemberCode
  <2>3. CASE ReissueNeeded(work[x][p].code, c)
             /\ txn' = [txn EXCEPT ![x] = [txn[x] EXCEPT !.pc = "counting", !.person = p, !.want = c,
                                                       !.tries = 0, !.rivals = 0]]
    <3>1. /\ txn'[x].todo = txn[x].todo /\ txn'[x].person = p /\ txn'[x].want = c
          /\ \A y \in Txns \ {x} : txn'[y] = txn[y]
      BY <1>1, <2>3 DEF Shape, TypeOK, Request
    <3>2. work[x][p].code = NoCode \/ work[x][p].code.cohort # c
      BY <2>3 DEF ReissueNeeded
    <3>3. Standing(x)'
      BY <1>1, <2>1, <3>1, <3>2 DEF Standing
    <3> QED BY <1>1, <2>1, <3>1, <3>3, OthersKeepStanding
  <2>4. CASE txn' = [txn EXCEPT ![x] = [txn[x] EXCEPT !.todo = txn[x].todo \ {p}]]
    <3>1. /\ txn'[x].todo = txn[x].todo \ {p} /\ txn'[x].pc = "ensuring"
          /\ \A y \in Txns \ {x} : txn'[y] = txn[y]
      BY <1>1, <2>1, <2>4 DEF Shape, TypeOK, Request, At
    <3>2. Standing(x)'
      BY <1>1, <2>1, <3>1 DEF Standing, Coding, At
    <3> QED BY <1>1, <2>1, <3>1, <3>2, OthersKeepStanding
  <2> QED BY <2>2, <2>3, <2>4
<1>5. CASE WriteCode(x)
  <2> DEFINE p == txn[x].person
             w == [work[x][p] EXCEPT !.code = Choice(x)]
             r == [txn[x] EXCEPT !.pc = "ensuring", !.todo = txn[x].todo \ {p}, !.want = NoCohort,
                                 !.serial = 0, !.tries = 0, !.rivals = 0]
  <2>1. At(x, "coding") /\ work' = [work EXCEPT ![x][p] = w] /\ txn' = [txn EXCEPT ![x] = r]
    BY <1>5 DEF WriteCode
  <2>2. p \in txn[x].todo /\ p \in People /\ work[x][p] \in Row /\ txn[x].want \in Cohorts
        /\ txn[x].serial \in 1..MaxSerial /\ Coding(x)
    BY <1>1, <1>2, <2>1 DEF Shaped, Coding
  <2>3. Choice(x) # NoCode /\ Choice(x).cohort = txn[x].want
    BY <2>2, NothingAssumption DEF Choice, Code
  <2>4. w.code = Choice(x) /\ r.todo = txn[x].todo \ {p} /\ r.pc = "ensuring"
    BY <1>1, <2>2 DEF Row, Request
  <2>5. work'[x][p] = w /\ (\A q \in People \ {p} : work'[x][q] = work[x][q])
        /\ \A y \in Txns \ {x} : work'[y] = work[y]
    BY <2>1, <2>2 DEF Shape, TypeOK
  <2>6. txn'[x] = r /\ \A y \in Txns \ {x} : txn'[y] = txn[y]
    BY <2>1 DEF Shape, TypeOK
  <2>7. rows[p] \in Row => work[x][p].code = rows[p].code
        /\ (rows[p].code = NoCode \/ rows[p].code.cohort # txn[x].want)
    BY <1>1, <2>2 DEF Standing
  <2> HIDE DEF p, w, r
  <2>8. Standing(x)'
    BY <1>1, <1>2, <2>3, <2>4, <2>5, <2>6, <2>7 DEF Standing, Coding, At
  <2> QED BY <1>1, <2>5, <2>6, <2>8, OthersKeepStanding
<1> QED BY <1>3, <1>4, <1>5

\* What a request commits was nobody else's to write.
LEMMA CommitKeepsStanding ==
  ASSUME Shape, Distinct, CodesStand, NEW x \in Txns, Commit(x)
  PROVE  CodesStand'
<1>1. /\ \A p \in People : rows'[p] = Seen(x, p) /\ work'[x][p] = Untouched
      /\ \A y \in Txns \ {x} : work'[y] = work[y]
      /\ txn'[x] = Idle
  BY DEF Commit, Shape, TypeOK
<1>2. ASSUME NEW y \in Txns \ {x} PROVE Standing(y)'
  <2>1. \A p \in People : work[y][p] # Untouched => rows'[p] = rows[p]
    BY <1>1 DEF Seen, Distinct, RowsAreLocked
  <2>2. Shaped(y) /\ Standing(y)
    BY DEF Shape, CodesStand
  <2>3. txn'[y] = txn[y] \/ (txn[y] # Idle /\ txn'[y] = [txn[y] EXCEPT !.rivals = txn[y].rivals + 1])
    BY DEF Commit
  <2>4. txn[y] \in Request \cup {Idle}
    BY DEF Shape, TypeOK
  <2>5. /\ txn'[y] # Idle => txn[y] # Idle /\ txn'[y].todo = txn[y].todo /\ txn[y].todo \subseteq People
        /\ Coding(y)' => Coding(y) /\ txn'[y].person = txn[y].person /\ txn'[y].want = txn[y].want
    BY <2>3, <2>4 DEF Request, Coding, At
  <2> QED BY <1>1, <2>1, <2>2, <2>5 DEF Standing, Shaped
<1>3. Standing(x)'
  BY <1>1 DEF Standing, Coding, At
<1> QED BY <1>2, <1>3 DEF CodesStand

\* The other writers touch rows nobody is writing.
LEMMA WritersKeepStanding ==
  ASSUME Shape, CodesStand, NEW S \in SUBSET People, Unlocked(S), work' = work,
         \A p \in People \ S : rows'[p] = rows[p],
         \A y \in Txns : txn'[y] \in {txn[y], Idle}
  PROVE  CodesStand'
<1>1. ASSUME NEW y \in Txns PROVE Standing(y)'
  <2>1. \A p \in People : work[y][p] # Untouched => rows'[p] = rows[p]
    BY DEF Unlocked
  <2>2. Shaped(y) /\ Standing(y) /\ txn[y] \in Request \cup {Idle}
    BY DEF Shape, TypeOK, CodesStand
  <2>3. txn[y] # Idle => txn[y].todo \subseteq People
    BY <2>2 DEF Request
  <2> QED BY <2>1, <2>2, <2>3 DEF Standing, Shaped, Coding, At
<1> QED BY <1>1 DEF CodesStand

LEMMA StandingKept == Shape /\ Distinct /\ CodesStand /\ [Next]_vars => CodesStand'
<1> SUFFICES ASSUME Shape, Distinct, CodesStand, [Next]_vars PROVE CodesStand'
  OBVIOUS
<1>1. ASSUME UNCHANGED <<rows, work, txn>> PROVE CodesStand'
  BY <1>1 DEF CodesStand, Standing, Coding, At
<1>2. ASSUME NEW x \in Txns, UpdateMember(x) \/ InsertMember(x) PROVE CodesStand'
  <2> DEFINE p == txn[x].person
             r == [txn[x] EXCEPT !.pc = "ensuring", !.todo = {p}]
  <2>1. txn[x] \in Request /\ p \in People /\ \A q \in People : work[x][q] = Untouched
    BY <1>2, NothingAssumption DEF Shape, TypeOK, Request, UpdateMember, InsertMember, At, Shaped
  <2>2. r.todo = {p} /\ r.pc = "ensuring"
    BY <2>1 DEF Request
  <2>3. CASE InsertMember(x) /\ rows[p] # NoMember
    BY <2>3, AbortKeepsStanding DEF InsertMember
  <2>4. CASE UpdateMember(x) \/ (InsertMember(x) /\ rows[p] = NoMember)
    <3>1. PICK w \in Row : /\ work' = [work EXCEPT ![x][p] = w] /\ txn' = [txn EXCEPT ![x] = r]
                           /\ rows' = rows /\ (rows[p] \in Row => w.code = rows[p].code)
      <4>1. CASE UpdateMember(x)
        <5>1. rows[p] \in Row
          BY <2>1, <4>1 DEF UpdateMember, Shape, TypeOK
        <5>2. [rows[p] EXCEPT !.group = txn[x].group] \in Row
              /\ [rows[p] EXCEPT !.group = txn[x].group].code = rows[p].code
          BY <2>1, <5>1 DEF Row, Request
        <5> QED BY <4>1, <5>2 DEF UpdateMember
      <4>2. CASE InsertMember(x) /\ rows[p] = NoMember
        <5>1. [group |-> txn[x].group, code |-> NoCode] \in Row
          BY <2>1 DEF Row, Request
        <5> QED BY <4>2, <5>1, NothingAssumption DEF InsertMember
      <4> QED BY <2>4, <4>1, <4>2
    <3>2. w # Untouched
      BY NothingAssumption
    <3>3. work'[x][p] = w /\ (\A q \in People \ {p} : work'[x][q] = Untouched)
          /\ \A y \in Txns \ {x} : work'[y] = work[y]
      BY <2>1, <3>1 DEF Shape, TypeOK
    <3>4. txn'[x] = r /\ \A y \in Txns \ {x} : txn'[y] = txn[y]
      BY <3>1 DEF Shape, TypeOK
    <3>5. ~Coding(x)'
      BY <2>2, <3>4 DEF Coding, At
    <3> HIDE DEF p, r
    <3> QED BY <2>1, <2>2, <3>1, <3>2, <3>3, <3>4, <3>5, MovingKeepsStanding
  <2> QED BY <1>2, <2>3, <2>4
<1>3. ASSUME NEW x \in Txns, NEW S \in SUBSET People, NEW g \in Groups, BulkUpdate(x, S, g) PROVE CodesStand'
  <2>1. work' = [work EXCEPT ![x] = [p \in People |-> IF p \in S THEN [rows[p] EXCEPT !.group = g] ELSE Untouched]]
        /\ rows' = rows /\ \A p \in S : rows[p] # NoMember
    BY <1>3 DEF BulkUpdate
  <2>2. \A p \in People : work'[x][p] = IF p \in S THEN [rows[p] EXCEPT !.group = g] ELSE Untouched
    BY <2>1 DEF Shape, TypeOK
  <2>3. ASSUME NEW p \in S PROVE rows[p] \in Row /\ work'[x][p] \in Row /\ work'[x][p].code = rows[p].code
    <3>1. rows[p] \in Row
      BY <2>1 DEF Shape, TypeOK
    <3> QED BY <2>2, <3>1 DEF Row
  <2>4. \A p \in S : work'[x][p] # Untouched
    BY <2>3, NothingAssumption
  <2>5. \A y \in Txns \ {x} : txn'[y] = txn[y] /\ work'[y] = work[y]
    BY <1>3, <2>1 DEF BulkUpdate, Begin, Shape, TypeOK
  <2>6. txn'[x].todo = S /\ txn'[x].pc = "ensuring"
    BY <1>3 DEF BulkUpdate, Begin, Shape, TypeOK
  <2>7. ~Coding(x)'
    BY <2>6 DEF Coding, At
  <2> QED BY <2>1, <2>2, <2>3, <2>4, <2>5, <2>6, <2>7, MovingKeepsStanding
<1>4. ASSUME NEW x \in Txns, GiveUp(x) \/ Lose(x) PROVE CodesStand'
  BY <1>4, AbortKeepsStanding DEF GiveUp, Lose
<1>5. ASSUME NEW p \in People, NEW g \in Groups, PatchMember(p, g) PROVE CodesStand'
  <2>1. Unlocked({p}) /\ UNCHANGED <<work, txn>> /\ \A q \in People \ {p} : rows'[q] = rows[q]
    BY <1>5 DEF PatchMember, Shape, TypeOK
  <2> QED BY <2>1, WritersKeepStanding
<1>6. ASSUME NEW S \in SUBSET People, DeleteMembers(S) PROVE CodesStand'
  <2>1. Unlocked(S) /\ work' = work /\ (\A y \in Txns : txn'[y] \in {txn[y], Idle})
        /\ \A p \in People \ S : rows'[p] = rows[p]
    BY <1>6 DEF DeleteMembers
  <2> QED BY <2>1, WritersKeepStanding
<1>7. ASSUME NEW g \in Groups, NEW c \in Cohorts \cup {NoCohort}, EditGroup(g, c) PROVE CodesStand'
  BY <1>1, <1>7 DEF EditGroup
<1>8. ASSUME NEW x \in Txns, NEW p \in People, NEW g \in Groups, BeginUpsert(x, p, g) PROVE CodesStand'
  <2>1. /\ UNCHANGED <<rows, work>> /\ txn[x] = Idle /\ \A q \in People : work[x][q] = Untouched
        /\ \A y \in Txns \ {x} : txn'[y] = txn[y]
    BY <1>8 DEF BeginUpsert, Begin, Shape, TypeOK, Shaped
  <2>2. txn'[x].todo = {} /\ txn'[x].pc \in {"inserting", "updating"}
    BY <1>8 DEF BeginUpsert, Begin, Shape, TypeOK
  <2>3. ~Coding(x)'
    BY <2>2 DEF Coding, At
  <2> QED BY <2>1, <2>2, <2>3, MovingKeepsStanding
<1> QED BY <1>1, <1>2, <1>3, <1>4, <1>5, <1>6, <1>7, <1>8,
           CodingKeepsStanding, CommitKeepsStanding DEF Next, vars

\* The code printed on a roster stays the member's for as long as it is of the cohort
\* they are in: what replaces one is a code of another cohort, whoever else writes
\* the member, the group or the codes meanwhile (ensureMemberCode).
THEOREM PrintedCodeAlwaysStands == Spec => PrintedCodeStands
<1> DEFINE Stands == \A p \in People :
       (rows[p] \in Row /\ rows'[p] \in Row /\ rows[p].code # NoCode /\ rows'[p].code # rows[p].code)
       => rows'[p].code # NoCode /\ rows'[p].code.cohort # rows[p].code.cohort
<1>1. Init => Shape /\ Distinct /\ CodesStand
  BY ShapeInitially, DistinctInitially, StandingInitially
<1>2. Shape /\ Distinct /\ CodesStand /\ [Next]_vars => (Shape /\ Distinct /\ CodesStand)'
  BY ShapeKept, DistinctKept, StandingKept
<1>3. Shape /\ CodesStand /\ [Next]_vars => [Stands]_vars
  <2> SUFFICES ASSUME Shape, CodesStand, Next, NEW p \in People, rows[p] \in Row, rows'[p] \in Row,
                      rows[p].code # NoCode, rows'[p].code # rows[p].code
               PROVE  rows'[p].code # NoCode /\ rows'[p].code.cohort # rows[p].code.cohort
    BY DEF vars
  <2>1. rows' # rows
    OBVIOUS
  <2>2. \/ \E x \in Txns : Commit(x)
        \/ \E q \in People, g \in Groups : PatchMember(q, g)
        \/ \E S \in SUBSET People : DeleteMembers(S)
    BY <2>1 DEF Next, UpdateMember, InsertMember, ChooseSerial, WriteCode, Retry, GiveUp, Lose, Abort,
       EnsureMemberCode, BeginUpsert, BulkUpdate, EditGroup
  <2>3. ASSUME NEW x \in Txns, Commit(x)
        PROVE  rows'[p].code # NoCode /\ rows'[p].code.cohort # rows[p].code.cohort
    <3>1. rows'[p] = Seen(x, p)
      BY <2>3 DEF Commit
    <3>2. work[x][p] # Untouched /\ rows'[p] = work[x][p]
      BY <3>1 DEF Seen
    <3> QED BY <3>2 DEF CodesStand, Standing
  <2>4. ASSUME NEW q \in People, NEW g \in Groups, PatchMember(q, g) PROVE FALSE
    <3>1. rows' = [rows EXCEPT ![q].group = g]
      BY <2>4 DEF PatchMember
    <3>2. rows'[p].code = rows[p].code
      BY <3>1 DEF Shape, TypeOK, Row
    <3> QED BY <3>2
  <2>5. ASSUME NEW S \in SUBSET People, DeleteMembers(S) PROVE FALSE
    <3>1. rows'[p] = IF p \in S THEN NoMember ELSE rows[p]
      BY <2>5 DEF DeleteMembers
    <3> QED BY <3>1, NothingAssumption
  <2> QED BY <2>2, <2>3, <2>4, <2>5
<1> QED BY <1>1, <1>2, <1>3, PTL DEF Spec, PrintedCodeStands

=============================================================================
