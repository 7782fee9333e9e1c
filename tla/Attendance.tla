------------------------------ MODULE Attendance ------------------------------
(***************************************************************************)
(* The attendance and roster_days tables and every server transaction that *)
(* writes them: the member's check-in and check-out, the admin's manual    *)
(* edit and clear, the file import, the three roster operations, the       *)
(* resolution of a presence check and the scheduler's mark-left-work job.  *)
(*                                                                         *)
(* Each request is one Postgres transaction at READ COMMITTED: it reads    *)
(* committed rows, decides, writes under row locks, and commits or rolls   *)
(* back.  Reading and writing are separate steps here, so anything another *)
(* transaction commits in between is seen by the write and not by the      *)
(* decision.                                                               *)
(*                                                                         *)
(* Abstractions.  A row is kept per slot (member, date, shift), the unique *)
(* key of the table; a null shift_id never conflicts, so every such row    *)
(* has a key of its own in NullKeys.  `late' is folded into "attended" and *)
(* `early_leave' into "checked_out": no rule below tells them apart.       *)
(* Which windows are open, which gates refuse and which rows are overdue   *)
(* are chosen freely; ShiftWindows models that arithmetic.                 *)
(***************************************************************************)
EXTENDS Naturals, FiniteSets

CONSTANTS
  Txns,       \* server transactions that can be open at once
  Members,
  Shifts,     \* shift ids
  NullKeys,   \* keys for rows whose shift_id is null
  Slots,      \* the (member, date, shift) keys in play
  Instants,   \* instants a request can stamp
  Handlers,   \* the handlers an instance runs
  NoRow,      \* "no row under this key"
  Clean,      \* "this transaction has not touched this key"
  NoSlot

Never == 0

KeyRecords == [member : Members, day : Nat, shift : Shifts \cup NullKeys]

Statuses == {"attended", "absent"}
Departures == {"none", "checked_out", "left_work"}

Row == [status : Statuses,
        ci     : Instants \cup {Never},
        co     : Instants \cup {Never},
        cs     : Departures]

Kinds == {"none", "check_in", "check_out", "manual_set", "manual_clear", "import",
          "roster_add", "roster_delete", "roster_bulk", "resolve", "sweep"}

Environment == {"audit_failure", "abort"}

ASSUME SlotsAssumption == Slots \subseteq KeyRecords /\ NoSlot \notin Slots
ASSUME ShiftsAssumption == Shifts \cap NullKeys = {}
ASSUME InstantsAssumption == Instants \subseteq Nat \ {0}
ASSUME HandlersAssumption == Handlers \subseteq Kinds \cup Environment
ASSUME MarkersAssumption == NoRow \notin Row /\ Clean \notin Row /\ Clean # NoRow

VARIABLES
  att,      \* committed attendance rows
  roster,   \* committed roster_days rows
  pc,       \* where each transaction stands
  op,       \* what it decided to do
  ids,      \* rows it will address by id and which still exist
  buf,      \* its uncommitted attendance writes
  radd,     \* its uncommitted roster inserts
  rdel,     \* its uncommitted roster deletes
  log,      \* audit rows it handed to AuditRepository.record
  poisoned, \* transactions with a failed statement: COMMIT rolls them back
  reply     \* the answer sent by the latest step

vars == <<att, roster, pc, op, ids, buf, radd, rdel, log, poisoned, reply>>
tables == <<att, roster>>
work == <<buf, radd, rdel, log, poisoned>>

-----------------------------------------------------------------------------
(* Keys and rows.                                                          *)

HasShift(s) == s.shift \in Shifts
Rosterable == {s \in Slots : HasShift(s)}
Dates == {s.day : s \in Slots}
SlotsOn(m, d) == {s \in Slots : s.member = m /\ s.day = d}

Exists(s) == att[s] # NoRow
Arrived(s) == Exists(s) /\ att[s].ci # Never
Open(s) == Arrived(s) /\ att[s].co = Never

\* An inserted row's column defaults: status 'present', everything else null.
Blank == [status |-> "attended", ci |-> Never, co |-> Never, cs |-> "none"]
OrBlank(r) == IF r = NoRow THEN Blank ELSE r

\* The columns writeCheckIn sets; a row that was there keeps its departure.
Arrive(r, at) == [OrBlank(r) EXCEPT !.status = "attended", !.ci = at]

\* The columns writeCheckOut sets.
Depart(r, at) == [r EXCEPT !.co = at, !.cs = "checked_out"]

\* The columns manualUpsert sets: any status but 'absent' means "came", and an
\* omitted status leaves the column alone.
ManualRowPresentOnly(r, status, at) ==
  [OrBlank(r) EXCEPT
     !.status = IF status = "omitted" THEN @ ELSE status,
     !.ci = IF status # "attended" THEN Never ELSE at]
ManualRow(r, status, at) ==
  [OrBlank(r) EXCEPT
     !.status = IF status = "omitted" THEN @ ELSE status,
     !.ci = IF status = "absent" THEN Never ELSE at]

\* The record importedSlot decides, which importUpsert writes whole.
ImportedRow(ci, co) ==
  IF ci = Never
    THEN [status |-> "absent", ci |-> Never, co |-> Never, cs |-> "none"]
    ELSE [status |-> "attended", ci |-> ci, co |-> co,
          cs |-> IF co = Never THEN "none" ELSE "checked_out"]

MarkLeft(r) == [r EXCEPT !.cs = "left_work"]

-----------------------------------------------------------------------------
(* Transactions.                                                           *)

NoOp == [kind |-> "none", slot |-> NoSlot, at |-> Never, status |-> "omitted", todo |-> {}]
Decided(kind, s, at) == [NoOp EXCEPT !.kind = kind, !.slot = s, !.at = at]

Quiet == [ok |-> FALSE, kind |-> "none", slot |-> NoSlot, at |-> Never,
          handed |-> {}, kept |-> {}]

AuditRow(event, s, at) == [event |-> event, slot |-> s, at |-> at]

\* What transaction t itself sees under key s.
Sees(t, s) == IF buf[t][s] = Clean THEN att[s] ELSE buf[t][s]

\* No other transaction holds an uncommitted write on these attendance keys.
Free(t, S) == \A u \in Txns \ {t}, s \in S : buf[u][s] = Clean

\* No other transaction holds an uncommitted insert or delete of these slots.
RosterFree(t, S) == \A u \in Txns \ {t} : S \cap (radd[u] \cup rdel[u]) = {}

Begin(t, kind) == pc[t] = "idle" /\ kind \in Handlers

\* The statement writes row f[s] under every key s of S, once their locks are free.
Put(t, S, f) ==
  buf' = [buf EXCEPT ![t] = [s \in Slots |-> IF s \in S THEN f[s] ELSE buf[t][s]]]

\* A decision is taken from what was read; nothing is written yet.
Decide(t, o, rows, next) ==
  /\ op' = [op EXCEPT ![t] = o]
  /\ ids' = [ids EXCEPT ![t] = rows]
  /\ pc' = [pc EXCEPT ![t] = next]
  /\ reply' = Quiet
  /\ UNCHANGED <<tables, work>>

\* The transaction ends, sending this answer.
Finish(t, answer) ==
  /\ pc' = [pc EXCEPT ![t] = "idle"]
  /\ op' = [op EXCEPT ![t] = NoOp]
  /\ buf' = [buf EXCEPT ![t] = [s \in Slots |-> Clean]]
  /\ radd' = [radd EXCEPT ![t] = {}]
  /\ rdel' = [rdel EXCEPT ![t] = {}]
  /\ log' = [log EXCEPT ![t] = {}]
  /\ poisoned' = poisoned \ {t}
  /\ reply' = answer

\* A handler that throws rolls everything back, the audit rows it wrote included.
Refuse(t, events) ==
  /\ Finish(t, [Quiet EXCEPT !.handed = log[t] \cup events])
  /\ ids' = [ids EXCEPT ![t] = {}]
  /\ UNCHANGED tables

-----------------------------------------------------------------------------
(* recordAttendance: the member's own check-in and check-out.              *)

\* decideCheckIn, any set of windows being open: pick a rostered slot of the
\* date that was not checked into.
BeginCheckIn(t) ==
  /\ Begin(t, "check_in")
  /\ \E s \in roster, at \in Instants :
       /\ ~Arrived(s)
       /\ Decide(t, Decided("check_in", s, at), {}, "write")

\* decideCheckOut: a still-open row.  Which one depends on the date and hour of
\* the request, so over all requests it is any of them; ShiftWindows says which.
\* Blocked when what it read was marked left_work.
BeginCheckOut(t) ==
  /\ Begin(t, "check_out")
  /\ \E s \in Slots, at \in Instants :
       /\ Open(s)
       /\ att[s].cs # "left_work"
       /\ Decide(t, Decided("check_out", s, at), {s}, "write")

\* A gate, a closed window or a blocked check-out: writeAudit, then throw.
RefuseRecord(t) ==
  /\ pc[t] = "idle"
  /\ \/ "check_in" \in Handlers
     \/ "check_out" \in Handlers
  /\ Refuse(t, {AuditRow("refusal", NoSlot, Never)})

\* writeCheckIn: INSERT .. ON CONFLICT DO UPDATE .. WHERE check_in_at IS NULL.
WriteCheckInLastWins(t) ==
  LET s == op[t].slot  at == op[t].at IN
  /\ pc[t] = "write" /\ op[t].kind = "check_in"
  /\ Free(t, {s})
  /\ Put(t, {s}, [k \in {s} |-> Arrive(att[s], at)])
  /\ log' = [log EXCEPT ![t] = {AuditRow("check_in", s, at)}]
  /\ pc' = [pc EXCEPT ![t] = "commit"]
  /\ reply' = Quiet
  /\ UNCHANGED <<tables, op, ids, radd, rdel, poisoned>>
WriteCheckIn(t) ==
  LET s == op[t].slot  at == op[t].at IN
  /\ pc[t] = "write" /\ op[t].kind = "check_in"
  /\ Free(t, {s})
  /\ ~Arrived(s)
  /\ Put(t, {s}, [k \in {s} |-> Arrive(att[s], at)])
  /\ log' = [log EXCEPT ![t] = {AuditRow("check_in", s, at)}]
  /\ pc' = [pc EXCEPT ![t] = "commit"]
  /\ reply' = Quiet
  /\ UNCHANGED <<tables, op, ids, radd, rdel, poisoned>>

\* No row came back from the upsert: 409 already_checked_in.
RepeatTapAccepted(t) ==
  /\ pc[t] = "write" /\ op[t].kind = "check_in"
  /\ Free(t, {op[t].slot})
  /\ Arrived(op[t].slot)
  /\ log' = [log EXCEPT ![t] = {AuditRow("check_in", op[t].slot, op[t].at)}]
  /\ pc' = [pc EXCEPT ![t] = "commit"]
  /\ reply' = Quiet
  /\ UNCHANGED <<tables, op, ids, buf, radd, rdel, poisoned>>
RepeatTap(t) ==
  /\ pc[t] = "write" /\ op[t].kind = "check_in"
  /\ Free(t, {op[t].slot})
  /\ Arrived(op[t].slot)
  /\ Refuse(t, {})

\* Mutant: the row that was read is saved, which inserts it again when it was deleted.
WriteCheckOutSaved(t) ==
  LET s == op[t].slot  at == op[t].at IN
  /\ pc[t] = "write" /\ op[t].kind = "check_out"
  /\ Free(t, {s})
  /\ Put(t, {s}, [k \in {s} |-> Depart(IF Exists(k) THEN att[k] ELSE Arrive(NoRow, at), at)])
  /\ log' = [log EXCEPT ![t] = {AuditRow("check_out", s, at)}]
  /\ pc' = [pc EXCEPT ![t] = "commit"]
  /\ reply' = Quiet
  /\ UNCHANGED <<tables, op, ids, radd, rdel, poisoned>>

\* writeCheckOut: UPDATE .. WHERE id, whatever the row says by now.  No row is
\* matched when it was deleted since; the request goes on all the same.
WriteCheckOut(t) ==
  LET s == op[t].slot  at == op[t].at IN
  /\ pc[t] = "write" /\ op[t].kind = "check_out"
  /\ Free(t, ids[t])
  /\ Put(t, ids[t], [k \in ids[t] |-> Depart(att[k], at)])
  /\ log' = [log EXCEPT ![t] = {AuditRow("check_out", s, at)}]
  /\ pc' = [pc EXCEPT ![t] = "commit"]
  /\ reply' = Quiet
  /\ UNCHANGED <<tables, op, ids, radd, rdel, poisoned>>

-----------------------------------------------------------------------------
(* setAttendanceManually.                                                  *)

\* manualSetShift without a shift: the slot of the earliest arrival of the day,
\* else of any row, else of any rostered slot; a null shift falls through.
RowsOn(m, d) == {s \in SlotsOn(m, d) : Exists(s)}
Picked(m, d) ==
  LET arrived == {s \in SlotsOn(m, d) : Arrived(s)}
  IN  IF arrived # {}
        THEN {s \in arrived : \A r \in arrived : att[s].ci <= att[r].ci}
        ELSE RowsOn(m, d)
RosteredOn(m, d) == roster \cap SlotsOn(m, d)

\* A new null-shift row: one of the keys nobody uses.
NewLoose(m, d) ==
  {s \in SlotsOn(m, d) : ~HasShift(s) /\ ~Exists(s) /\ \A u \in Txns : op[u].slot # s}

ManualTargets(m, d) ==
  {s \in Picked(m, d) : HasShift(s)} \cup
  (IF Picked(m, d) # {} /\ Picked(m, d) \subseteq Rosterable
     THEN {}
     ELSE IF RosteredOn(m, d) # {} THEN RosteredOn(m, d) ELSE NewLoose(m, d))

BeginManualSet(t) ==
  /\ Begin(t, "manual_set")
  /\ \E m \in Members, d \in Dates, status \in Statuses \cup {"omitted"}, at \in Instants :
       \E s \in ManualTargets(m, d) \cup (SlotsOn(m, d) \cap Rosterable) :
         Decide(t, [Decided("manual_set", s, at) EXCEPT !.status = status], {}, "write")

\* manualUpsert: INSERT .. ON CONFLICT DO UPDATE with no WHERE.
WriteManual(t) ==
  LET s == op[t].slot IN
  /\ pc[t] = "write" /\ op[t].kind = "manual_set"
  /\ Free(t, {s})
  /\ Put(t, {s}, [k \in {s} |-> ManualRow(att[s], op[t].status, op[t].at)])
  /\ pc' = [pc EXCEPT ![t] = "commit"]
  /\ reply' = Quiet
  /\ UNCHANGED <<tables, op, ids, radd, rdel, log, poisoned>>

\* manualClear: one DELETE of the member's rows of the day, or of one shift's.
ManualClear(t) ==
  /\ Begin(t, "manual_clear")
  /\ \E m \in Members, d \in Dates :
       \E gone \in {RowsOn(m, d)} \cup {{s} : s \in RowsOn(m, d) \cap Rosterable} :
         /\ Free(t, gone)
         /\ Put(t, gone, [k \in gone |-> NoRow])
  /\ op' = [op EXCEPT ![t].kind = "manual_clear"]
  /\ pc' = [pc EXCEPT ![t] = "commit"]
  /\ reply' = Quiet
  /\ UNCHANGED <<tables, ids, radd, rdel, log, poisoned>>

-----------------------------------------------------------------------------
(* importAttendance: a loop over the lines of a file, in one transaction.  *)

BeginImport(t) ==
  /\ Begin(t, "import")
  /\ \E lines \in (SUBSET Rosterable) \ {{}} :
       Decide(t, [Decided("import", NoSlot, Never) EXCEPT !.todo = lines], {}, "next")

\* The next line: a slot that is not rostered is skipped (no_roster).
ImportLine(t) ==
  /\ pc[t] = "next"
  /\ \E s \in op[t].todo :
       /\ op' = [op EXCEPT ![t].todo = @ \ {s},
                           ![t].slot = IF s \in roster THEN s ELSE NoSlot]
       /\ pc' = [pc EXCEPT ![t] = IF s \in roster THEN "write" ELSE "next"]
  /\ reply' = Quiet
  /\ UNCHANGED <<tables, ids, work>>

\* importUpsert: the whole record, over whatever is there.
WriteImport(t) ==
  LET s == op[t].slot IN
  /\ pc[t] = "write" /\ op[t].kind = "import"
  /\ Free(t, {s})
  /\ \E ci, co \in Instants \cup {Never} :
       Put(t, {s}, [k \in {s} |-> ImportedRow(ci, co)])
  /\ pc' = [pc EXCEPT ![t] = "next"]
  /\ reply' = Quiet
  /\ UNCHANGED <<tables, op, ids, radd, rdel, log, poisoned>>

\* No line left: one audit row for the whole import.
EndImport(t) ==
  /\ pc[t] = "next"
  /\ op[t].todo = {}
  /\ log' = [log EXCEPT ![t] = {AuditRow("import", NoSlot, Never)}]
  /\ pc' = [pc EXCEPT ![t] = "commit"]
  /\ reply' = Quiet
  /\ UNCHANGED <<tables, op, ids, buf, radd, rdel, poisoned>>

-----------------------------------------------------------------------------
(* The roster.                                                             *)

\* postRosterDays: INSERT .. ON CONFLICT DO NOTHING.
AddRosterDays(t) ==
  /\ Begin(t, "roster_add")
  /\ \E days \in (SUBSET Rosterable) \ {{}} :
       /\ RosterFree(t, days)
       /\ radd' = [radd EXCEPT ![t] = days \ roster]
  /\ op' = [op EXCEPT ![t].kind = "roster_add"]
  /\ pc' = [pc EXCEPT ![t] = "commit"]
  /\ reply' = Quiet
  /\ UNCHANGED <<tables, ids, buf, rdel, log, poisoned>>

\* deleteDay, first statement: the roster row.
DeleteRosterDay(t) ==
  /\ Begin(t, "roster_delete")
  /\ \E s \in Rosterable :
       /\ RosterFree(t, {s} \cap roster)
       /\ rdel' = [rdel EXCEPT ![t] = {s} \cap roster]
       /\ op' = [op EXCEPT ![t] = Decided("roster_delete", s, Never)]
  /\ pc' = [pc EXCEPT ![t] = "write"]
  /\ reply' = Quiet
  /\ UNCHANGED <<tables, ids, buf, radd, log, poisoned>>

\* deleteDay, second statement: the attendance row that went with it.
DeleteItsAttendanceSkipped(t) ==
  /\ pc[t] = "write" /\ op[t].kind = "roster_delete"
  /\ pc' = [pc EXCEPT ![t] = "commit"]
  /\ reply' = Quiet
  /\ UNCHANGED <<tables, op, ids, work>>
DeleteItsAttendance(t) ==
  LET gone == {s \in {op[t].slot} : Exists(s)} IN
  /\ pc[t] = "write" /\ op[t].kind = "roster_delete"
  /\ Free(t, gone)
  /\ Put(t, gone, [k \in gone |-> NoRow])
  /\ pc' = [pc EXCEPT ![t] = "commit"]
  /\ reply' = Quiet
  /\ UNCHANGED <<tables, op, ids, radd, rdel, log, poisoned>>

\* planBulk: what each mode takes off and puts on, among the slots a filter and
\* a range of days reach.
BulkRemoves(mode, sh, reach) ==
  {s \in reach \cap roster : IF mode = "replace" THEN s.shift # sh ELSE s.shift = sh}
BulkInserts(mode, sh, reach) ==
  IF mode = "remove" THEN {} ELSE {s \in reach \ roster : s.shift = sh}

\* bulkOperation: one statement deletes roster rows and their attendance and
\* inserts roster rows.
BulkStatement(t, del, ins) ==
  LET gone == {s \in del : Exists(s)} IN
  /\ RosterFree(t, del \cup ins)
  /\ Free(t, gone)
  /\ rdel' = [rdel EXCEPT ![t] = del]
  /\ radd' = [radd EXCEPT ![t] = ins]
  /\ Put(t, gone, [k \in gone |-> NoRow])
BulkRoster(t) ==
  /\ Begin(t, "roster_bulk")
  /\ \E who \in (SUBSET Members) \ {{}}, days \in (SUBSET Dates) \ {{}} :
     \E mode \in {"add", "remove", "replace"}, sh \in Shifts :
       LET reach == {s \in Rosterable : s.member \in who /\ s.day \in days}
       IN BulkStatement(t, BulkRemoves(mode, sh, reach), BulkInserts(mode, sh, reach))
  /\ op' = [op EXCEPT ![t].kind = "roster_bulk"]
  /\ pc' = [pc EXCEPT ![t] = "commit"]
  /\ reply' = Quiet
  /\ UNCHANGED <<tables, ids, log, poisoned>>

-----------------------------------------------------------------------------
(* Marking members who left: a presence check resolved, and the scheduler. *)

\* resolveLeftWork: one UPDATE of the check's date, for the targets that did not
\* confirm, on one shift or on all.  Arrival is not part of the condition.
ResolveLeftWork(t) ==
  /\ Begin(t, "resolve")
  /\ \E who \in (SUBSET Members) \ {{}}, d \in Dates :
     \E on \in {Shifts \cup NullKeys} \cup {{sh} : sh \in Shifts} :
       LET rows == {s \in Slots : /\ s.member \in who /\ s.day = d /\ s.shift \in on
                                  /\ Exists(s) /\ att[s].co = Never}
       IN /\ Free(t, rows)
          /\ Put(t, rows, [k \in rows |-> MarkLeft(att[k])])
  /\ op' = [op EXCEPT ![t].kind = "resolve"]
  /\ pc' = [pc EXCEPT ![t] = "commit"]
  /\ reply' = Quiet
  /\ UNCHANGED <<tables, ids, radd, rdel, log, poisoned>>

\* mark-left-work, the SELECT: open rows not yet marked; the overdue ones are
\* kept by id.  The advisory lock admits one run of the job at a time.
BeginSweep(t) ==
  /\ Begin(t, "sweep")
  /\ \A u \in Txns : op[u].kind # "sweep"
  /\ \E overdue \in SUBSET {s \in Slots : Open(s) /\ att[s].cs # "left_work"} :
       /\ overdue # {}
       /\ Decide(t, Decided("sweep", NoSlot, Never), overdue, "write")

\* mark-left-work, the UPDATE .. WHERE id IN: whatever the rows say by now.
WriteSweep(t) ==
  /\ pc[t] = "write" /\ op[t].kind = "sweep"
  /\ Free(t, ids[t])
  /\ Put(t, ids[t], [k \in ids[t] |-> MarkLeft(att[k])])
  /\ pc' = [pc EXCEPT ![t] = "commit"]
  /\ reply' = Quiet
  /\ UNCHANGED <<tables, op, ids, radd, rdel, log, poisoned>>

-----------------------------------------------------------------------------
(* The end of a transaction.                                               *)

\* The caller is answered what the handler returned.  A transaction in which a
\* statement failed is rolled back by its COMMIT, and the caller is not told.
Answer(t) ==
  [ok |-> TRUE, kind |-> op[t].kind, slot |-> op[t].slot, at |-> op[t].at,
   handed |-> log[t], kept |-> IF t \in poisoned THEN {} ELSE log[t]]

Commit(t) ==
  /\ pc[t] = "commit"
  /\ t \notin poisoned
  /\ Finish(t, Answer(t))
  /\ att' = [s \in Slots |-> Sees(t, s)]
  /\ roster' = (roster \ rdel[t]) \cup radd[t]
  /\ ids' = [u \in Txns |-> IF u = t THEN {} ELSE {s \in ids[u] : buf[t][s] # NoRow}]

CommitPoisoned(t) ==
  /\ pc[t] = "commit"
  /\ t \in poisoned
  /\ Finish(t, Answer(t))
  /\ ids' = [ids EXCEPT ![t] = {}]
  /\ UNCHANGED tables

\* The audit INSERT fails; AuditRepository.record catches the error.
AuditFails(t) ==
  /\ "audit_failure" \in Handlers
  /\ pc[t] = "commit"
  /\ log[t] # {}
  /\ t \notin poisoned
  /\ poisoned' = poisoned \cup {t}
  /\ reply' = Quiet
  /\ UNCHANGED <<tables, pc, op, ids, buf, radd, rdel, log>>

\* The process or its connection dies: Postgres rolls the transaction back.
Abort(t) ==
  /\ "abort" \in Handlers
  /\ pc[t] # "idle"
  /\ Finish(t, Quiet)
  /\ ids' = [ids EXCEPT ![t] = {}]
  /\ UNCHANGED tables

\* Transactions waiting for each other's row locks: Postgres kills one.
Awaits(t) == IF op[t].kind \in {"check_out", "sweep"} THEN ids[t] ELSE {op[t].slot} \cap Slots
Waits(t, u) == pc[t] = "write" /\ u # t /\ \E s \in Awaits(t) : buf[u][s] # Clean
KillDeadlocked(t) ==
  /\ \E S \in SUBSET Txns : t \in S /\ \A u \in S : \E v \in S : Waits(u, v)
  /\ Refuse(t, {})

-----------------------------------------------------------------------------
Init ==
  /\ att = [s \in Slots |-> NoRow]
  /\ roster \in SUBSET Rosterable
  /\ pc = [t \in Txns |-> "idle"]
  /\ op = [t \in Txns |-> NoOp]
  /\ ids = [t \in Txns |-> {}]
  /\ buf = [t \in Txns |-> [s \in Slots |-> Clean]]
  /\ radd = [t \in Txns |-> {}]
  /\ rdel = [t \in Txns |-> {}]
  /\ log = [t \in Txns |-> {}]
  /\ poisoned = {}
  /\ reply = Quiet

\* A request arrives, or the job's timer fires.
Start(t) ==
  \/ BeginCheckIn(t) \/ BeginCheckOut(t) \/ RefuseRecord(t)
  \/ BeginManualSet(t) \/ ManualClear(t) \/ BeginImport(t)
  \/ AddRosterDays(t) \/ DeleteRosterDay(t) \/ BulkRoster(t)
  \/ ResolveLeftWork(t) \/ BeginSweep(t)

\* What the server and Postgres do by themselves once it has.
Proceed(t) ==
  \/ WriteCheckIn(t) \/ RepeatTap(t) \/ WriteCheckOut(t) \/ WriteManual(t)
  \/ ImportLine(t) \/ WriteImport(t) \/ EndImport(t)
  \/ DeleteItsAttendance(t) \/ WriteSweep(t)
  \/ Commit(t) \/ CommitPoisoned(t) \/ KillDeadlocked(t)

Fail(t) == AuditFails(t) \/ Abort(t)

Next == \E t \in Txns : Start(t) \/ Proceed(t) \/ Fail(t)

Spec == Init /\ [][Next]_vars

\* Node resumes every settled promise, and Postgres queues waiters for a lock in
\* order, so a transaction that can repeatedly go on does.
LiveSpec == Spec /\ \A t \in Txns : SF_vars(Proceed(t))

-----------------------------------------------------------------------------
(* Properties that hold whatever runs beside what.                         *)

Opcode == [kind : Kinds, slot : Slots \cup {NoSlot}, at : Instants \cup {Never},
           status : Statuses \cup {"omitted"}, todo : SUBSET Slots]
AuditRows == [event : {"check_in", "check_out", "import", "refusal"},
              slot : Slots \cup {NoSlot}, at : Instants \cup {Never}]

Replies == [ok : BOOLEAN, kind : Kinds, slot : Slots \cup {NoSlot},
            at : Instants \cup {Never}, handed : SUBSET AuditRows,
            kept : SUBSET AuditRows]

\* Every variable keeps its type: rows, requests, uncommitted writes and answers.
TypeOK ==
  /\ att \in [Slots -> Row \cup {NoRow}]
  /\ roster \in SUBSET Rosterable
  /\ pc \in [Txns -> {"idle", "next", "write", "commit"}]
  /\ op \in [Txns -> Opcode]
  /\ ids \in [Txns -> SUBSET Slots]
  /\ buf \in [Txns -> [Slots -> Row \cup {NoRow, Clean}]]
  /\ radd \in [Txns -> SUBSET Rosterable]
  /\ rdel \in [Txns -> SUBSET Rosterable]
  /\ log \in [Txns -> SUBSET AuditRows]
  /\ poisoned \in SUBSET Txns
  /\ reply \in Replies

\* A row nobody arrived on says "absent": no writer, and no interleaving of
\* writers, leaves a "present" status without the arrival behind it.
NoArrivalMeansAbsent ==
  \A s \in Slots : Exists(s) /\ att[s].ci = Never => att[s].status = "absent"

\* The two departure columns agree: a row that says checked_out carries the time,
\* and a row with the time says how the member left.
DepartureIsDescribed ==
  \A s \in Slots : Exists(s) =>
    /\ att[s].cs = "checked_out" => att[s].co # Never
    /\ att[s].co # Never => att[s].cs # "none"

\* What the writers keep of every row, committed or not.
RowOK(r) ==
  /\ r.ci = Never => r.status = "absent"
  /\ r.cs = "checked_out" => r.co # Never
  /\ r.co # Never => r.cs # "none"

\* A row lock has one holder.
LocksHeldOnce ==
  \A t, u \in Txns : t # u => \A s \in Slots : buf[t][s] = Clean \/ buf[u][s] = Clean

\* Where a transaction stands fixes what it has decided and written so far.
Stage ==
  \A t \in Txns :
    /\ pc[t] = "idle" => op[t].kind = "none" /\ \A s \in Slots : buf[t][s] = Clean
    /\ pc[t] = "next" => op[t].kind = "import"
    /\ pc[t] = "write" =>
         /\ op[t].kind \in {"check_in", "manual_set"} =>
              op[t].slot \in Slots /\ op[t].at \in Instants
         /\ op[t].kind = "check_out" => op[t].slot \in Slots /\ op[t].at \in Instants
         /\ op[t].kind \in {"import", "roster_delete"} => op[t].slot \in Slots
         /\ op[t].kind = "check_in" => \A s \in Slots : buf[t][s] = Clean

\* Rows addressed by id exist, so an update by id never revives a deleted one.
IdsExist == \A t \in Txns : \A s \in ids[t] : Exists(s)

\* An uncommitted check-in holds its slot's lock, alone, over a row without arrival.
CheckInHoldsSlot ==
  \A t \in Txns : pc[t] = "commit" /\ op[t].kind = "check_in" =>
    /\ op[t].slot \in Slots
    /\ ~Arrived(op[t].slot)
    /\ buf[t][op[t].slot] = Arrive(att[op[t].slot], op[t].at)
    /\ log[t] \subseteq {AuditRow("check_in", op[t].slot, op[t].at)}
    /\ \A s \in Slots \ {op[t].slot} : buf[t][s] = Clean

\* Only a check-in hands over a CHECK_IN audit row.
OnlyCheckInLogsArrival ==
  \A t \in Txns : \A r \in log[t] : r.event = "check_in" =>
    pc[t] = "commit" /\ op[t].kind = "check_in"

RowsOK ==
  /\ \A s \in Slots : Exists(s) => RowOK(att[s])
  /\ \A t \in Txns, s \in Slots : buf[t][s] \notin {Clean, NoRow} => RowOK(buf[t][s])

\* The inductive invariant behind the theorems of AttendanceProofs.
IInv ==
  /\ TypeOK
  /\ LocksHeldOnce
  /\ Stage
  /\ IdsExist
  /\ CheckInHoldsSlot
  /\ OnlyCheckInLogsArrival
  /\ RowsOK

\* The request that this step answered with success.
Answers(kind) == reply'.ok /\ reply'.kind = kind

\* writeCheckIn is first-wins: a check-in that is accepted leaves every arrival
\* already on record as it was, however many taps and edits run beside it.
FirstArrivalStands ==
  [][Answers("check_in") => \A s \in Slots : Arrived(s) => att'[s] = att[s]]_vars

\* A CHECK_IN row in the audit log is the record of an arrival: the commit that
\* keeps it is the one that set check_in_at, to the instant it names, on a slot
\* without one.  A tap that lost the race leaves no such row.
AuditedArrivalIsReal ==
  [][\A s \in Slots, at \in Instants :
       AuditRow("check_in", s, at) \in reply'.kept =>
         ~Arrived(s) /\ att'[s] # NoRow /\ att'[s].ci = at]_vars

\* A departure is decided on rows read earlier and written to them by id, or in the
\* statement that reads them.  Whatever came between, a deletion, an edit, a second
\* departure, it brings no deleted row back and leaves every arrival as it finds it.
DeparturesKeepArrivals ==
  [][Answers("check_out") \/ Answers("sweep") \/ Answers("resolve") =>
       \A s \in Slots : /\ att'[s] = NoRow <=> att[s] = NoRow
                        /\ Exists(s) => att'[s].ci = att[s].ci /\ att'[s].status = att[s].status]_vars

\* Every request ends: no set of handlers waits on itself for ever.
EveryRequestEnds == \A t \in Txns : pc[t] # "idle" ~> pc[t] = "idle"

-----------------------------------------------------------------------------
(* Properties the code's comments state, which hold when requests do not   *)
(* overlap and are lost when they do.                                      *)

\* An attendance row never outlives its roster slot (where no admin writes rows
\* outside the roster by hand).
NoOrphanAttendance == \A s \in Slots : Exists(s) => s \in roster

\* Once a row says left_work its check-out is closed: no check-out replaces it.
LeftWorkBlocksCheckOut ==
  [][Answers("check_out") =>
       \A s \in Slots : Exists(s) /\ att[s].cs = "left_work" => att'[s] = att[s]]_vars

\* An audit row the code writes is recorded: what an answered request handed to
\* AuditRepository.record is in audit_log.
AuditIsKept == [][reply'.handed \subseteq reply'.kept]_vars

=============================================================================
