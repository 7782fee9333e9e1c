--------------------------- MODULE AttendanceProofs ---------------------------
(***************************************************************************)
(* Theorems about Attendance for every set of transactions, members, slots *)
(* and instants, whatever handlers run: the inductive invariant IInv and   *)
(* what follows from it; what stays true of a request that nothing         *)
(* overlaps (AloneInv); and what the screens of Reports count in any state *)
(* that IInv admits.                                                       *)
(***************************************************************************)
EXTENDS MCAttendance, TLAPS, FiniteSetTheorems

\* What a step of one transaction may put under a key.
Writable(x) == (x \in Row /\ RowOK(x)) \/ x = NoRow

-----------------------------------------------------------------------------
(* Rows: each writer produces a row that is of the type and RowOK.         *)

\* writeCheckIn leaves a well-formed row, whether it inserts or updates.
LEMMA ArriveWritable ==
  ASSUME NEW r \in Row \cup {NoRow}, r # NoRow => RowOK(r), NEW at \in Instants
  PROVE  Writable(Arrive(r, at)) /\ Arrive(r, at) # NoRow
BY MarkersAssumption, InstantsAssumption DEF Writable, Arrive, OrBlank, Blank, Row, RowOK, Statuses, Departures, Never

\* writeCheckOut leaves a well-formed row.
LEMMA DepartWritable ==
  ASSUME NEW r \in Row, RowOK(r), NEW at \in Instants
  PROVE  Writable(Depart(r, at))
BY InstantsAssumption DEF Writable, Depart, Row, RowOK, Statuses, Departures, Never

\* manualUpsert leaves a well-formed row, an omitted status included.
LEMMA ManualWritable ==
  ASSUME NEW r \in Row \cup {NoRow}, r # NoRow => RowOK(r), NEW at \in Instants,
         NEW status \in Statuses \cup {"omitted"}
  PROVE  Writable(ManualRow(r, status, at))
BY MarkersAssumption, InstantsAssumption DEF Writable, ManualRow, OrBlank, Blank, Row, RowOK, Statuses, Departures, Never

\* importUpsert writes a well-formed record for every pair of times.
LEMMA ImportedWritable ==
  ASSUME NEW ci \in Instants \cup {Never}, NEW co \in Instants \cup {Never}
  PROVE  Writable(ImportedRow(ci, co))
BY InstantsAssumption DEF Writable, ImportedRow, Row, RowOK, Statuses, Departures, Never

\* Marking left_work leaves a well-formed row.
LEMMA MarkLeftWritable ==
  ASSUME NEW r \in Row, RowOK(r)
  PROVE  Writable(MarkLeft(r))
BY DEF Writable, MarkLeft, Row, RowOK, Statuses, Departures, Never

-----------------------------------------------------------------------------
(* What every statement and every end of a transaction keeps.              *)

\* Writing rows under free keys keeps the types, the locks and the rows.
LEMMA PutKeeps ==
  ASSUME IInv, NEW t \in Txns, NEW S \in SUBSET Slots, NEW f,
         \A s \in S : Writable(f[s]), Free(t, S), Put(t, S, f)
  PROVE  /\ buf' \in [Txns -> [Slots -> Row \cup {NoRow, Clean}]]
         /\ LocksHeldOnce'
         /\ \A u \in Txns, s \in Slots : buf'[u][s] \notin {Clean, NoRow} => RowOK(buf'[u][s])
         /\ \A u \in Txns \ {t} : buf'[u] = buf[u]
         /\ \A s \in Slots : buf'[t][s] = IF s \in S THEN f[s] ELSE buf[t][s]
<1>1. buf \in [Txns -> [Slots -> Row \cup {NoRow, Clean}]]
  BY DEF IInv, TypeOK
<1>2. \A u \in Txns \ {t} : buf'[u] = buf[u]
  BY <1>1 DEF Put
<1>3. \A s \in Slots : buf'[t][s] = IF s \in S THEN f[s] ELSE buf[t][s]
  BY <1>1 DEF Put
<1>4. buf' \in [Txns -> [Slots -> Row \cup {NoRow, Clean}]]
  BY <1>1 DEF Put, Writable
<1>5. LocksHeldOnce'
  BY <1>2, <1>3 DEF IInv, LocksHeldOnce, Free
<1>6. \A u \in Txns, s \in Slots : buf'[u][s] \notin {Clean, NoRow} => RowOK(buf'[u][s])
  BY <1>2, <1>3 DEF IInv, RowsOK, Writable
<1>7. QED
  BY <1>2, <1>3, <1>4, <1>5, <1>6

\* A request that reads and decides, writing nothing, keeps the invariant.
LEMMA DecideKeeps ==
  ASSUME IInv, NEW t \in Txns, pc[t] = "idle", NEW o \in Opcode,
         NEW rows \in SUBSET Slots, \A s \in rows : Exists(s),
         NEW next \in {"next", "write"}, next = "next" => o.kind = "import",
         next = "write" => \/ o.kind = "sweep"
                           \/ o.slot \in Slots /\ o.at \in Instants,
         Decide(t, o, rows, next)
  PROVE  IInv'
<1>1. UNCHANGED <<att, roster, buf, radd, rdel, log, poisoned>> /\ reply' = Quiet
  BY DEF Decide, tables, work
<1>2. TypeOK'
  BY <1>1 DEF IInv, TypeOK, Decide, Quiet, Replies, Never, Kinds
<1>3. LocksHeldOnce' /\ RowsOK'
  BY <1>1 DEF IInv, LocksHeldOnce, RowsOK, Exists
<1>4. Stage'
  BY <1>1 DEF IInv, TypeOK, Stage, Decide, Opcode
<1>5. IdsExist'
  BY <1>1 DEF IInv, TypeOK, IdsExist, Decide, Exists
<1>6. CheckInHoldsSlot'
  BY <1>1 DEF IInv, TypeOK, CheckInHoldsSlot, Decide, Arrived, Exists
<1>7. OnlyCheckInLogsArrival'
  BY <1>1 DEF IInv, TypeOK, OnlyCheckInLogsArrival, Decide
<1>8. QED
  BY <1>2, <1>3, <1>4, <1>5, <1>6, <1>7 DEF IInv

\* Ending without writing a table keeps the invariant: a refusal, a rollback.
LEMMA RollbackKeeps ==
  ASSUME IInv, NEW t \in Txns, NEW answer \in Replies, Finish(t, answer),
         ids' = [ids EXCEPT ![t] = {}], UNCHANGED tables
  PROVE  IInv'
<1>1. UNCHANGED <<att, roster>> /\ reply' = answer
  BY DEF Finish, tables
<1>2. TypeOK'
  BY <1>1 DEF IInv, TypeOK, Finish, NoOp, Opcode, Kinds, Never
<1>3. LocksHeldOnce'
  BY DEF IInv, TypeOK, LocksHeldOnce, Finish
<1>4. RowsOK'
  BY <1>1 DEF IInv, TypeOK, RowsOK, Exists, Finish
<1>5. Stage'
  BY <1>1 DEF IInv, TypeOK, Stage, Finish, NoOp
<1>6. IdsExist'
  BY <1>1 DEF IInv, TypeOK, IdsExist, Exists
<1>7. CheckInHoldsSlot'
  BY <1>1 DEF IInv, TypeOK, CheckInHoldsSlot, Finish, Arrived, Exists
<1>8. OnlyCheckInLogsArrival'
  BY <1>1 DEF IInv, TypeOK, OnlyCheckInLogsArrival, Finish
<1>9. QED
  BY <1>2, <1>3, <1>4, <1>5, <1>6, <1>7, <1>8 DEF IInv

\* A statement of one transaction keeps the invariant: it writes at most its own
\* entries, and a check-in that reaches its commit holds its slot.
LEMMA StatementKeeps ==
  ASSUME IInv, NEW t \in Txns, pc[t] # "commit",
         UNCHANGED <<tables, ids, poisoned>>, reply' = Quiet,
         NEW next \in {"next", "write", "commit"}, pc' = [pc EXCEPT ![t] = next],
         op' \in [Txns -> Opcode], \A u \in Txns \ {t} : op'[u] = op[u],
         log' \in [Txns -> SUBSET AuditRows], \A u \in Txns \ {t} : log'[u] = log[u],
         radd' \in [Txns -> SUBSET Rosterable], rdel' \in [Txns -> SUBSET Rosterable],
         buf' \in [Txns -> [Slots -> Row \cup {NoRow, Clean}]],
         \A u \in Txns \ {t} : buf'[u] = buf[u],
         LocksHeldOnce',
         \A u \in Txns, s \in Slots : buf'[u][s] \notin {Clean, NoRow} => RowOK(buf'[u][s]),
         next = "next" => op'[t].kind = "import",
         next = "write" => op'[t].kind \in {"import", "roster_delete"} /\ op'[t].slot \in Slots,
         next = "commit" /\ op'[t].kind = "check_in" =>
           /\ op'[t].slot \in Slots
           /\ ~Arrived(op'[t].slot)
           /\ buf'[t][op'[t].slot] = Arrive(att[op'[t].slot], op'[t].at)
           /\ log'[t] \subseteq {AuditRow("check_in", op'[t].slot, op'[t].at)}
           /\ \A s \in Slots \ {op'[t].slot} : buf'[t][s] = Clean,
         \A r \in log'[t] : r.event = "check_in" => next = "commit" /\ op'[t].kind = "check_in"
  PROVE  IInv'
<1>1. UNCHANGED <<att, roster, ids, poisoned>>
  BY DEF tables
<1>2. /\ pc' \in [Txns -> {"idle", "next", "write", "commit"}]
      /\ pc'[t] = next
      /\ \A u \in Txns \ {t} : pc'[u] = pc[u]
  BY DEF IInv, TypeOK
<1>3. TypeOK'
  <2>1. reply' \in Replies
    BY DEF Quiet, Replies, Kinds, Never
  <2>2. QED
    BY <1>1, <1>2, <2>1 DEF IInv, TypeOK
<1>4. RowsOK'
  BY <1>1 DEF IInv, RowsOK, Exists
<1>5. Stage'
  BY <1>2 DEF IInv, Stage
<1>6. IdsExist'
  BY <1>1 DEF IInv, IdsExist, Exists
<1>7. CheckInHoldsSlot'
  BY <1>1, <1>2 DEF IInv, CheckInHoldsSlot, Arrived, Exists
<1>8. OnlyCheckInLogsArrival'
  BY <1>2 DEF IInv, OnlyCheckInLogsArrival
<1>9. QED
  BY <1>3, <1>4, <1>5, <1>6, <1>7, <1>8 DEF IInv

-----------------------------------------------------------------------------
(* The invariant holds initially and is kept by every action.              *)

\* The decided requests are of their type.
LEMMA DecidedType ==
  ASSUME NEW kind \in Kinds, NEW s \in Slots \cup {NoSlot}, NEW at \in Instants \cup {Never}
  PROVE  /\ Decided(kind, s, at) \in Opcode
         /\ Decided(kind, s, at).kind = kind
         /\ Decided(kind, s, at).slot = s
         /\ Decided(kind, s, at).at = at
BY DEF Decided, NoOp, Opcode, Never

\* The refusals a request is answered with are of their type.
LEMMA RefuseKeeps ==
  ASSUME IInv, NEW t \in Txns, NEW events \in SUBSET AuditRows, Refuse(t, events)
  PROVE  IInv'
<1>1. [Quiet EXCEPT !.handed = log[t] \cup events] \in Replies
  BY DEF IInv, TypeOK, Quiet, Replies, Kinds, Never
<1>2. QED
  BY <1>1, RollbackKeeps DEF Refuse

\* The invariant holds of empty tables and idle transactions.
LEMMA InitIInv == Init => IInv
<1> SUFFICES ASSUME Init PROVE IInv
  OBVIOUS
<1>1. TypeOK
  BY DEF Init, TypeOK, NoOp, Opcode, Quiet, Replies, Kinds, Never
<1>2. LocksHeldOnce /\ Stage /\ IdsExist
  BY DEF Init, LocksHeldOnce, Stage, IdsExist, NoOp
<1>3. CheckInHoldsSlot /\ OnlyCheckInLogsArrival
  BY DEF Init, CheckInHoldsSlot, OnlyCheckInLogsArrival
<1>4. RowsOK
  BY DEF Init, RowsOK, Exists
<1>5. QED
  BY <1>1, <1>2, <1>3, <1>4 DEF IInv

\* Requests that only decide.
LEMMA BeginKeeps ==
  ASSUME IInv, NEW t \in Txns,
         \/ BeginCheckIn(t) \/ BeginCheckOut(t) \/ BeginManualSet(t)
         \/ BeginImport(t) \/ BeginSweep(t)
  PROVE  IInv'
<1>1. roster \subseteq Slots /\ Rosterable \subseteq Slots
  BY DEF IInv, TypeOK, Rosterable
<1>2. CASE BeginCheckIn(t)
  <2>1. PICK s \in roster, at \in Instants : Decide(t, Decided("check_in", s, at), {}, "write")
    BY <1>2 DEF BeginCheckIn
  <2>2. pc[t] = "idle"
    BY <1>2 DEF BeginCheckIn, Begin
  <2>3. QED
    BY <1>1, <2>1, <2>2, DecidedType, DecideKeeps DEF Kinds
<1>3. CASE BeginCheckOut(t)
  <2>1. PICK s \in Slots, at \in Instants :
          Open(s) /\ Decide(t, Decided("check_out", s, at), {s}, "write")
    BY <1>3 DEF BeginCheckOut
  <2>2. pc[t] = "idle" /\ Exists(s)
    BY <1>3, <2>1 DEF BeginCheckOut, Begin, Open, Arrived
  <2>3. QED
    BY <2>1, <2>2, DecidedType, DecideKeeps DEF Kinds
<1>4. CASE BeginManualSet(t)
  <2>1. PICK m \in Members, d \in Dates, status \in Statuses \cup {"omitted"}, at \in Instants :
          \E s \in ManualTargets(m, d) \cup (SlotsOn(m, d) \cap Rosterable) :
            Decide(t, [Decided("manual_set", s, at) EXCEPT !.status = status], {}, "write")
    BY <1>4 DEF BeginManualSet
  <2>2. ManualTargets(m, d) \cup (SlotsOn(m, d) \cap Rosterable) \subseteq Slots
    BY DEF ManualTargets, Picked, RowsOn, RosteredOn, NewLoose, SlotsOn
  <2>3. PICK s \in Slots :
          Decide(t, [Decided("manual_set", s, at) EXCEPT !.status = status], {}, "write")
    BY <2>1, <2>2
  <2>4. /\ [Decided("manual_set", s, at) EXCEPT !.status = status] \in Opcode
        /\ [Decided("manual_set", s, at) EXCEPT !.status = status].slot = s
        /\ [Decided("manual_set", s, at) EXCEPT !.status = status].at = at
    BY DEF Decided, NoOp, Opcode, Kinds, Never
  <2>5. pc[t] = "idle"
    BY <1>4 DEF BeginManualSet, Begin
  <2>6. QED
    BY <2>3, <2>4, <2>5, DecideKeeps
<1>5. CASE BeginImport(t)
  <2>1. PICK lines \in SUBSET Rosterable :
          Decide(t, [Decided("import", NoSlot, Never) EXCEPT !.todo = lines], {}, "next")
    BY <1>5 DEF BeginImport
  <2>2. /\ [Decided("import", NoSlot, Never) EXCEPT !.todo = lines] \in Opcode
        /\ [Decided("import", NoSlot, Never) EXCEPT !.todo = lines].kind = "import"
    BY <1>1 DEF Decided, NoOp, Opcode, Kinds, Never
  <2>3. pc[t] = "idle"
    BY <1>5 DEF BeginImport, Begin
  <2>4. QED
    BY <2>1, <2>2, <2>3, DecideKeeps
<1>6. CASE BeginSweep(t)
  <2>1. PICK overdue \in SUBSET {s \in Slots : Open(s) /\ att[s].cs # "left_work"} :
          Decide(t, Decided("sweep", NoSlot, Never), overdue, "write")
    BY <1>6 DEF BeginSweep
  <2>2. pc[t] = "idle" /\ \A s \in overdue : Exists(s)
    BY <1>6 DEF BeginSweep, Begin, Open, Arrived
  <2>3. QED
    BY <2>1, <2>2, DecidedType, DecideKeeps DEF Kinds
<1>7. QED
  BY <1>2, <1>3, <1>4, <1>5, <1>6

\* The member's own writes: the check-in upsert, the repeated tap, the check-out.
LEMMA RecordKeeps ==
  ASSUME IInv, NEW t \in Txns, WriteCheckIn(t) \/ RepeatTap(t) \/ WriteCheckOut(t)
  PROVE  IInv'
<1> DEFINE s == op[t].slot
           at == op[t].at
<1>1. CASE WriteCheckIn(t)
  <2>1. s \in Slots /\ at \in Instants /\ \A k \in Slots : buf[t][k] = Clean
    BY <1>1 DEF WriteCheckIn, IInv, Stage
  <2>2. att[s] \in Row \cup {NoRow} /\ (att[s] # NoRow => RowOK(att[s]))
    BY <2>1 DEF IInv, TypeOK, RowsOK, Exists
  <2>3. DEFINE f == [k \in {s} |-> Arrive(att[s], at)]
  <2>4. Put(t, {s}, f) /\ Free(t, {s}) /\ \A k \in {s} : Writable(f[k])
    BY <1>1, <2>1, <2>2, ArriveWritable DEF WriteCheckIn
  <2>5. /\ buf' \in [Txns -> [Slots -> Row \cup {NoRow, Clean}]]
        /\ LocksHeldOnce'
        /\ \A u \in Txns, k \in Slots : buf'[u][k] \notin {Clean, NoRow} => RowOK(buf'[u][k])
        /\ \A u \in Txns \ {t} : buf'[u] = buf[u]
        /\ \A k \in Slots : buf'[t][k] = IF k \in {s} THEN f[k] ELSE buf[t][k]
    BY <2>1, <2>4, PutKeeps
  <2>6. {AuditRow("check_in", s, at)} \in SUBSET AuditRows
    BY <2>1 DEF AuditRow, AuditRows
  <2>7. /\ log' \in [Txns -> SUBSET AuditRows]
        /\ log'[t] = {AuditRow("check_in", s, at)}
        /\ \A u \in Txns \ {t} : log'[u] = log[u]
    BY <1>1, <2>6 DEF WriteCheckIn, IInv, TypeOK
  <2>8. UNCHANGED <<op, radd, rdel, tables, ids, poisoned>>
    BY <1>1 DEF WriteCheckIn
  <2>9. pc[t] = "write" /\ pc' = [pc EXCEPT ![t] = "commit"] /\ reply' = Quiet
        /\ op[t].kind = "check_in" /\ ~Arrived(s)
    BY <1>1 DEF WriteCheckIn
  <2>10. /\ op'[t].slot = s /\ op'[t].at = at /\ op'[t].kind = "check_in"
         /\ buf'[t][op'[t].slot] = Arrive(att[op'[t].slot], op'[t].at)
         /\ \A k \in Slots \ {op'[t].slot} : buf'[t][k] = Clean
    BY <2>1, <2>5, <2>8, <2>9
  <2>11. \A r \in log'[t] : r.event = "check_in" => op'[t].kind = "check_in"
    BY <2>10
  <2>12. /\ op' \in [Txns -> Opcode]
         /\ radd' \in [Txns -> SUBSET Rosterable]
         /\ rdel' \in [Txns -> SUBSET Rosterable]
    BY <2>8 DEF IInv, TypeOK
  <2>13. QED
    BY <2>1, <2>5, <2>7, <2>8, <2>9, <2>10, <2>11, <2>12, StatementKeeps
<1>2. CASE RepeatTap(t)
  BY <1>2, RefuseKeeps DEF RepeatTap
<1>3. CASE WriteCheckOut(t)
  <2>1. s \in Slots /\ at \in Instants
    BY <1>3 DEF WriteCheckOut, IInv, Stage
  <2>2. ids[t] \in SUBSET Slots /\ \A k \in ids[t] : att[k] \in Row /\ RowOK(att[k])
    BY DEF IInv, TypeOK, IdsExist, RowsOK, Exists
  <2>3. DEFINE f == [k \in ids[t] |-> Depart(att[k], at)]
  <2>4. Put(t, ids[t], f) /\ Free(t, ids[t]) /\ \A k \in ids[t] : Writable(f[k])
    BY <1>3, <2>1, <2>2, DepartWritable DEF WriteCheckOut
  <2>5. /\ buf' \in [Txns -> [Slots -> Row \cup {NoRow, Clean}]]
        /\ LocksHeldOnce'
        /\ \A u \in Txns, k \in Slots : buf'[u][k] \notin {Clean, NoRow} => RowOK(buf'[u][k])
        /\ \A u \in Txns \ {t} : buf'[u] = buf[u]
    BY <2>2, <2>4, PutKeeps
  <2>6. {AuditRow("check_out", s, at)} \in SUBSET AuditRows
    BY <2>1 DEF AuditRow, AuditRows
  <2>7. /\ log' \in [Txns -> SUBSET AuditRows]
        /\ \A r \in log'[t] : r.event # "check_in"
        /\ \A u \in Txns \ {t} : log'[u] = log[u]
    BY <1>3, <2>6 DEF WriteCheckOut, IInv, TypeOK, AuditRow
  <2>8. UNCHANGED <<op, radd, rdel, tables, ids, poisoned>>
    BY <1>3 DEF WriteCheckOut
  <2>9. pc[t] = "write" /\ pc' = [pc EXCEPT ![t] = "commit"] /\ reply' = Quiet
        /\ op[t].kind = "check_out"
    BY <1>3 DEF WriteCheckOut
  <2>10. QED
    BY <2>5, <2>7, <2>8, <2>9, StatementKeeps DEF IInv, TypeOK
<1>4. QED
  BY <1>1, <1>2, <1>3

\* Two facts every statement that is not a check-in needs of the audit rows.
LEMMA NoArrivalLogged ==
  ASSUME IInv, NEW t \in Txns, pc[t] # "commit"
  PROVE  /\ log \in [Txns -> SUBSET AuditRows]
         /\ \A r \in log[t] : r.event # "check_in"
BY DEF IInv, TypeOK, OnlyCheckInLogsArrival

\* Noting which handler a transaction runs keeps the requests' type.
LEMMA KindNoted ==
  ASSUME op \in [Txns -> Opcode], NEW t \in Txns, NEW kind \in Kinds,
         op' = [op EXCEPT ![t].kind = kind]
  PROVE  /\ op' \in [Txns -> Opcode]
         /\ \A u \in Txns \ {t} : op'[u] = op[u]
         /\ op'[t].kind = kind
<1>1. op[t] \in Opcode
  OBVIOUS
<1>2. op'[t] = [op[t] EXCEPT !.kind = kind]
  OBVIOUS
<1>3. op'[t] \in Opcode /\ op'[t].kind = kind
  BY <1>1, <1>2 DEF Opcode
<1>4. QED
  BY <1>3

\* The admin's manual edit and clear.
LEMMA ManualKeeps ==
  ASSUME IInv, NEW t \in Txns, WriteManual(t) \/ ManualClear(t)
  PROVE  IInv'
<1>1. CASE WriteManual(t)
  <2> DEFINE s == op[t].slot
             f == [k \in {s} |-> ManualRow(att[s], op[t].status, op[t].at)]
  <2>1. s \in Slots /\ op[t].at \in Instants /\ op[t].status \in Statuses \cup {"omitted"}
    BY <1>1 DEF WriteManual, IInv, Stage, TypeOK, Opcode
  <2>2. att[s] \in Row \cup {NoRow} /\ (att[s] # NoRow => RowOK(att[s]))
    BY <2>1 DEF IInv, TypeOK, RowsOK, Exists
  <2>3. Put(t, {s}, f) /\ Free(t, {s}) /\ \A k \in {s} : Writable(f[k])
    BY <1>1, <2>1, <2>2, ManualWritable DEF WriteManual
  <2>4. /\ buf' \in [Txns -> [Slots -> Row \cup {NoRow, Clean}]]
        /\ LocksHeldOnce'
        /\ \A u \in Txns, k \in Slots : buf'[u][k] \notin {Clean, NoRow} => RowOK(buf'[u][k])
        /\ \A u \in Txns \ {t} : buf'[u] = buf[u]
    BY <2>1, <2>3, PutKeeps
  <2>5. UNCHANGED <<op, radd, rdel, log, tables, ids, poisoned>> /\ reply' = Quiet
    BY <1>1 DEF WriteManual
  <2>6. pc[t] = "write" /\ pc' = [pc EXCEPT ![t] = "commit"] /\ op[t].kind = "manual_set"
    BY <1>1 DEF WriteManual
  <2>7. QED
    BY <2>4, <2>5, <2>6, NoArrivalLogged, StatementKeeps DEF IInv, TypeOK
<1>2. CASE ManualClear(t)
  <2>1. PICK gone \in SUBSET Slots : Free(t, gone) /\ Put(t, gone, [k \in gone |-> NoRow])
    BY <1>2 DEF ManualClear, RowsOn, SlotsOn
  <2>2. /\ buf' \in [Txns -> [Slots -> Row \cup {NoRow, Clean}]]
        /\ LocksHeldOnce'
        /\ \A u \in Txns, k \in Slots : buf'[u][k] \notin {Clean, NoRow} => RowOK(buf'[u][k])
        /\ \A u \in Txns \ {t} : buf'[u] = buf[u]
    BY <2>1, PutKeeps DEF Writable
  <2>3. /\ op' \in [Txns -> Opcode]
        /\ \A u \in Txns \ {t} : op'[u] = op[u]
        /\ op'[t].kind = "manual_clear"
    BY <1>2, KindNoted DEF ManualClear, IInv, TypeOK, Kinds
  <2>4. UNCHANGED <<radd, rdel, log, tables, ids, poisoned>> /\ reply' = Quiet
    BY <1>2 DEF ManualClear
  <2>5. pc[t] = "idle" /\ pc' = [pc EXCEPT ![t] = "commit"]
    BY <1>2 DEF ManualClear, Begin
  <2>6. QED
    BY <2>2, <2>3, <2>4, <2>5, NoArrivalLogged, StatementKeeps DEF IInv, TypeOK
<1>3. QED
  BY <1>1, <1>2

\* The import's line by line work.
LEMMA ImportKeeps ==
  ASSUME IInv, NEW t \in Txns, ImportLine(t) \/ WriteImport(t) \/ EndImport(t)
  PROVE  IInv'
<1>1. CASE ImportLine(t)
  <2>1. PICK s \in op[t].todo :
          /\ op' = [op EXCEPT ![t].todo = @ \ {s},
                              ![t].slot = IF s \in roster THEN s ELSE NoSlot]
          /\ pc' = [pc EXCEPT ![t] = IF s \in roster THEN "write" ELSE "next"]
    BY <1>1 DEF ImportLine
  <2>2. op[t] \in Opcode /\ op[t].kind = "import" /\ pc[t] = "next"
    BY <1>1 DEF ImportLine, IInv, TypeOK, Stage
  <2>3. s \in Slots
    BY <2>1, <2>2 DEF Opcode
  <2>4. op'[t] = [op[t] EXCEPT !.todo = @ \ {s}, !.slot = IF s \in roster THEN s ELSE NoSlot]
    BY <2>1 DEF IInv, TypeOK
  <2>5. /\ op'[t] \in Opcode
        /\ op'[t].kind = "import"
        /\ op'[t].slot = IF s \in roster THEN s ELSE NoSlot
    BY <2>2, <2>3, <2>4 DEF Opcode
  <2>6. op' \in [Txns -> Opcode] /\ \A u \in Txns \ {t} : op'[u] = op[u]
    BY <2>1, <2>5 DEF IInv, TypeOK
  <2>7. UNCHANGED <<tables, ids, buf, radd, rdel, log, poisoned>> /\ reply' = Quiet
    BY <1>1 DEF ImportLine, work
  <2>8. LocksHeldOnce' /\ \A u \in Txns, k \in Slots : buf'[u][k] \notin {Clean, NoRow} => RowOK(buf'[u][k])
    BY <2>7 DEF IInv, LocksHeldOnce, RowsOK
  <2>9. CASE s \in roster
    <3>1. pc' = [pc EXCEPT ![t] = "write"] /\ op'[t].slot = s
      BY <2>1, <2>5, <2>9
    <3>2. QED
      BY <2>2, <2>3, <2>5, <2>6, <2>7, <2>8, <3>1, NoArrivalLogged, StatementKeeps
         DEF IInv, TypeOK
  <2>10. CASE s \notin roster
    <3>1. pc' = [pc EXCEPT ![t] = "next"]
      BY <2>1, <2>10
    <3>2. QED
      BY <2>2, <2>5, <2>6, <2>7, <2>8, <3>1, NoArrivalLogged, StatementKeeps
         DEF IInv, TypeOK
  <2>11. QED
    BY <2>9, <2>10
<1>2. CASE WriteImport(t)
  <2> DEFINE s == op[t].slot
  <2>1. s \in Slots /\ op[t].kind = "import" /\ pc[t] = "write"
    BY <1>2 DEF WriteImport, IInv, Stage
  <2>2. PICK ci \in Instants \cup {Never}, co \in Instants \cup {Never} :
          Put(t, {s}, [k \in {s} |-> ImportedRow(ci, co)])
    BY <1>2 DEF WriteImport
  <2>3. Free(t, {s}) /\ Writable(ImportedRow(ci, co))
    BY <1>2, ImportedWritable DEF WriteImport
  <2>4. /\ buf' \in [Txns -> [Slots -> Row \cup {NoRow, Clean}]]
        /\ LocksHeldOnce'
        /\ \A u \in Txns, k \in Slots : buf'[u][k] \notin {Clean, NoRow} => RowOK(buf'[u][k])
        /\ \A u \in Txns \ {t} : buf'[u] = buf[u]
    BY <2>1, <2>2, <2>3, PutKeeps
  <2>5. UNCHANGED <<op, radd, rdel, log, tables, ids, poisoned>> /\ reply' = Quiet
        /\ pc' = [pc EXCEPT ![t] = "next"]
    BY <1>2 DEF WriteImport
  <2>6. QED
    BY <2>1, <2>4, <2>5, NoArrivalLogged, StatementKeeps DEF IInv, TypeOK
<1>3. CASE EndImport(t)
  <2>1. pc[t] = "next" /\ op[t].kind = "import"
    BY <1>3 DEF EndImport, IInv, Stage
  <2>2. /\ log' \in [Txns -> SUBSET AuditRows]
        /\ \A r \in log'[t] : r.event # "check_in"
        /\ \A u \in Txns \ {t} : log'[u] = log[u]
    BY <1>3 DEF EndImport, IInv, TypeOK, AuditRow, AuditRows, Never
  <2>3. UNCHANGED <<op, buf, radd, rdel, tables, ids, poisoned>> /\ reply' = Quiet
        /\ pc' = [pc EXCEPT ![t] = "commit"]
    BY <1>3 DEF EndImport
  <2>4. LocksHeldOnce' /\ \A u \in Txns, k \in Slots : buf'[u][k] \notin {Clean, NoRow} => RowOK(buf'[u][k])
    BY <2>3 DEF IInv, LocksHeldOnce, RowsOK
  <2>5. QED
    BY <2>1, <2>2, <2>3, <2>4, StatementKeeps DEF IInv, TypeOK
<1>4. QED
  BY <1>1, <1>2, <1>3

\* The roster's writes: days added, a day and its attendance deleted, the bulk.
LEMMA RosterKeeps ==
  ASSUME IInv, NEW t \in Txns,
         \/ AddRosterDays(t) \/ DeleteRosterDay(t)
         \/ DeleteItsAttendance(t) \/ BulkRoster(t)
  PROVE  IInv'
<1>1. roster \subseteq Rosterable /\ Rosterable \subseteq Slots
  BY DEF IInv, TypeOK, Rosterable
<1>2. CASE AddRosterDays(t)
  <2>1. PICK days \in SUBSET Rosterable : radd' = [radd EXCEPT ![t] = days \ roster]
    BY <1>2 DEF AddRosterDays
  <2>2. radd' \in [Txns -> SUBSET Rosterable]
    BY <2>1 DEF IInv, TypeOK
  <2>3. /\ op' \in [Txns -> Opcode]
        /\ \A u \in Txns \ {t} : op'[u] = op[u]
        /\ op'[t].kind = "roster_add"
    BY <1>2, KindNoted DEF AddRosterDays, IInv, TypeOK, Kinds
  <2>4. UNCHANGED <<tables, ids, buf, rdel, log, poisoned>> /\ reply' = Quiet
        /\ pc[t] = "idle" /\ pc' = [pc EXCEPT ![t] = "commit"]
    BY <1>2 DEF AddRosterDays, Begin
  <2>5. LocksHeldOnce' /\ \A u \in Txns, k \in Slots : buf'[u][k] \notin {Clean, NoRow} => RowOK(buf'[u][k])
    BY <2>4 DEF IInv, LocksHeldOnce, RowsOK
  <2>6. QED
    BY <2>2, <2>3, <2>4, <2>5, NoArrivalLogged, StatementKeeps DEF IInv, TypeOK
<1>3. CASE DeleteRosterDay(t)
  <2>1. PICK s \in Rosterable :
          /\ rdel' = [rdel EXCEPT ![t] = {s} \cap roster]
          /\ op' = [op EXCEPT ![t] = Decided("roster_delete", s, Never)]
    BY <1>3 DEF DeleteRosterDay
  <2>2. rdel' \in [Txns -> SUBSET Rosterable]
    BY <2>1 DEF IInv, TypeOK
  <2>3. /\ op' \in [Txns -> Opcode]
        /\ \A u \in Txns \ {t} : op'[u] = op[u]
        /\ op'[t].kind = "roster_delete" /\ op'[t].slot \in Slots
    BY <1>1, <2>1, DecidedType DEF IInv, TypeOK, Kinds
  <2>4. UNCHANGED <<tables, ids, buf, radd, log, poisoned>> /\ reply' = Quiet
        /\ pc[t] = "idle" /\ pc' = [pc EXCEPT ![t] = "write"]
    BY <1>3 DEF DeleteRosterDay, Begin
  <2>5. LocksHeldOnce' /\ \A u \in Txns, k \in Slots : buf'[u][k] \notin {Clean, NoRow} => RowOK(buf'[u][k])
    BY <2>4 DEF IInv, LocksHeldOnce, RowsOK
  <2>6. QED
    BY <2>2, <2>3, <2>4, <2>5, NoArrivalLogged, StatementKeeps DEF IInv, TypeOK
<1>4. CASE DeleteItsAttendance(t)
  <2> DEFINE gone == {s \in {op[t].slot} : Exists(s)}
  <2>1. /\ op[t].kind = "roster_delete" /\ pc[t] = "write"
        /\ Free(t, gone) /\ Put(t, gone, [k \in gone |-> NoRow])
    BY <1>4 DEF DeleteItsAttendance
  <2>2. op[t].slot \in Slots
    BY <2>1 DEF IInv, Stage
  <2>3. /\ buf' \in [Txns -> [Slots -> Row \cup {NoRow, Clean}]]
        /\ LocksHeldOnce'
        /\ \A u \in Txns, k \in Slots : buf'[u][k] \notin {Clean, NoRow} => RowOK(buf'[u][k])
        /\ \A u \in Txns \ {t} : buf'[u] = buf[u]
    BY <2>1, <2>2, PutKeeps DEF Writable
  <2>4. UNCHANGED <<op, radd, rdel, log, tables, ids, poisoned>> /\ reply' = Quiet
        /\ pc' = [pc EXCEPT ![t] = "commit"]
    BY <1>4 DEF DeleteItsAttendance
  <2>5. QED
    BY <2>1, <2>3, <2>4, NoArrivalLogged, StatementKeeps DEF IInv, TypeOK
<1>5. CASE BulkRoster(t)
  <2>1. \A reach \in SUBSET Rosterable, mode \in {"add", "remove", "replace"}, sh \in Shifts :
          /\ BulkRemoves(mode, sh, reach) \in SUBSET Rosterable
          /\ BulkInserts(mode, sh, reach) \in SUBSET Rosterable
    BY DEF BulkRemoves, BulkInserts
  <2>2. PICK del \in SUBSET Rosterable, ins \in SUBSET Rosterable : BulkStatement(t, del, ins)
    <3>1. PICK who \in SUBSET Members, days \in SUBSET Dates,
               mode \in {"add", "remove", "replace"}, sh \in Shifts :
            LET reach == {s \in Rosterable : s.member \in who /\ s.day \in days}
            IN BulkStatement(t, BulkRemoves(mode, sh, reach), BulkInserts(mode, sh, reach))
      BY <1>5 DEF BulkRoster
    <3>2. {s \in Rosterable : s.member \in who /\ s.day \in days} \in SUBSET Rosterable
      OBVIOUS
    <3>3. QED
      BY <2>1, <3>1, <3>2
  <2> DEFINE gone == {s \in del : Exists(s)}
  <2>3. /\ rdel' \in [Txns -> SUBSET Rosterable]
        /\ radd' \in [Txns -> SUBSET Rosterable]
    BY <2>2 DEF BulkStatement, IInv, TypeOK
  <2>4. gone \in SUBSET Slots /\ Free(t, gone) /\ Put(t, gone, [k \in gone |-> NoRow])
    BY <1>1, <2>2 DEF BulkStatement
  <2>5. /\ buf' \in [Txns -> [Slots -> Row \cup {NoRow, Clean}]]
        /\ LocksHeldOnce'
        /\ \A u \in Txns, k \in Slots : buf'[u][k] \notin {Clean, NoRow} => RowOK(buf'[u][k])
        /\ \A u \in Txns \ {t} : buf'[u] = buf[u]
    BY <2>4, PutKeeps DEF Writable
  <2>6. /\ op' \in [Txns -> Opcode]
        /\ \A u \in Txns \ {t} : op'[u] = op[u]
        /\ op'[t].kind = "roster_bulk"
    BY <1>5, KindNoted DEF BulkRoster, IInv, TypeOK, Kinds
  <2>7. UNCHANGED <<log, tables, ids, poisoned>> /\ reply' = Quiet
        /\ pc[t] = "idle" /\ pc' = [pc EXCEPT ![t] = "commit"]
    BY <1>5 DEF BulkRoster, Begin
  <2>8. QED
    BY <2>3, <2>5, <2>6, <2>7, NoArrivalLogged, StatementKeeps DEF IInv, TypeOK
<1>6. QED
  BY <1>2, <1>3, <1>4, <1>5

\* Marking rows left_work, by a presence check or by the job.
LEMMA LeftWorkKeeps ==
  ASSUME IInv, NEW t \in Txns, ResolveLeftWork(t) \/ WriteSweep(t)
  PROVE  IInv'
<1>1. CASE ResolveLeftWork(t)
  <2>1. PICK rows \in SUBSET {s \in Slots : Exists(s)} :
          Free(t, rows) /\ Put(t, rows, [k \in rows |-> MarkLeft(att[k])])
    BY <1>1 DEF ResolveLeftWork
  <2>2. \A k \in rows : Writable(MarkLeft(att[k]))
    BY <2>1, MarkLeftWritable DEF IInv, TypeOK, RowsOK, Exists
  <2>3. /\ buf' \in [Txns -> [Slots -> Row \cup {NoRow, Clean}]]
        /\ LocksHeldOnce'
        /\ \A u \in Txns, k \in Slots : buf'[u][k] \notin {Clean, NoRow} => RowOK(buf'[u][k])
        /\ \A u \in Txns \ {t} : buf'[u] = buf[u]
    BY <2>1, <2>2, PutKeeps
  <2>4. /\ op' \in [Txns -> Opcode]
        /\ \A u \in Txns \ {t} : op'[u] = op[u]
        /\ op'[t].kind = "resolve"
    BY <1>1, KindNoted DEF ResolveLeftWork, IInv, TypeOK, Kinds
  <2>5. UNCHANGED <<radd, rdel, log, tables, ids, poisoned>> /\ reply' = Quiet
        /\ pc[t] = "idle" /\ pc' = [pc EXCEPT ![t] = "commit"]
    BY <1>1 DEF ResolveLeftWork, Begin
  <2>6. QED
    BY <2>3, <2>4, <2>5, NoArrivalLogged, StatementKeeps DEF IInv, TypeOK
<1>2. CASE WriteSweep(t)
  <2>1. ids[t] \in SUBSET Slots /\ \A k \in ids[t] : att[k] \in Row /\ RowOK(att[k])
    BY DEF IInv, TypeOK, IdsExist, RowsOK, Exists
  <2>2. /\ Free(t, ids[t]) /\ Put(t, ids[t], [k \in ids[t] |-> MarkLeft(att[k])])
        /\ \A k \in ids[t] : Writable(MarkLeft(att[k]))
    BY <1>2, <2>1, MarkLeftWritable DEF WriteSweep
  <2>3. /\ buf' \in [Txns -> [Slots -> Row \cup {NoRow, Clean}]]
        /\ LocksHeldOnce'
        /\ \A u \in Txns, k \in Slots : buf'[u][k] \notin {Clean, NoRow} => RowOK(buf'[u][k])
        /\ \A u \in Txns \ {t} : buf'[u] = buf[u]
    BY <2>1, <2>2, PutKeeps
  <2>4. UNCHANGED <<op, radd, rdel, log, tables, ids, poisoned>> /\ reply' = Quiet
        /\ op[t].kind = "sweep" /\ pc[t] = "write" /\ pc' = [pc EXCEPT ![t] = "commit"]
    BY <1>2 DEF WriteSweep
  <2>5. QED
    BY <2>3, <2>4, NoArrivalLogged, StatementKeeps DEF IInv, TypeOK
<1>3. QED
  BY <1>1, <1>2

\* What a transaction answers with success is of its type.
LEMMA AnswerType ==
  ASSUME IInv, NEW t \in Txns
  PROVE  Answer(t) \in Replies
BY DEF Answer, IInv, TypeOK, Opcode, Replies

\* Rows and roster as a commit leaves them.
LEMMA CommitKeeps ==
  ASSUME IInv, NEW t \in Txns, Commit(t)
  PROVE  IInv'
<1>1. /\ pc' = [pc EXCEPT ![t] = "idle"]
      /\ op' = [op EXCEPT ![t] = NoOp]
      /\ buf' = [buf EXCEPT ![t] = [s \in Slots |-> Clean]]
      /\ radd' = [radd EXCEPT ![t] = {}]
      /\ rdel' = [rdel EXCEPT ![t] = {}]
      /\ log' = [log EXCEPT ![t] = {}]
      /\ poisoned' = poisoned \ {t}
      /\ reply' = Answer(t)
  BY DEF Commit, Finish
<1>2. /\ att' = [s \in Slots |-> Sees(t, s)]
      /\ roster' = (roster \ rdel[t]) \cup radd[t]
      /\ ids' = [u \in Txns |-> IF u = t THEN {} ELSE {s \in ids[u] : buf[t][s] # NoRow}]
  BY DEF Commit
<1>3. \A s \in Slots : Sees(t, s) \in Row \cup {NoRow} /\ (Sees(t, s) # NoRow => RowOK(Sees(t, s)))
  BY DEF Sees, IInv, TypeOK, RowsOK, Exists
<1>4. TypeOK'
  <2>1. att' \in [Slots -> Row \cup {NoRow}] /\ roster' \in SUBSET Rosterable
    BY <1>2, <1>3 DEF IInv, TypeOK
  <2>2. ids' \in [Txns -> SUBSET Slots] /\ poisoned' \in SUBSET Txns
    BY <1>1, <1>2 DEF IInv, TypeOK
  <2>3. NoOp \in Opcode
    BY DEF NoOp, Opcode, Kinds, Never
  <2>4. /\ pc' \in [Txns -> {"idle", "next", "write", "commit"}]
        /\ op' \in [Txns -> Opcode]
        /\ buf' \in [Txns -> [Slots -> Row \cup {NoRow, Clean}]]
        /\ radd' \in [Txns -> SUBSET Rosterable]
        /\ rdel' \in [Txns -> SUBSET Rosterable]
        /\ log' \in [Txns -> SUBSET AuditRows]
    BY <1>1, <2>3 DEF IInv, TypeOK
  <2>5. reply' \in Replies
    BY <1>1, AnswerType
  <2>6. QED
    BY <2>1, <2>2, <2>4, <2>5 DEF TypeOK
<1>5. /\ pc'[t] = "idle" /\ op'[t].kind = "none" /\ log'[t] = {}
      /\ \A s \in Slots : buf'[t][s] = Clean
      /\ \A u \in Txns \ {t} : /\ pc'[u] = pc[u] /\ op'[u] = op[u]
                              /\ buf'[u] = buf[u] /\ log'[u] = log[u]
  BY <1>1 DEF IInv, TypeOK, NoOp
<1>6. LocksHeldOnce'
  BY <1>5 DEF IInv, LocksHeldOnce
<1>7. Stage'
  BY <1>5 DEF IInv, Stage
<1>8. IdsExist'
  BY <1>2 DEF IInv, TypeOK, IdsExist, Exists, Sees
<1>9. CheckInHoldsSlot'
  <2> SUFFICES ASSUME NEW u \in Txns, pc'[u] = "commit", op'[u].kind = "check_in"
               PROVE  /\ op'[u].slot \in Slots
                      /\ ~(att'[op'[u].slot] # NoRow /\ att'[op'[u].slot].ci # Never)
                      /\ buf'[u][op'[u].slot] = Arrive(att'[op'[u].slot], op'[u].at)
                      /\ log'[u] \subseteq {AuditRow("check_in", op'[u].slot, op'[u].at)}
                      /\ \A s \in Slots \ {op'[u].slot} : buf'[u][s] = Clean
    BY DEF CheckInHoldsSlot, Arrived, Exists
  <2>1. u # t /\ u \in Txns \ {t}
    BY <1>5
  <2>2. /\ pc[u] = "commit" /\ op[u].kind = "check_in"
        /\ op'[u] = op[u] /\ buf'[u] = buf[u] /\ log'[u] = log[u]
    BY <1>5, <2>1
  <2>3. /\ op[u].slot \in Slots
        /\ ~Arrived(op[u].slot)
        /\ buf[u][op[u].slot] = Arrive(att[op[u].slot], op[u].at)
        /\ log[u] \subseteq {AuditRow("check_in", op[u].slot, op[u].at)}
        /\ \A s \in Slots \ {op[u].slot} : buf[u][s] = Clean
    BY <2>2 DEF IInv, CheckInHoldsSlot
  <2>4. Arrive(att[op[u].slot], op[u].at) # Clean
    <3>1. op[u].at \in Instants \cup {Never}
      BY DEF IInv, TypeOK, Opcode
    <3>2. att[op[u].slot] \in Row \cup {NoRow}
      BY <2>3 DEF IInv, TypeOK
    <3>3. Arrive(att[op[u].slot], op[u].at) \in Row
      BY <3>1, <3>2 DEF Arrive, OrBlank, Blank, Row, Statuses, Departures, Never
    <3>4. QED
      BY <3>3, MarkersAssumption
  <2>5. buf[t][op[u].slot] = Clean
    BY <2>1, <2>3, <2>4 DEF IInv, LocksHeldOnce
  <2>6. att'[op[u].slot] = att[op[u].slot]
    BY <1>2, <2>3, <2>5 DEF Sees
  <2>7. QED
    BY <2>2, <2>3, <2>6 DEF Arrived, Exists
<1>10. OnlyCheckInLogsArrival'
  BY <1>5 DEF IInv, OnlyCheckInLogsArrival
<1>11. RowsOK'
  BY <1>2, <1>3, <1>5 DEF IInv, RowsOK, Exists
<1>12. QED
  BY <1>4, <1>6, <1>7, <1>8, <1>9, <1>10, <1>11 DEF IInv

\* The other ends: a poisoned commit, a failed audit insert, a crash, a deadlock.
LEMMA EndKeeps ==
  ASSUME IInv, NEW t \in Txns,
         CommitPoisoned(t) \/ AuditFails(t) \/ Abort(t) \/ KillDeadlocked(t)
  PROVE  IInv'
<1>1. CASE CommitPoisoned(t)
  BY <1>1, AnswerType, RollbackKeeps DEF CommitPoisoned
<1>2. CASE AuditFails(t)
  <2>1. UNCHANGED <<att, roster, pc, op, ids, buf, radd, rdel, log>> /\ reply' = Quiet
        /\ poisoned' = poisoned \cup {t}
    BY <1>2 DEF AuditFails, tables
  <2>2. TypeOK'
    BY <2>1 DEF IInv, TypeOK, Quiet, Replies, Kinds, Never
  <2>3. QED
    BY <2>1, <2>2 DEF IInv, LocksHeldOnce, Stage, IdsExist, CheckInHoldsSlot,
                      OnlyCheckInLogsArrival, RowsOK, Exists, Arrived
<1>3. CASE Abort(t)
  <2>1. Quiet \in Replies
    BY DEF Quiet, Replies, Kinds, Never
  <2>2. QED
    BY <1>3, <2>1, RollbackKeeps DEF Abort
<1>4. CASE KillDeadlocked(t)
  BY <1>4, RefuseKeeps DEF KillDeadlocked
<1>5. QED
  BY <1>1, <1>2, <1>3, <1>4

\* A refused check-in or check-out.
LEMMA RefuseRecordKeeps ==
  ASSUME IInv, NEW t \in Txns, RefuseRecord(t)
  PROVE  IInv'
<1>1. {AuditRow("refusal", NoSlot, Never)} \in SUBSET AuditRows
  BY DEF AuditRow, AuditRows
<1>2. QED
  BY <1>1, RefuseKeeps DEF RefuseRecord

\* Every step of the specification keeps the invariant.
LEMMA NextKeeps == IInv /\ [Next]_vars => IInv'
<1> SUFFICES ASSUME IInv, [Next]_vars PROVE IInv'
  OBVIOUS
<1>1. CASE UNCHANGED vars
  <2>1. UNCHANGED <<att, roster, pc, op, ids, buf, radd, rdel, log, poisoned, reply>>
    BY <1>1 DEF vars
  <2>2. QED
    BY <2>1 DEF IInv, TypeOK, LocksHeldOnce, Stage, IdsExist, CheckInHoldsSlot,
                OnlyCheckInLogsArrival, RowsOK, Exists, Arrived
<1>2. ASSUME NEW t \in Txns, Start(t) PROVE IInv'
  BY <1>2, BeginKeeps, RefuseRecordKeeps, ManualKeeps, RosterKeeps, LeftWorkKeeps DEF Start
<1>3. ASSUME NEW t \in Txns, Proceed(t) PROVE IInv'
  BY <1>3, RecordKeeps, ManualKeeps, ImportKeeps, RosterKeeps, LeftWorkKeeps, CommitKeeps,
     EndKeeps DEF Proceed
<1>4. ASSUME NEW t \in Txns, Fail(t) PROVE IInv'
  BY <1>4, EndKeeps DEF Fail
<1>5. QED
  BY <1>1, <1>2, <1>3, <1>4 DEF Next

-----------------------------------------------------------------------------
(* The theorems.                                                           *)

\* The inductive invariant is an invariant: in every reachable state each row
\* lock has one holder, an uncommitted check-in holds its slot over a row
\* nobody arrived on, and every row, committed or not, is well formed.
THEOREM Inductive == Spec => []IInv
BY InitIInv, NextKeeps, PTL DEF Spec

\* Every variable keeps its type, for any number of transactions and slots.
THEOREM TypeCorrect == Spec => []TypeOK
<1>1. IInv => TypeOK
  BY DEF IInv
<1>2. QED
  BY <1>1, Inductive, PTL

\* No writer, and no interleaving of writers, leaves a row that says "present"
\* without an arrival: an absent slot is never counted as attended.
THEOREM NoArrivalMeansAbsentAlways == Spec => []NoArrivalMeansAbsent
<1>1. IInv => NoArrivalMeansAbsent
  BY DEF IInv, RowsOK, RowOK, NoArrivalMeansAbsent
<1>2. QED
  BY <1>1, Inductive, PTL

\* The departure's time and its status agree in every committed row.
THEOREM DepartureIsDescribedAlways == Spec => []DepartureIsDescribed
<1>1. IInv => DepartureIsDescribed
  BY DEF IInv, RowsOK, RowOK, DepartureIsDescribed
<1>2. QED
  BY <1>1, Inductive, PTL

\* Only a commit answers with success or keeps audit rows.
LEMMA OnlyCommitsAnswer ==
  ASSUME Next, reply'.ok \/ reply'.kept # {}
  PROVE  \E t \in Txns : Commit(t) \/ CommitPoisoned(t)
<1>1. PICK t \in Txns : Start(t) \/ Proceed(t) \/ Fail(t)
  BY DEF Next
<1>2. ~(reply' = Quiet)
  BY DEF Quiet
<1>3. \A events : ~Refuse(t, events)
  BY DEF Refuse, Finish, Quiet
<1>4. ~Start(t)
  <2>1. \A o, rows, next : ~Decide(t, o, rows, next)
    BY <1>2 DEF Decide
  <2>2. /\ ~BeginCheckIn(t) /\ ~BeginCheckOut(t) /\ ~BeginManualSet(t)
        /\ ~BeginImport(t) /\ ~BeginSweep(t)
    BY <2>1 DEF BeginCheckIn, BeginCheckOut, BeginManualSet, BeginImport, BeginSweep
  <2>3. /\ ~RefuseRecord(t) /\ ~ManualClear(t) /\ ~AddRosterDays(t)
        /\ ~DeleteRosterDay(t) /\ ~BulkRoster(t) /\ ~ResolveLeftWork(t)
    BY <1>2, <1>3 DEF RefuseRecord, ManualClear, AddRosterDays, DeleteRosterDay,
                      BulkRoster, ResolveLeftWork
  <2>4. QED
    BY <2>2, <2>3 DEF Start
<1>5. Proceed(t) => Commit(t) \/ CommitPoisoned(t)
  BY <1>2, <1>3 DEF Proceed, WriteCheckIn, RepeatTap, WriteCheckOut, WriteManual, ImportLine,
                    WriteImport, EndImport, DeleteItsAttendance, WriteSweep, KillDeadlocked
<1>6. ~Fail(t)
  BY <1>2 DEF Fail, AuditFails, Abort, Finish
<1>7. QED
  BY <1>1, <1>4, <1>5, <1>6

\* A commit of a check-in changes the row it decided on and no other, and that
\* row had no arrival.
LEMMA CheckInCommit ==
  ASSUME IInv, NEW t \in Txns, Commit(t), op[t].kind = "check_in"
  PROVE  /\ op[t].slot \in Slots
         /\ ~Arrived(op[t].slot)
         /\ att'[op[t].slot] = Arrive(att[op[t].slot], op[t].at)
         /\ \A s \in Slots \ {op[t].slot} : att'[s] = att[s]
<1>1. pc[t] = "commit" /\ att' = [s \in Slots |-> Sees(t, s)]
  BY DEF Commit
<1>2. /\ op[t].slot \in Slots
      /\ ~Arrived(op[t].slot)
      /\ buf[t][op[t].slot] = Arrive(att[op[t].slot], op[t].at)
      /\ \A s \in Slots \ {op[t].slot} : buf[t][s] = Clean
  BY <1>1 DEF IInv, CheckInHoldsSlot
<1>3. \A s \in Slots \ {op[t].slot} : att'[s] = att[s]
  BY <1>1, <1>2 DEF Sees
<1>4. Arrive(att[op[t].slot], op[t].at) # Clean
  <2>1. att[op[t].slot] \in Row \cup {NoRow} /\ op[t].at \in Instants \cup {Never}
    BY <1>2 DEF IInv, TypeOK, Opcode
  <2>2. Arrive(att[op[t].slot], op[t].at) \in Row
    BY <2>1 DEF Arrive, OrBlank, Blank, Row, Statuses, Departures, Never
  <2>3. QED
    BY <2>2, MarkersAssumption
<1>5. att'[op[t].slot] = Arrive(att[op[t].slot], op[t].at)
  BY <1>1, <1>2, <1>4 DEF Sees
<1>6. QED
  BY <1>2, <1>3, <1>5

\* writeCheckIn is first-wins under any interleaving: an accepted check-in never
\* changes a row somebody already arrived on.
THEOREM FirstArrivalAlwaysStands == Spec => FirstArrivalStands
<1> DEFINE Stands == Answers("check_in") => \A s \in Slots : Arrived(s) => att'[s] = att[s]
<1>1. IInv /\ [Next]_vars => [Stands]_vars
  <2> SUFFICES ASSUME IInv, Next, Answers("check_in"), NEW s \in Slots, Arrived(s)
               PROVE  att'[s] = att[s]
    BY DEF vars
  <2>1. PICK t \in Txns : Commit(t) \/ CommitPoisoned(t)
    BY OnlyCommitsAnswer DEF Answers
  <2>2. op[t].kind = "check_in"
    BY <2>1 DEF Answers, Commit, CommitPoisoned, Finish, Answer
  <2>3. CASE Commit(t)
    BY <2>2, <2>3, CheckInCommit
  <2>4. CASE CommitPoisoned(t)
    BY <2>4 DEF CommitPoisoned, tables
  <2>5. QED
    BY <2>1, <2>3, <2>4
<1>2. QED
  BY <1>1, Inductive, PTL DEF Spec, FirstArrivalStands

\* A CHECK_IN row of the audit log is the record of an arrival: the commit that
\* keeps it sets check_in_at, to the instant it names, on a slot without one.
THEOREM AuditedArrivalIsAlwaysReal == Spec => AuditedArrivalIsReal
<1> DEFINE Real == \A s \in Slots, at \in Instants :
                     AuditRow("check_in", s, at) \in reply'.kept =>
                       ~Arrived(s) /\ att'[s] # NoRow /\ att'[s].ci = at
<1>1. IInv /\ [Next]_vars => [Real]_vars
  <2> SUFFICES ASSUME IInv, Next, NEW s \in Slots, NEW at \in Instants,
                      AuditRow("check_in", s, at) \in reply'.kept
               PROVE  ~Arrived(s) /\ att'[s] # NoRow /\ att'[s].ci = at
    BY DEF vars
  <2>1. PICK t \in Txns : Commit(t) \/ CommitPoisoned(t)
    BY OnlyCommitsAnswer
  <2>2. Commit(t) /\ AuditRow("check_in", s, at) \in log[t]
    BY <2>1 DEF Commit, CommitPoisoned, Finish, Answer
  <2>3. op[t].kind = "check_in" /\ pc[t] = "commit"
    BY <2>2 DEF IInv, OnlyCheckInLogsArrival, AuditRow
  <2>4. AuditRow("check_in", s, at) = AuditRow("check_in", op[t].slot, op[t].at)
    BY <2>2, <2>3 DEF IInv, CheckInHoldsSlot
  <2>5. op[t].slot = s /\ op[t].at = at
    BY <2>4 DEF AuditRow
  <2>6. att[s] \in Row \cup {NoRow} /\ (att[s] # NoRow => RowOK(att[s]))
    BY DEF IInv, TypeOK, RowsOK, Exists
  <2>7. Arrive(att[s], at) # NoRow /\ Arrive(att[s], at).ci = at
    BY <2>6, ArriveWritable DEF Arrive, OrBlank, Blank, Row
  <2>8. QED
    BY <2>2, <2>3, <2>5, <2>7, CheckInCommit
<1>2. QED
  BY <1>1, Inductive, PTL DEF Spec, AuditedArrivalIsReal

-----------------------------------------------------------------------------
(* Requests that nothing overlaps.                                        *)

\* The operations that delete roster rows.
RosterKinds == {"roster_delete", "roster_bulk"}

\* Only the roster operations delete roster rows, and they write no attendance.
WritesOf(t) ==
  /\ op[t].kind \notin RosterKinds => rdel[t] = {}
  /\ op[t].kind \in RosterKinds => \A s \in Slots : buf[t][s] \in {Clean, NoRow}
  /\ op[t].kind = "roster_delete" => rdel[t] \subseteq {op[t].slot}

\* What a request that nothing overlaps has decided is still what the tables say.
Undisturbed(t) ==
  /\ pc[t] # "idle"
  /\ \A u \in Txns \ {t} : pc[u] = "idle"
  /\ op[t].kind = "check_in" => op[t].slot \in roster
  /\ op[t].kind = "import" /\ pc[t] = "write" => op[t].slot \in roster
  /\ op[t].kind # "manual_set" =>
       \A s \in Slots : buf[t][s] \notin {Clean, NoRow} => Exists(s) \/ s \in roster
  /\ pc[t] = "commit" => \A s \in rdel[t] : Exists(s) => buf[t][s] = NoRow

\* The inductive invariant of the requests that nothing overlaps.
AloneInv ==
  /\ IInv
  /\ alone \in SUBSET Txns
  /\ \A t \in Txns : WritesOf(t)
  /\ \A t \in alone : Undisturbed(t)

\* A step of one transaction leaves what every other one has decided and written.
LEMMA OthersUntouched ==
  ASSUME IInv, NEW t \in Txns, Start(t) \/ Proceed(t) \/ Fail(t), NEW u \in Txns \ {t}
  PROVE  pc'[u] = pc[u] /\ op'[u] = op[u] /\ buf'[u] = buf[u] /\ rdel'[u] = rdel[u]
<1>1. u # t /\ IInv
  OBVIOUS
<1>2. /\ pc \in [Txns -> {"idle", "next", "write", "commit"}] /\ op \in [Txns -> Opcode]
      /\ buf \in [Txns -> [Slots -> Row \cup {NoRow, Clean}]]
      /\ rdel \in [Txns -> SUBSET Rosterable]
  BY DEF IInv, TypeOK
<1>3. CASE Start(t)
  <2>1. CASE BeginCheckIn(t) \/ BeginCheckOut(t) \/ BeginManualSet(t) \/ BeginImport(t) \/ BeginSweep(t)
    BY <1>1, <1>2, <2>1 DEF BeginCheckIn, BeginCheckOut, BeginManualSet, BeginImport, BeginSweep,
       Decide, work
  <2>2. CASE RefuseRecord(t)
    BY <1>1, <1>2, <2>2 DEF RefuseRecord, Refuse, Finish
  <2>3. CASE ManualClear(t) \/ AddRosterDays(t) \/ DeleteRosterDay(t) \/ BulkRoster(t) \/ ResolveLeftWork(t)
    BY <1>1, <1>2, <2>3 DEF ManualClear, AddRosterDays, DeleteRosterDay, BulkRoster, BulkStatement,
       ResolveLeftWork, Put
  <2>4. QED
    BY <1>3, <2>1, <2>2, <2>3 DEF Start
<1>4. CASE Proceed(t)
  <2>1. CASE WriteCheckIn(t) \/ WriteCheckOut(t) \/ WriteManual(t) \/ ImportLine(t) \/ WriteImport(t)
             \/ EndImport(t) \/ DeleteItsAttendance(t) \/ WriteSweep(t)
    BY <1>1, <1>2, <2>1 DEF WriteCheckIn, WriteCheckOut, WriteManual, ImportLine, WriteImport, EndImport,
       DeleteItsAttendance, WriteSweep, Put, work
  <2>2. CASE RepeatTap(t) \/ KillDeadlocked(t) \/ Commit(t) \/ CommitPoisoned(t)
    BY <1>1, <1>2, <2>2 DEF RepeatTap, KillDeadlocked, Commit, CommitPoisoned, Refuse, Finish
  <2>3. QED
    BY <1>4, <2>1, <2>2 DEF Proceed
<1>5. CASE Fail(t)
  BY <1>1, <1>2, <1>5 DEF Fail, AuditFails, Abort, Finish
<1>6. QED
  BY <1>3, <1>4, <1>5

\* A step that ends the transaction leaves it nothing to write.
LEMMA EndWritesNothing ==
  ASSUME IInv, NEW t \in Txns, NEW answer, Finish(t, answer)
  PROVE  WritesOf(t)' /\ pc'[t] = "idle"
<1>1. op'[t] = NoOp /\ rdel'[t] = {} /\ pc'[t] = "idle"
  BY DEF Finish, IInv, TypeOK
<1>2. QED
  BY <1>1 DEF WritesOf, RosterKinds, NoOp

\* A request that reads and decides leaves nothing written.
LEMMA DecisionIsOwn ==
  ASSUME IInv, NEW t \in Txns, WritesOf(t), pc[t] = "idle", NEW o, NEW rows, NEW next \in {"next", "write"},
         o.kind \notin RosterKinds, Decide(t, o, rows, next)
  PROVE  /\ WritesOf(t)'
         /\ op'[t] = o /\ ids'[t] = rows /\ pc'[t] = next
         /\ att' = att /\ roster' = roster
         /\ \A s \in Slots : buf'[t][s] = Clean
<1>1. /\ op'[t] = o /\ ids'[t] = rows /\ pc'[t] = next
      /\ att' = att /\ roster' = roster /\ buf' = buf /\ rdel' = rdel
  BY DEF Decide, IInv, TypeOK, tables, work
<1>2. op[t].kind = "none" /\ \A s \in Slots : buf[t][s] = Clean
  BY DEF IInv, Stage
<1>3. rdel[t] = {}
  BY <1>2 DEF WritesOf, RosterKinds
<1>4. WritesOf(t)'
  BY <1>1, <1>3 DEF WritesOf, RosterKinds
<1>5. QED
  BY <1>1, <1>2, <1>4

\* A request that only decides has, alone, decided what the tables say.
LEMMA BeginIsOwn ==
  ASSUME IInv, NEW t \in Txns, WritesOf(t),
         BeginCheckIn(t) \/ BeginCheckOut(t) \/ BeginManualSet(t) \/ BeginImport(t) \/ BeginSweep(t)
  PROVE  /\ WritesOf(t)'
         /\ (\A u \in Txns \ {t} : pc'[u] = "idle") => Undisturbed(t)'
<1>1. CASE BeginCheckIn(t)
  <2>1. PICK s \in roster, at \in Instants : Decide(t, Decided("check_in", s, at), {}, "write")
    BY <1>1 DEF BeginCheckIn
  <2>2. /\ Decided("check_in", s, at).kind = "check_in" /\ Decided("check_in", s, at).slot = s
        /\ pc[t] = "idle"
    BY <1>1 DEF Decided, NoOp, BeginCheckIn, Begin
  <2>3. QED
    BY <2>1, <2>2, DecisionIsOwn DEF Undisturbed, RosterKinds
<1>2. CASE BeginCheckOut(t)
  <2>1. PICK s \in Slots, at \in Instants : Decide(t, Decided("check_out", s, at), {s}, "write")
    BY <1>2 DEF BeginCheckOut
  <2>2. Decided("check_out", s, at).kind = "check_out" /\ pc[t] = "idle"
    BY <1>2 DEF Decided, NoOp, BeginCheckOut, Begin
  <2>3. QED
    BY <2>1, <2>2, DecisionIsOwn DEF Undisturbed, RosterKinds
<1>3. CASE BeginManualSet(t)
  <2>1. PICK s, at, status :
          Decide(t, [Decided("manual_set", s, at) EXCEPT !.status = status], {}, "write")
    BY <1>3 DEF BeginManualSet
  <2>2. [Decided("manual_set", s, at) EXCEPT !.status = status].kind = "manual_set" /\ pc[t] = "idle"
    BY <1>3 DEF BeginManualSet, Begin, Decided, NoOp
  <2>3. QED
    BY <2>1, <2>2, DecisionIsOwn DEF Undisturbed, RosterKinds
<1>4. CASE BeginImport(t)
  <2>1. PICK lines : Decide(t, [Decided("import", NoSlot, Never) EXCEPT !.todo = lines], {}, "next")
    BY <1>4 DEF BeginImport
  <2>2. [Decided("import", NoSlot, Never) EXCEPT !.todo = lines].kind = "import" /\ pc[t] = "idle"
    BY <1>4 DEF BeginImport, Begin, Decided, NoOp
  <2>3. QED
    BY <2>1, <2>2, DecisionIsOwn DEF Undisturbed, RosterKinds
<1>5. CASE BeginSweep(t)
  <2>1. PICK rows : Decide(t, Decided("sweep", NoSlot, Never), rows, "write")
    BY <1>5 DEF BeginSweep
  <2>2. Decided("sweep", NoSlot, Never).kind = "sweep" /\ pc[t] = "idle"
    BY <1>5 DEF BeginSweep, Begin, Decided, NoOp
  <2>3. QED
    BY <2>1, <2>2, DecisionIsOwn DEF Undisturbed, RosterKinds
<1>6. QED
  BY <1>1, <1>2, <1>3, <1>4, <1>5

\* The requests whose first statement writes, when nothing overlaps them.
LEMMA FirstStatementIsOwn ==
  ASSUME IInv, NEW t \in Txns, WritesOf(t),
         ManualClear(t) \/ AddRosterDays(t) \/ DeleteRosterDay(t) \/ BulkRoster(t) \/ ResolveLeftWork(t)
  PROVE  /\ WritesOf(t)'
         /\ (\A u \in Txns \ {t} : pc'[u] = "idle") => Undisturbed(t)'
<1>1. /\ pc[t] = "idle" /\ op[t].kind = "none" /\ \A s \in Slots : buf[t][s] = Clean
  BY DEF ManualClear, AddRosterDays, DeleteRosterDay, BulkRoster, ResolveLeftWork, Begin, IInv, Stage
<1>2. rdel[t] = {}
  BY <1>1 DEF WritesOf, RosterKinds
<1>3. /\ buf \in [Txns -> [Slots -> Row \cup {NoRow, Clean}]] /\ op \in [Txns -> Opcode]
      /\ pc \in [Txns -> {"idle", "next", "write", "commit"}] /\ rdel \in [Txns -> SUBSET Rosterable]
      /\ Rosterable \subseteq Slots /\ roster \subseteq Slots
  BY DEF IInv, TypeOK, Rosterable
<1>4. /\ att' = att /\ roster' = roster
  BY DEF ManualClear, AddRosterDays, DeleteRosterDay, BulkRoster, ResolveLeftWork, tables
<1>5. CASE ManualClear(t)
  <2>1. PICK gone \in SUBSET Slots : Put(t, gone, [k \in gone |-> NoRow])
    BY <1>5 DEF ManualClear, RowsOn, SlotsOn
  <2>2. /\ op'[t].kind = "manual_clear" /\ pc'[t] = "commit" /\ rdel'[t] = {}
        /\ \A s \in Slots : buf'[t][s] \in {Clean, NoRow}
    BY <1>1, <1>2, <1>3, <1>5, <2>1 DEF ManualClear, Put, Opcode
  <2>3. QED
    BY <1>4, <2>2 DEF WritesOf, Undisturbed, RosterKinds
<1>6. CASE AddRosterDays(t)
  <2>1. /\ op'[t].kind = "roster_add" /\ pc'[t] = "commit" /\ rdel'[t] = {}
        /\ \A s \in Slots : buf'[t][s] = Clean
    BY <1>1, <1>2, <1>3, <1>6 DEF AddRosterDays, Opcode
  <2>2. QED
    BY <1>4, <2>1 DEF WritesOf, Undisturbed, RosterKinds
<1>7. CASE DeleteRosterDay(t)
  <2>1. PICK s \in Rosterable : /\ rdel'[t] = {s} \cap roster
                               /\ op'[t] = Decided("roster_delete", s, Never)
    BY <1>3, <1>7 DEF DeleteRosterDay
  <2>2. op'[t].kind = "roster_delete" /\ op'[t].slot = s
    BY <2>1 DEF Decided, NoOp
  <2>3. pc'[t] = "write" /\ \A k \in Slots : buf'[t][k] = Clean
    BY <1>1, <1>3, <1>7 DEF DeleteRosterDay
  <2>4. QED
    BY <1>4, <2>1, <2>2, <2>3 DEF WritesOf, Undisturbed, RosterKinds
<1>8. CASE BulkRoster(t)
  <2>1. PICK del \in SUBSET Slots : \E ins : BulkStatement(t, del, ins)
    BY <1>3, <1>8 DEF BulkRoster, BulkRemoves
  <2>2. PICK gone \in SUBSET Slots : gone = {s \in del : Exists(s)}
    OBVIOUS
  <2>3. rdel'[t] = del /\ Put(t, gone, [k \in gone |-> NoRow])
    BY <1>3, <2>1, <2>2 DEF BulkStatement
  <2>4. \A s \in Slots : buf'[t][s] = IF s \in gone THEN NoRow ELSE Clean
    BY <1>1, <1>3, <2>3 DEF Put
  <2>5. op'[t].kind = "roster_bulk" /\ pc'[t] = "commit"
    BY <1>3, <1>8 DEF BulkRoster, Opcode
  <2>6. \A s \in rdel'[t] : Exists(s) => buf'[t][s] = NoRow
    BY <2>2, <2>3, <2>4
  <2>7. QED
    BY <1>4, <2>4, <2>5, <2>6 DEF WritesOf, Undisturbed, RosterKinds, Exists
<1>9. CASE ResolveLeftWork(t)
  <2>1. PICK rows \in SUBSET {s \in Slots : Exists(s)} : Put(t, rows, [k \in rows |-> MarkLeft(att[k])])
    BY <1>9 DEF ResolveLeftWork
  <2>2. /\ op'[t].kind = "resolve" /\ pc'[t] = "commit" /\ rdel'[t] = {}
    BY <1>2, <1>3, <1>9 DEF ResolveLeftWork, Opcode
  <2>3. \A s \in Slots : buf'[t][s] # Clean => Exists(s)
    BY <1>1, <1>3, <2>1 DEF Put
  <2>4. QED
    BY <1>4, <2>2, <2>3 DEF WritesOf, Undisturbed, RosterKinds, Exists
<1>10. QED
  BY <1>5, <1>6, <1>7, <1>8, <1>9

\* Later statements of a request that nothing overlaps.
LEMMA LaterStatementIsOwn ==
  ASSUME IInv, NEW t \in Txns, WritesOf(t),
         \/ WriteCheckIn(t) \/ WriteCheckOut(t) \/ WriteManual(t) \/ ImportLine(t) \/ WriteImport(t)
         \/ EndImport(t) \/ DeleteItsAttendance(t) \/ WriteSweep(t) \/ AuditFails(t)
  PROVE  /\ WritesOf(t)'
         /\ (\A u \in Txns \ {t} : pc'[u] = "idle") /\ Undisturbed(t) => Undisturbed(t)'
<1>1. /\ buf \in [Txns -> [Slots -> Row \cup {NoRow, Clean}]] /\ op \in [Txns -> Opcode]
      /\ pc \in [Txns -> {"idle", "next", "write", "commit"}] /\ rdel \in [Txns -> SUBSET Rosterable]
      /\ ids \in [Txns -> SUBSET Slots] /\ Rosterable \subseteq Slots /\ roster \subseteq Slots
  BY DEF IInv, TypeOK, Rosterable
<1>2. /\ att' = att /\ roster' = roster /\ ids' = ids /\ rdel' = rdel
  BY DEF WriteCheckIn, WriteCheckOut, WriteManual, ImportLine, WriteImport,
     EndImport, DeleteItsAttendance, WriteSweep, AuditFails, tables, work
<1>3. \A s \in ids[t] : Exists(s)
  BY DEF IInv, IdsExist
<1>4. CASE WriteCheckIn(t)
  <2>1. /\ op'[t] = op[t] /\ op[t].kind = "check_in" /\ pc'[t] = "commit"
    BY <1>1, <1>4 DEF WriteCheckIn
  <2>2. \A s \in Slots : buf'[t][s] # Clean => buf[t][s] # Clean \/ s = op[t].slot
    BY <1>1, <1>4 DEF WriteCheckIn, Put
  <2>3. \A s \in Slots : buf[t][s] = Clean
    BY <1>4 DEF WriteCheckIn, IInv, Stage
  <2>4. QED
    BY <1>2, <2>1, <2>2, <2>3 DEF WritesOf, Undisturbed, RosterKinds, Exists
<1>5. CASE WriteCheckOut(t)
  <2>1. /\ op'[t] = op[t] /\ op[t].kind = "check_out" /\ pc'[t] = "commit"
    BY <1>1, <1>5 DEF WriteCheckOut
  <2>2. \A s \in Slots : buf'[t][s] = IF s \in ids[t] THEN Depart(att[s], op[t].at) ELSE buf[t][s]
    BY <1>1, <1>5 DEF WriteCheckOut, Put
  <2>3. QED
    BY <1>2, <1>3, <2>1, <2>2 DEF WritesOf, Undisturbed, RosterKinds, Exists
<1>6. CASE WriteManual(t)
  <2>1. /\ op'[t] = op[t] /\ op[t].kind = "manual_set" /\ pc'[t] = "commit"
    BY <1>1, <1>6 DEF WriteManual
  <2>2. QED
    BY <1>2, <2>1 DEF WritesOf, Undisturbed, RosterKinds, Exists
<1>7. CASE ImportLine(t)
  <2>1. PICK s \in op[t].todo :
          /\ op' = [op EXCEPT ![t].todo = @ \ {s}, ![t].slot = IF s \in roster THEN s ELSE NoSlot]
          /\ pc' = [pc EXCEPT ![t] = IF s \in roster THEN "write" ELSE "next"]
    BY <1>7 DEF ImportLine
  <2>2. op[t].kind = "import" /\ buf' = buf
    BY <1>7 DEF ImportLine, IInv, Stage, work
  <2>3. op'[t].kind = "import" /\ pc'[t] \in {"next", "write"} /\ (pc'[t] = "write" => op'[t].slot \in roster)
    BY <1>1, <2>1, <2>2 DEF Opcode
  <2>4. QED
    BY <1>2, <2>2, <2>3 DEF WritesOf, Undisturbed, RosterKinds, Exists
<1>8. CASE WriteImport(t)
  <2>1. /\ op'[t] = op[t] /\ op[t].kind = "import" /\ pc[t] = "write" /\ pc'[t] = "next"
    BY <1>1, <1>8 DEF WriteImport
  <2>2. \A s \in Slots : buf'[t][s] = buf[t][s] \/ s = op[t].slot
    BY <1>1, <1>8 DEF WriteImport, Put
  <2>3. QED
    BY <1>2, <2>1, <2>2 DEF WritesOf, Undisturbed, RosterKinds, Exists
<1>9. CASE EndImport(t)
  <2>1. /\ op' = op /\ buf' = buf /\ op[t].kind = "import" /\ pc'[t] = "commit"
    BY <1>1, <1>9 DEF EndImport, IInv, Stage
  <2>2. QED
    BY <1>2, <2>1 DEF WritesOf, Undisturbed, RosterKinds, Exists
<1>10. CASE DeleteItsAttendance(t)
  <2>1. PICK gone : gone = {s \in {op[t].slot} : Exists(s)}
    OBVIOUS
  <2>2. /\ op' = op /\ op[t].kind = "roster_delete" /\ pc'[t] = "commit" /\ op[t].slot \in Slots
        /\ Put(t, gone, [k \in gone |-> NoRow])
    BY <1>1, <1>10, <2>1 DEF DeleteItsAttendance, IInv, Stage
  <2>3. \A s \in Slots : buf'[t][s] = IF s \in gone THEN NoRow ELSE buf[t][s]
    BY <1>1, <2>2 DEF Put
  <2>4. \A s \in rdel[t] : Exists(s) => buf'[t][s] = NoRow
    BY <2>1, <2>2, <2>3 DEF WritesOf
  <2>5. QED
    BY <1>2, <2>2, <2>3, <2>4 DEF WritesOf, Undisturbed, RosterKinds, Exists
<1>11. CASE WriteSweep(t)
  <2>1. /\ op'[t] = op[t] /\ op[t].kind = "sweep" /\ pc'[t] = "commit"
    BY <1>1, <1>11 DEF WriteSweep
  <2>2. \A s \in Slots : buf'[t][s] = buf[t][s] \/ s \in ids[t]
    BY <1>1, <1>11 DEF WriteSweep, Put
  <2>3. QED
    BY <1>2, <1>3, <2>1, <2>2 DEF WritesOf, Undisturbed, RosterKinds, Exists
<1>12. CASE AuditFails(t)
  <2>1. /\ op' = op /\ buf' = buf /\ pc' = pc
    BY <1>12 DEF AuditFails
  <2>2. QED
    BY <1>2, <2>1 DEF WritesOf, Undisturbed, RosterKinds, Exists
<1>13. QED
  BY <1>4, <1>5, <1>6, <1>7, <1>8, <1>9, <1>10, <1>11, <1>12

\* The steps that end a transaction leave it idle, with nothing to write.
LEMMA EndIsIdle ==
  ASSUME IInv, NEW t \in Txns,
         \/ RefuseRecord(t) \/ RepeatTap(t) \/ KillDeadlocked(t) \/ Commit(t)
         \/ CommitPoisoned(t) \/ Abort(t)
  PROVE  WritesOf(t)' /\ pc'[t] = "idle"
<1>1. PICK answer : Finish(t, answer)
  BY DEF RefuseRecord, RepeatTap, KillDeadlocked, Refuse, Commit, CommitPoisoned, Abort
<1>2. QED
  BY <1>1, EndWritesNothing

\* The one step of an idle transaction that leaves it idle is a refusal.
LEMMA IdleStaysIdle ==
  ASSUME IInv, NEW t \in Txns, Start(t) \/ Proceed(t) \/ Fail(t), pc[t] = "idle", pc'[t] = "idle"
  PROVE  RefuseRecord(t)
<1>1. pc \in [Txns -> {"idle", "next", "write", "commit"}]
  BY DEF IInv, TypeOK
<1>2. \A o, rows : ~Decide(t, o, rows, "write") /\ ~Decide(t, o, rows, "next")
  BY <1>1 DEF Decide
<1>3. ~Fail(t)
  BY DEF Fail, AuditFails, Abort
<1>4. ~Proceed(t)
  BY DEF Proceed, WriteCheckIn, RepeatTap, WriteCheckOut, WriteManual, ImportLine, WriteImport,
     EndImport, DeleteItsAttendance, WriteSweep, Commit, CommitPoisoned, KillDeadlocked, Waits
<1>5. ~BeginCheckIn(t) /\ ~BeginCheckOut(t) /\ ~BeginManualSet(t) /\ ~BeginImport(t) /\ ~BeginSweep(t)
  BY <1>2 DEF BeginCheckIn, BeginCheckOut, BeginManualSet, BeginImport, BeginSweep
<1>6. ~ManualClear(t) /\ ~AddRosterDays(t) /\ ~DeleteRosterDay(t) /\ ~BulkRoster(t) /\ ~ResolveLeftWork(t)
  BY <1>1 DEF ManualClear, AddRosterDays, DeleteRosterDay, BulkRoster, ResolveLeftWork
<1>7. QED
  BY <1>3, <1>4, <1>5, <1>6 DEF Start

\* Each request under way alone stays undisturbed until it ends.
LEMMA AloneKeeps == AloneInv /\ [NextAlone]_<<vars, alone>> => AloneInv'
<1> SUFFICES ASSUME AloneInv, [NextAlone]_<<vars, alone>> PROVE AloneInv'
  OBVIOUS
<1>1. CASE UNCHANGED <<vars, alone>>
  <2>1. UNCHANGED vars /\ alone' = alone
    BY <1>1
  <2>2. UNCHANGED <<att, roster, pc, op, ids, buf, rdel>>
    BY <2>1 DEF vars
  <2>3. IInv'
    BY <2>1, NextKeeps DEF AloneInv
  <2>4. QED
    BY <2>1, <2>2, <2>3 DEF AloneInv, WritesOf, Undisturbed, Exists
<1>2. CASE NextAlone
  <2>1. PICK t \in Txns : Start(t) \/ Proceed(t) \/ Fail(t)
    BY <1>2 DEF NextAlone, Next
  <2>2. IInv'
    BY <1>2, NextKeeps DEF AloneInv, NextAlone
  <2>3. alone' \in SUBSET Txns
    BY <1>2 DEF NextAlone
  <2>4. IInv /\ \A u \in Txns : WritesOf(u)
    BY DEF AloneInv
  <2>5. \A u \in Txns \ {t} : pc'[u] = pc[u] /\ op'[u] = op[u] /\ buf'[u] = buf[u] /\ rdel'[u] = rdel[u]
    BY <2>1, <2>4, OthersUntouched
  <2>6. /\ WritesOf(t)'
        /\ /\ \A u \in Txns \ {t} : pc'[u] = "idle"
           /\ pc[t] = "idle" \/ Undisturbed(t)
           /\ pc'[t] # "idle"
           => Undisturbed(t)'
    <3>1. CASE BeginCheckIn(t) \/ BeginCheckOut(t) \/ BeginManualSet(t) \/ BeginImport(t) \/ BeginSweep(t)
      BY <2>4, <3>1, BeginIsOwn
    <3>2. CASE ManualClear(t) \/ AddRosterDays(t) \/ DeleteRosterDay(t) \/ BulkRoster(t) \/ ResolveLeftWork(t)
      BY <2>4, <3>2, FirstStatementIsOwn
    <3>3. CASE \/ WriteCheckIn(t) \/ WriteCheckOut(t) \/ WriteManual(t) \/ ImportLine(t) \/ WriteImport(t)
               \/ EndImport(t) \/ DeleteItsAttendance(t) \/ WriteSweep(t) \/ AuditFails(t)
      <4>1. pc[t] # "idle"
        BY <3>3 DEF WriteCheckIn, WriteCheckOut, WriteManual, ImportLine, WriteImport,
           EndImport, DeleteItsAttendance, WriteSweep, AuditFails
      <4>2. QED
        BY <2>4, <3>3, <4>1, LaterStatementIsOwn
    <3>4. CASE \/ RefuseRecord(t) \/ RepeatTap(t) \/ KillDeadlocked(t) \/ Commit(t)
               \/ CommitPoisoned(t) \/ Abort(t)
      BY <2>4, <3>4, EndIsIdle
    <3>5. QED
      BY <2>1, <3>1, <3>2, <3>3, <3>4 DEF Start, Proceed, Fail
  <2>7. \A u \in Txns : WritesOf(u)'
    BY <2>4, <2>5, <2>6 DEF WritesOf
  <2>8. ASSUME NEW u \in alone' PROVE Undisturbed(u)'
    <3>1. /\ u \in Txns /\ pc'[u] # "idle" /\ (pc[u] = "idle" \/ u \in alone)
          /\ \A v \in Txns \ {u} : pc[v] = "idle" /\ pc'[v] = "idle"
      BY <1>2, <2>8 DEF NextAlone, Idle
    <3>2. CASE u = t
      BY <2>6, <3>1, <3>2 DEF AloneInv
    <3>3. CASE u # t
      <4>1. pc[t] = "idle" /\ pc'[t] = "idle" /\ Undisturbed(u) /\ u \in Txns \ {t}
        BY <2>5, <3>1, <3>3 DEF AloneInv
      <4>2. RefuseRecord(t)
        BY <2>1, <2>4, <4>1, IdleStaysIdle
      <4>3. att' = att /\ roster' = roster /\ ids'[u] = ids[u]
        BY <2>4, <4>1, <4>2 DEF RefuseRecord, Refuse, tables, IInv, TypeOK
      <4>4. QED
        BY <2>5, <3>1, <4>1, <4>3 DEF Undisturbed, Exists
    <3>4. QED
      BY <3>2, <3>3
  <2>9. QED
    BY <2>2, <2>3, <2>7, <2>8 DEF AloneInv
<1>3. QED
  BY <1>1, <1>2

\* The invariant of the requests that nothing overlaps.
THEOREM AloneInductive == SpecAlone => []AloneInv
<1>1. InitAlone => AloneInv
  BY InitIInv DEF InitAlone, AloneInv, Init, WritesOf, RosterKinds, NoOp
<1>2. QED
  BY <1>1, AloneKeeps, PTL DEF SpecAlone

\* Only a commit writes the tables.
LEMMA OnlyCommitsWrite ==
  ASSUME NEW t \in Txns, Start(t) \/ Proceed(t) \/ Fail(t), ~Commit(t)
  PROVE  UNCHANGED tables
<1>1. Start(t) => UNCHANGED tables
  BY DEF Start, BeginCheckIn, BeginCheckOut, RefuseRecord, BeginManualSet, ManualClear, BeginImport,
     AddRosterDays, DeleteRosterDay, BulkRoster, ResolveLeftWork, BeginSweep, Decide, Refuse, tables
<1>2. Proceed(t) => Commit(t) \/ UNCHANGED tables
  BY DEF Proceed, WriteCheckIn, RepeatTap, Refuse, WriteCheckOut, WriteManual, ImportLine, WriteImport,
     EndImport, DeleteItsAttendance, WriteSweep, CommitPoisoned, KillDeadlocked, tables
<1>3. Fail(t) => UNCHANGED tables
  BY DEF Fail, AuditFails, Abort, tables
<1>4. QED
  BY <1>1, <1>2, <1>3

\* The request that ends while nothing overlaps it, and commits, is the one that acts.
LEMMA AloneCommit ==
  ASSUME AloneInv, NextAlone, NEW t \in alone, Idle(t)'
  PROVE  /\ t \in Txns /\ Undisturbed(t) /\ WritesOf(t) /\ IInv
         /\ Commit(t) \/ (UNCHANGED tables /\ (Start(t) \/ Proceed(t) \/ Fail(t)))
<1>1. t \in Txns /\ Undisturbed(t) /\ WritesOf(t) /\ IInv
  BY DEF AloneInv
<1>2. PICK a \in Txns : Start(a) \/ Proceed(a) \/ Fail(a)
  BY DEF NextAlone, Next
<1>3. a = t
  BY <1>1, <1>2, OthersUntouched DEF Idle, Undisturbed
<1>4. QED
  BY <1>1, <1>2, <1>3, OnlyCommitsWrite

\* Deleting a roster day takes its attendance along, and no request but the manual
\* edit writes off the roster: one that nothing overlaps leaves no new orphan.
THEOREM OrphansAreOnlyByHand == SpecAlone => OrphansAreByHand
<1> DEFINE ByHand == (\E t \in alone : Idle(t)') /\ ~(Orphans' \subseteq Orphans) => Answers("manual_set")
<1>1. AloneInv /\ [NextAlone]_<<vars, alone>> => [ByHand]_<<vars, alone>>
  <2> SUFFICES ASSUME AloneInv, NextAlone, NEW t \in alone, Idle(t)', ~(Orphans' \subseteq Orphans)
               PROVE  reply'.ok /\ reply'.kind = "manual_set"
    BY DEF Answers
  <2>1. /\ t \in Txns /\ Undisturbed(t) /\ WritesOf(t) /\ IInv
        /\ Commit(t) \/ UNCHANGED tables
    BY AloneCommit
  <2>2. PICK s \in Slots : /\ att'[s] # NoRow /\ s \notin roster'
                          /\ ~(att[s] # NoRow /\ s \notin roster)
    BY DEF Orphans, Exists
  <2>3. Commit(t)
    BY <2>1, <2>2 DEF tables
  <2>4. /\ reply'.ok /\ reply'.kind = op[t].kind /\ pc[t] = "commit"
        /\ att'[s] = Sees(t, s) /\ roster' = (roster \ rdel[t]) \cup radd[t]
    BY <2>3 DEF Commit, Finish, Answer
  <2>5. CASE buf[t][s] = Clean
    <3>1. att[s] # NoRow /\ s \in roster /\ s \in rdel[t]
      BY <2>2, <2>4, <2>5 DEF Sees
    <3>2. buf[t][s] = NoRow
      BY <2>1, <2>4, <3>1 DEF Undisturbed, Exists
    <3>3. QED
      BY <2>5, <3>2, MarkersAssumption
  <2>6. CASE buf[t][s] # Clean
    <3>1. buf[t][s] # NoRow
      BY <2>2, <2>4, <2>6 DEF Sees
    <3>2. rdel[t] = {}
      BY <2>1, <2>6, <3>1 DEF WritesOf
    <3>3. ~(Exists(s) \/ s \in roster)
      BY <2>2, <2>4, <3>2 DEF Exists
    <3>4. QED
      BY <2>1, <2>4, <2>6, <3>1, <3>3 DEF Undisturbed
  <2>7. QED
    BY <2>5, <2>6
<1>2. QED
  BY <1>1, AloneInductive, PTL DEF SpecAlone, OrphansAreByHand

-----------------------------------------------------------------------------
(* Departures.                                                             *)

\* The operations that close a row or mark it.
DepartureKinds == {"check_out", "sweep", "resolve"}

\* What a departure has written and not committed: rows that are there, with the
\* arrival they have.
KeepsArrival(t) ==
  op[t].kind \in DepartureKinds =>
    \A s \in Slots : \/ buf[t][s] = Clean
                     \/ /\ Exists(s) /\ buf[t][s] # NoRow
                        /\ buf[t][s].ci = att[s].ci /\ buf[t][s].status = att[s].status

\* Marking a row, or closing it, keeps its arrival.
LEMMA DepartureKeepsRow ==
  ASSUME NEW r \in Row, NEW at
  PROVE  /\ Depart(r, at) # NoRow => Depart(r, at).ci = r.ci /\ Depart(r, at).status = r.status
         /\ MarkLeft(r) # NoRow => MarkLeft(r).ci = r.ci /\ MarkLeft(r).status = r.status
BY DEF Depart, MarkLeft, Row

\* A statement that writes a departure over rows that are there keeps their arrivals.
LEMMA WrittenDeparture ==
  ASSUME IInv, NEW t \in Txns, KeepsArrival(t), NEW rows \in SUBSET {s \in Slots : Exists(s)},
         op[t].kind \in DepartureKinds \/ \A s \in Slots : buf[t][s] = Clean,
         NEW f, Put(t, rows, f), att' = att,
         \A s \in rows : f[s] # NoRow /\ f[s].ci = att[s].ci /\ f[s].status = att[s].status
  PROVE  KeepsArrival(t)'
<1>1. \A s \in Slots : buf'[t][s] = IF s \in rows THEN f[s] ELSE buf[t][s]
  BY DEF Put, IInv, TypeOK
<1>2. QED
  BY <1>1 DEF KeepsArrival, Exists

\* What a departure has written stays so under every step.
LEMMA KeepsArrivalKeeps ==
  ASSUME IInv, \A t \in Txns : KeepsArrival(t), [Next]_vars
  PROVE  \A t \in Txns : KeepsArrival(t)'
<1>0. CASE UNCHANGED vars
  BY <1>0 DEF vars, KeepsArrival, Exists
<1>1. CASE Next
  <2>1. PICK t \in Txns : Start(t) \/ Proceed(t) \/ Fail(t)
    BY <1>1 DEF Next
  <2>2. /\ att \in [Slots -> Row \cup {NoRow}] /\ op \in [Txns -> Opcode]
        /\ buf \in [Txns -> [Slots -> Row \cup {NoRow, Clean}]]
        /\ ids \in [Txns -> SUBSET Slots]
        /\ pc \in [Txns -> {"idle", "next", "write", "commit"}]
    BY DEF IInv, TypeOK
  <2>3. ASSUME NEW u \in Txns \ {t} PROVE KeepsArrival(u)'
    <3>1. op'[u] = op[u] /\ buf'[u] = buf[u]
      BY <2>1, OthersUntouched
    <3>2. \A s \in Slots : att'[s] = att[s] \/ buf[t][s] # Clean
      <4>1. CASE Commit(t)
        BY <4>1 DEF Commit, Sees
      <4>2. CASE ~Commit(t)
        BY <2>1, <4>2, OnlyCommitsWrite DEF tables
      <4>3. QED
        BY <4>1, <4>2
    <3>3. \A s \in Slots : buf[u][s] = Clean \/ buf[t][s] = Clean
      BY DEF IInv, LocksHeldOnce
    <3>4. QED
      BY <3>1, <3>2, <3>3 DEF KeepsArrival, Exists
  <2>4. KeepsArrival(t)'
    <3>1. CASE WriteCheckOut(t)
      <4>1. op'[t].kind = "check_out" /\ op[t].kind = "check_out"
        BY <3>1 DEF WriteCheckOut
      <4>2. ids[t] \in SUBSET {s \in Slots : Exists(s)}
        BY <2>2 DEF IInv, IdsExist
      <4>3. \A s \in ids[t] : att[s] \in Row /\ Depart(att[s], op[t].at) # NoRow
        <5>1. op[t].at \in Instants
          BY <3>1 DEF WriteCheckOut, IInv, Stage
        <5>2. \A s \in ids[t] : att[s] \in Row
          BY <2>2, <4>2 DEF Exists
        <5>3. \A s \in ids[t] : Depart(att[s], op[t].at) \in Row
          BY <5>1, <5>2 DEF Depart, Row, Departures
        <5>4. QED
          BY <5>2, <5>3, MarkersAssumption
      <4>4. Put(t, ids[t], [k \in ids[t] |-> Depart(att[k], op[t].at)]) /\ att' = att
        BY <3>1 DEF WriteCheckOut, tables
      <4>5. QED
        BY <4>1, <4>2, <4>3, <4>4, DepartureKeepsRow, WrittenDeparture DEF DepartureKinds
    <3>2. CASE WriteSweep(t)
      <4>1. op[t].kind = "sweep"
        BY <3>2 DEF WriteSweep
      <4>2. ids[t] \in SUBSET {s \in Slots : Exists(s)}
        BY <2>2 DEF IInv, IdsExist
      <4>3. \A s \in ids[t] : att[s] \in Row /\ MarkLeft(att[s]) # NoRow
        <5>1. \A s \in ids[t] : att[s] \in Row
          BY <2>2, <4>2 DEF Exists
        <5>2. \A s \in ids[t] : MarkLeft(att[s]) \in Row
          BY <5>1 DEF MarkLeft, Row, Departures
        <5>3. QED
          BY <5>1, <5>2, MarkersAssumption
      <4>4. Put(t, ids[t], [k \in ids[t] |-> MarkLeft(att[k])]) /\ att' = att
        BY <3>2 DEF WriteSweep, tables
      <4>5. QED
        BY <4>1, <4>2, <4>3, <4>4, DepartureKeepsRow, WrittenDeparture DEF DepartureKinds
    <3>3. CASE ResolveLeftWork(t)
      <4>1. PICK rows \in SUBSET {s \in Slots : Exists(s)} : Put(t, rows, [k \in rows |-> MarkLeft(att[k])])
        BY <3>3 DEF ResolveLeftWork
      <4>2. (\A s \in Slots : buf[t][s] = Clean) /\ att' = att
        BY <3>3 DEF ResolveLeftWork, Begin, IInv, Stage, tables
      <4>3. \A s \in rows : att[s] \in Row /\ MarkLeft(att[s]) # NoRow
        <5>1. \A s \in rows : att[s] \in Row
          BY <2>2, <4>1 DEF Exists
        <5>2. \A s \in rows : MarkLeft(att[s]) \in Row
          BY <5>1 DEF MarkLeft, Row, Departures
        <5>3. QED
          BY <5>1, <5>2, MarkersAssumption
      <4>4. QED
        BY <4>1, <4>2, <4>3, DepartureKeepsRow, WrittenDeparture
    <3>4. CASE BeginCheckOut(t) \/ BeginSweep(t)
      <4>1. \A s \in Slots : buf[t][s] = Clean
        BY <3>4 DEF BeginCheckOut, BeginSweep, Begin, IInv, Stage
      <4>2. buf' = buf
        BY <3>4 DEF BeginCheckOut, BeginSweep, Decide, work
      <4>3. QED
        BY <4>1, <4>2 DEF KeepsArrival
    <3>5. CASE AuditFails(t)
      BY <3>5 DEF AuditFails, tables, KeepsArrival, Exists
    <3>6. CASE \/ RefuseRecord(t) \/ RepeatTap(t) \/ KillDeadlocked(t) \/ Commit(t)
               \/ CommitPoisoned(t) \/ Abort(t)
      <4>1. PICK answer : Finish(t, answer)
        BY <3>6 DEF RefuseRecord, RepeatTap, KillDeadlocked, Refuse, Commit, CommitPoisoned, Abort
      <4>2. op'[t].kind = "none"
        BY <2>2, <4>1 DEF Finish, NoOp
      <4>3. QED
        BY <4>2 DEF KeepsArrival, DepartureKinds
    <3>7. CASE BeginCheckIn(t) \/ BeginManualSet(t) \/ BeginImport(t)
      <4>1. CASE BeginCheckIn(t)
        <5>1. PICK s, at : Decide(t, Decided("check_in", s, at), {}, "write")
          BY <4>1 DEF BeginCheckIn
        <5>2. op'[t] = Decided("check_in", s, at)
          BY <2>2, <5>1 DEF Decide
        <5>3. QED
          BY <5>2 DEF Decided, NoOp, KeepsArrival, DepartureKinds
      <4>2. CASE BeginManualSet(t)
        <5>1. PICK s, at, status :
                Decide(t, [Decided("manual_set", s, at) EXCEPT !.status = status], {}, "write")
          BY <4>2 DEF BeginManualSet
        <5>2. op'[t] = [Decided("manual_set", s, at) EXCEPT !.status = status]
          BY <2>2, <5>1 DEF Decide
        <5>3. QED
          BY <5>2 DEF Decided, NoOp, KeepsArrival, DepartureKinds
      <4>3. CASE BeginImport(t)
        <5>1. PICK lines : Decide(t, [Decided("import", NoSlot, Never) EXCEPT !.todo = lines], {}, "next")
          BY <4>3 DEF BeginImport
        <5>2. op'[t] = [Decided("import", NoSlot, Never) EXCEPT !.todo = lines]
          BY <2>2, <5>1 DEF Decide
        <5>3. QED
          BY <5>2 DEF Decided, NoOp, KeepsArrival, DepartureKinds
      <4>4. QED
        BY <3>7, <4>1, <4>2, <4>3
    <3>8. CASE ManualClear(t) \/ AddRosterDays(t) \/ BulkRoster(t)
      <4>1. op'[t].kind \in {"manual_clear", "roster_add", "roster_bulk"}
        BY <2>2, <3>8 DEF ManualClear, AddRosterDays, BulkRoster, Opcode
      <4>2. QED
        BY <4>1 DEF KeepsArrival, DepartureKinds
    <3>9. CASE DeleteRosterDay(t)
      <4>1. PICK s : op'[t] = Decided("roster_delete", s, Never)
        BY <2>2, <3>9 DEF DeleteRosterDay
      <4>2. QED
        BY <4>1 DEF Decided, NoOp, KeepsArrival, DepartureKinds
    <3>10. CASE WriteCheckIn(t) \/ WriteManual(t) \/ WriteImport(t) \/ EndImport(t) \/ DeleteItsAttendance(t)
      <4>1. op[t].kind \in {"check_in", "manual_set", "import", "roster_delete"} /\ op' = op
        BY <3>10 DEF WriteCheckIn, WriteManual, WriteImport, EndImport, DeleteItsAttendance, IInv, Stage
      <4>2. QED
        BY <4>1 DEF KeepsArrival, DepartureKinds
    <3>11. CASE ImportLine(t)
      <4>1. PICK s : op' = [op EXCEPT ![t].todo = @ \ {s}, ![t].slot = IF s \in roster THEN s ELSE NoSlot]
        BY <3>11 DEF ImportLine
      <4>2. op[t].kind = "import"
        BY <3>11 DEF ImportLine, IInv, Stage
      <4>3. op'[t].kind = "import"
        BY <2>2, <4>1, <4>2 DEF Opcode
      <4>4. QED
        BY <4>3 DEF KeepsArrival, DepartureKinds
    <3>12. QED
      BY <2>1, <3>1, <3>2, <3>3, <3>4, <3>5, <3>6, <3>7, <3>8, <3>9, <3>10, <3>11 DEF Start, Proceed, Fail
  <2>5. QED
    BY <2>3, <2>4
<1>2. QED
  BY <1>0, <1>1

\* Whatever runs beside a check-out, the sweep or a resolved presence check, it
\* brings no deleted row back and moves no arrival.
THEOREM DeparturesAlwaysKeepArrivals == Spec => DeparturesKeepArrivals
<1> DEFINE Keep == Answers("check_out") \/ Answers("sweep") \/ Answers("resolve") =>
       \A s \in Slots : /\ att'[s] = NoRow <=> att[s] = NoRow
                        /\ Exists(s) => att'[s].ci = att[s].ci /\ att'[s].status = att[s].status
           Kept == \A t \in Txns : KeepsArrival(t)
<1>1. Init => Kept
  BY DEF Init, KeepsArrival, NoOp, DepartureKinds
<1>2. IInv /\ Kept /\ [Next]_vars => Kept'
  BY KeepsArrivalKeeps
<1>3. IInv /\ Kept /\ [Next]_vars => [Keep]_vars
  <2> SUFFICES ASSUME IInv, Kept, Next, reply'.ok, reply'.kind \in DepartureKinds, NEW s \in Slots
               PROVE  /\ att'[s] = NoRow <=> att[s] = NoRow
                      /\ Exists(s) => att'[s].ci = att[s].ci /\ att'[s].status = att[s].status
    BY DEF Answers, DepartureKinds
  <2>1. PICK t \in Txns : Commit(t) \/ CommitPoisoned(t)
    BY OnlyCommitsAnswer
  <2>2. CASE Commit(t)
    <3>1. op[t].kind \in DepartureKinds /\ att'[s] = Sees(t, s)
      BY <2>2 DEF Commit, Finish, Answer
    <3>2. QED
      BY <3>1 DEF KeepsArrival, Sees, Exists
  <2>3. CASE CommitPoisoned(t)
    BY <2>3 DEF CommitPoisoned, tables
  <2>4. QED
    BY <2>1, <2>2, <2>3
<1>4. QED
  BY <1>1, <1>2, <1>3, Inductive, PTL DEF Spec, DeparturesKeepArrivals

-----------------------------------------------------------------------------
(* What the screens count.                                                 *)

\* A rostered slot shares its key with no other slot: a rostered slot has a shift.
LEMMA RosterKeysDiffer ==
  ASSUME NEW s \in Rosterable, NEW r \in Slots, Key(r) = Key(s)
  PROVE  r = s
<1>1. r \in KeyRecords /\ s \in KeyRecords /\ s.shift \in Shifts
  BY SlotsAssumption DEF Rosterable, HasShift
<1>2. r.member = s.member /\ r.day = s.day /\ r.shift = s.shift
  BY <1>1, NoShiftAssumption DEF Key, HasShift
<1>3. QED
  BY <1>1, <1>2 DEF KeyRecords

\* Slots with different keys are as many as their keys.
LEMMA KeysCount ==
  ASSUME NEW S, IsFiniteSet(S), \A r, s \in S : Key(r) = Key(s) => r = s
  PROVE  IsFiniteSet(Keys(S)) /\ Cardinality(Keys(S)) = Cardinality(S)
<1> DEFINE f == [s \in S |-> Key(s)]
<1>1. f \in [S -> Keys(S)] /\ (\A k \in Keys(S) : \E s \in S : f[s] = k)
  BY DEF Keys
<1>2. \A r, s \in S : f[r] = f[s] => r = s
  OBVIOUS
<1>3. ExistsBijection(S, Keys(S))
  BY <1>1, <1>2 DEF ExistsBijection, Bijection, Injection, IsInjective, Surjection
<1>4. QED
  BY <1>3, FS_Bijection

\* Rostered slots with nobody in them have cells without an arrival.
LEMMA NotCame ==
  ASSUME IInv, NEW s \in roster, ~Arrived(s)
  PROVE  \A r \in ArrivedRows : Key(r) # Key(s)
<1>1. s \in Rosterable
  BY DEF IInv, TypeOK
<1>2. QED
  BY <1>1, RosterKeysDiffer DEF ArrivedRows, Rows

\* The cells of each status, told by their slots.
LEMMA CellsOfSlots ==
  ASSUME IInv, NEW done \in SUBSET roster
  PROVE  /\ Cells("attended", done) = Keys(ArrivedRows)
         /\ Cells("absent", done) = Keys((roster \ Came) \cap done)
         /\ Cells("pending", done) = Keys((roster \ Came) \ done)
<1>1. roster \subseteq Rosterable /\ Rosterable \subseteq Slots
  BY DEF IInv, TypeOK, Rosterable
<1>2. \A s \in roster, r \in Slots : Key(r) = Key(s) => r = s
  BY <1>1, RosterKeysDiffer
<1>3. \A s \in roster : Arrived(s) <=> s \in ArrivedRows
  BY <1>1 DEF ArrivedRows, Rows, Arrived
<1>4. ArrivedRows \subseteq Slots
  BY DEF ArrivedRows, Rows
<1>5. \A k : k \in Keys(ArrivedRows) <=> \E s \in ArrivedRows : Key(s) = k
  BY DEF Keys
<1>6. \A k : k \in Keys(roster) <=> \E s \in roster : Key(s) = k
  BY DEF Keys
<1>7. Cells("attended", done) = Keys(ArrivedRows)
  BY <1>5 DEF Cells, CellArrival, MatrixKeys
<1>8. Cells("absent", done) = Keys((roster \ Came) \cap done)
  <2>1. ASSUME NEW k \in Cells("absent", done) PROVE k \in Keys((roster \ Came) \cap done)
    <3>1. (\A s \in ArrivedRows : Key(s) # k) /\ \E s \in done : Key(s) = k
      BY DEF Cells, CellArrival
    <3>2. PICK s \in done : Key(s) = k
      BY <3>1
    <3>3. s \in (roster \ Came) \cap done
      BY <1>3, <3>1, <3>2 DEF Came
    <3>4. QED
      BY <3>2, <3>3 DEF Keys
  <2>2. ASSUME NEW k \in Keys((roster \ Came) \cap done) PROVE k \in Cells("absent", done)
    <3>1. PICK s \in (roster \ Came) \cap done : Key(s) = k
      BY DEF Keys
    <3>2. \A r \in ArrivedRows : Key(r) # k
      BY <3>1, NotCame DEF Came
    <3>3. CellArrival(k, done) = "absent"
      BY <3>1, <3>2 DEF CellArrival
    <3>4. QED
      BY <1>6, <3>1, <3>3 DEF Cells, MatrixKeys
  <2>3. QED
    BY <2>1, <2>2
<1>9. Cells("pending", done) = Keys((roster \ Came) \ done)
  <2>1. ASSUME NEW k \in Cells("pending", done) PROVE k \in Keys((roster \ Came) \ done)
    <3>1. /\ \A s \in ArrivedRows : Key(s) # k
          /\ \A s \in done : Key(s) # k
          /\ k \in Keys(roster)
      BY <1>5 DEF Cells, CellArrival, MatrixKeys
    <3>2. PICK s \in roster : Key(s) = k
      BY <1>6, <3>1
    <3>3. s \in (roster \ Came) \ done
      BY <1>3, <3>1, <3>2 DEF Came
    <3>4. QED
      BY <3>2, <3>3 DEF Keys
  <2>2. ASSUME NEW k \in Keys((roster \ Came) \ done) PROVE k \in Cells("pending", done)
    <3>1. PICK s \in (roster \ Came) \ done : Key(s) = k
      BY DEF Keys
    <3>2. \A r \in ArrivedRows : Key(r) # k
      BY <3>1, NotCame DEF Came
    <3>3. \A r \in done : Key(r) # k
      BY <1>1, <1>2, <3>1
    <3>4. CellArrival(k, done) = "pending"
      BY <3>2, <3>3 DEF CellArrival
    <3>5. QED
      BY <1>6, <3>1, <3>4 DEF Cells, MatrixKeys
  <2>3. QED
    BY <2>1, <2>2
<1>10. QED
  BY <1>7, <1>8, <1>9

\* Everything the counts are taken of is finite, and keys count their slots.
LEMMA SlotsCount ==
  ASSUME IInv, IsFiniteSet(Slots), OneRowPerKey, NEW S \in SUBSET Slots,
         S \subseteq roster \/ S \subseteq ArrivedRows
  PROVE  IsFiniteSet(S) /\ Cardinality(Keys(S)) = Cardinality(S)
<1>1. IsFiniteSet(S)
  BY FS_Subset
<1>2. \A r, s \in S : Key(r) = Key(s) => r = s
  BY RosterKeysDiffer DEF OneRowPerKey, ArrivedRows, IInv, TypeOK
<1>3. QED
  BY <1>1, <1>2, KeysCount

\* The dashboard counts what the review page totals, and every slot once.
LEMMA DashboardIsReview ==
  ASSUME IInv, IsFiniteSet(Slots), OneRowPerKey, NEW done \in SUBSET roster
  PROVE  DashboardMatchesReview(done)
<1>1. roster \subseteq Slots /\ ArrivedRows \subseteq Slots /\ IsFiniteSet(roster) /\ Came \subseteq roster
  BY FS_Subset DEF IInv, TypeOK, Rosterable, ArrivedRows, Rows, Came
<1>2. /\ Cardinality(Cells("attended", done)) = Cardinality(Attended)
      /\ Cardinality(Cells("absent", done)) = Cardinality((roster \ Came) \cap done)
      /\ Cardinality(Cells("pending", done)) = Cardinality((roster \ Came) \ done)
  BY <1>1, CellsOfSlots, SlotsCount DEF Attended
<1>3. /\ Stats(done).attended = Cardinality(Attended)
      /\ Stats(done).absent = Cardinality((roster \ Came) \cap done)
      /\ Stats(done).pending = Cardinality((roster \ Came) \ done)
      /\ Stats(done).attendedOpen = Cardinality(Came \ done)
      /\ Stats(done).attendedSettled = Cardinality(Came \cap done)
  BY DEF Stats
<1>4. [attended |-> Stats(done).attended, absent |-> Stats(done).absent, pending |-> Stats(done).pending]
        = ReviewTotals(done)
  BY <1>2, <1>3 DEF ReviewTotals
<1>5. Cardinality((roster \ Came) \cap done) + Cardinality((roster \ Came) \ done)
        + Cardinality(Came \ done) + Cardinality(Came \cap done) = Cardinality(roster)
  <2>1. IsFiniteSet(Came) /\ IsFiniteSet(roster \ Came)
    BY <1>1, FS_Subset
  <2>2. Cardinality(Came \ done) = Cardinality(Came) - Cardinality(Came \cap done)
    BY <2>1, FS_Difference
  <2>3. Cardinality((roster \ Came) \ done) = Cardinality(roster \ Came) - Cardinality((roster \ Came) \cap done)
    BY <2>1, FS_Difference
  <2>4. Cardinality(roster \ Came) = Cardinality(roster) - Cardinality(Came)
    <3>1. roster \cap Came = Came
      BY <1>1
    <3>2. QED
      BY <1>1, <3>1, FS_Difference
  <2>5. /\ Cardinality(Came \cap done) \in Nat /\ Cardinality((roster \ Came) \cap done) \in Nat
        /\ Cardinality(Came) \in Nat /\ Cardinality(roster) \in Nat
    BY <1>1, <2>1, FS_CardinalityType, FS_Intersection
  <2>6. QED
    BY <2>2, <2>3, <2>4, <2>5
<1>6. QED
  BY <1>3, <1>4, <1>5 DEF DashboardMatchesReview

\* The outcome of a row tells whether somebody came, and whether they left.
LEMMA OutcomeOfRow ==
  ASSUME NEW s
  PROVE  /\ att[s].ci = Never => RowOutcome(s) = "absent"
         /\ att[s].ci # Never => RowOutcome(s) \in {"left", "out", "open"}
         /\ att[s].ci # Never => (RowOutcome(s) = "left" <=> att[s].cs = "left_work")
         /\ RowOutcome(s) = "out" => att[s].co # Never \/ att[s].cs = "checked_out"
<1>1. CASE att[s].ci = Never
  BY <1>1 DEF RowOutcome
<1>2. CASE att[s].ci # Never /\ att[s].cs = "left_work"
  BY <1>2 DEF RowOutcome
<1>3. CASE att[s].ci # Never /\ att[s].cs # "left_work" /\ (att[s].co # Never \/ att[s].cs = "checked_out")
  BY <1>3 DEF RowOutcome
<1>4. CASE att[s].ci # Never /\ att[s].cs # "left_work" /\ ~(att[s].co # Never \/ att[s].cs = "checked_out")
  BY <1>4 DEF RowOutcome
<1>5. QED
  BY <1>1, <1>2, <1>3, <1>4

\* The history of a slot says what its cell shows.
LEMMA HistoryIsCells ==
  ASSUME IInv, OneRowPerKey, NEW done \in SUBSET roster
  PROVE  HistoryMatchesCells(done)
<1> SUFFICES ASSUME NEW h \in History(done), Key(h[1]) \in MatrixKeys
             PROVE  /\ CellArrival(Key(h[1]), done) = "pending" <=> h[2] = "upcoming"
                    /\ CellArrival(Key(h[1]), done) = "absent" <=> h[2] = "absent"
                    /\ "left_work" \in CellDepartures(Key(h[1])) <=> h[2] = "left"
  BY DEF HistoryMatchesCells
<1>1. roster \subseteq Rosterable /\ roster \subseteq Slots
  BY DEF IInv, TypeOK, Rosterable
<1>2. ASSUME NEW s \in ArrivedRows, h = <<s, RowOutcome(s)>>
      PROVE  /\ CellArrival(Key(h[1]), done) = "pending" <=> h[2] = "upcoming"
             /\ CellArrival(Key(h[1]), done) = "absent" <=> h[2] = "absent"
             /\ "left_work" \in CellDepartures(Key(h[1])) <=> h[2] = "left"
  <2>1. h[1] = s /\ h[2] = RowOutcome(s) /\ att[s].ci # Never
    BY <1>2 DEF ArrivedRows, Arrived
  <2>2. CellArrival(Key(s), done) = "attended"
    BY DEF CellArrival
  <2>3. {r \in ArrivedRows : Key(r) = Key(s)} = {s}
    BY DEF OneRowPerKey, ArrivedRows
  <2>4. CellDepartures(Key(s)) = {att[s].cs}
    BY <2>3 DEF CellDepartures
  <2>5. QED
    BY <2>1, <2>2, <2>4, OutcomeOfRow
<1>3. CASE \E s \in roster : h = <<s, SlotOutcome(s, done)>>
  <2>1. PICK s \in roster : h = <<s, SlotOutcome(s, done)>>
    BY <1>3
  <2>2. CASE Arrived(s)
    BY <1>1, <1>2, <2>1, <2>2 DEF SlotOutcome, ArrivedRows, Rows, Arrived
  <2>3. CASE ~Arrived(s)
    <3>1. \A r \in ArrivedRows : Key(r) # Key(s)
      BY <2>3, NotCame
    <3>2. (\E r \in done : Key(r) = Key(s)) <=> s \in done
      BY <1>1, RosterKeysDiffer
    <3>3. CellArrival(Key(s), done) = IF s \in done THEN "absent" ELSE "pending"
      BY <3>1, <3>2 DEF CellArrival
    <3>4. "left_work" \notin CellDepartures(Key(s))
      BY <3>1 DEF CellDepartures
    <3>5. h[1] = s /\ h[2] = IF s \in done THEN "absent" ELSE "upcoming"
      BY <2>1, <2>3 DEF SlotOutcome
    <3>6. QED
      BY <3>3, <3>4, <3>5
  <2>4. QED
    BY <2>2, <2>3
<1>4. CASE \E s \in Rows : Key(s) \notin Keys(roster) /\ h = <<s, RowOutcome(s)>>
  <2>1. PICK s \in Rows : Key(s) \notin Keys(roster) /\ h = <<s, RowOutcome(s)>>
    BY <1>4
  <2>2. Key(s) \in Keys(ArrivedRows)
    BY <2>1 DEF MatrixKeys
  <2>3. PICK r \in ArrivedRows : Key(r) = Key(s)
    BY <2>2 DEF Keys
  <2>4. r = s
    BY <2>3 DEF OneRowPerKey, ArrivedRows
  <2>5. QED
    BY <1>2, <2>1, <2>3, <2>4
<1>5. QED
  BY <1>3, <1>4 DEF History

\* Once the month is over the page, the file and the dashboard tell one rate.
LEMMA RatesAreOne ==
  ASSUME IInv, IsFiniteSet(Slots), OneRowPerKey, NEW done \in SUBSET roster
  PROVE  RatesMatch(done)
<1> SUFFICES ASSUME done = roster
             PROVE  /\ PageRate(done) = FileRate(done)
                    /\ roster # {} /\ Attended \subseteq roster =>
                         AttendanceRate(Stats(done)) =
                           [percent |-> Percent(FileRate(done)[1], FileRate(done)[2]), basis |-> "settled"]
  BY DEF RatesMatch
<1>1. roster \subseteq Slots /\ ArrivedRows \subseteq Slots /\ IsFiniteSet(roster) /\ Came \subseteq roster
  BY FS_Subset DEF IInv, TypeOK, Rosterable, ArrivedRows, Rows, Came
<1>2. Cells("pending", done) = {}
  <2>1. (roster \ Came) \ done = {}
    OBVIOUS
  <2>2. Keys({}) = {}
    BY DEF Keys
  <2>3. QED
    BY <2>1, <2>2, CellsOfSlots
<1>3. MatrixKeys \ Cells("pending", done) = MatrixKeys
  BY <1>2
<1>4. PageRate(done) = FileRate(done)
  BY <1>3 DEF PageRate, FileRate
<1>5. ASSUME roster # {}, Attended \subseteq roster
      PROVE  AttendanceRate(Stats(done)) =
               [percent |-> Percent(FileRate(done)[1], FileRate(done)[2]), basis |-> "settled"]
  <2>1. Came = ArrivedRows
    BY <1>1, <1>5 DEF Came, Attended, ArrivedRows, Rows, Arrived
  <2>2. MatrixKeys = Keys(roster)
    BY <2>1, <1>1 DEF MatrixKeys, Keys
  <2>3. FileRate(done)[1] = Cardinality(Came) /\ FileRate(done)[2] = Cardinality(roster)
    BY <1>1, <1>3, <2>1, <2>2, CellsOfSlots, SlotsCount DEF FileRate
  <2>4. Stats(done).attendedSettled = Cardinality(Came) /\ Stats(done).absent = Cardinality(roster \ Came)
    <3>1. Came \cap done = Came /\ (roster \ Came) \cap done = roster \ Came
      BY <1>1
    <3>2. QED
      BY <3>1 DEF Stats
  <2>5. /\ Cardinality(roster \ Came) = Cardinality(roster) - Cardinality(Came)
        /\ Cardinality(Came) \in Nat /\ Cardinality(roster) \in Nat /\ Cardinality(roster) # 0
    <3>1. roster \cap Came = Came /\ IsFiniteSet(Came)
      BY <1>1, FS_Subset
    <3>2. QED
      BY <1>1, <1>5, <3>1, FS_Difference, FS_CardinalityType, FS_EmptySet
  <2>6. Stats(done).attendedSettled + Stats(done).absent = Cardinality(roster) /\ Cardinality(roster) > 0
    BY <2>4, <2>5
  <2>7. QED
    BY <2>3, <2>4, <2>6 DEF AttendanceRate
<1>6. QED
  BY <1>4, <1>5

\* On a day of one row the board shows whether the member came.
LEMMA BoardIsHistory ==
  ASSUME IInv, NEW done \in SUBSET roster
  PROVE  BoardMatches(done)
<1> SUFFICES ASSUME NEW s \in roster, \A r \in Rows : r.member = s.member /\ r.day = s.day => r = s
             PROVE  BoardStatuses(s) = {IF SlotOutcome(s, done) \in {"absent", "upcoming"} THEN "pending"
                                                                                      ELSE "attended"}
  BY DEF BoardMatches
<1> DEFINE theirs == {r \in Rows : r.member = s.member /\ r.day = s.day}
<1>1. theirs = IF s \in Rows THEN {s} ELSE {}
  OBVIOUS
<1>2. s \in Rows <=> Exists(s)
  BY DEF Rows, IInv, TypeOK, Rosterable
<1>3. CASE Arrived(s)
  <2>1. theirs = {s}
    BY <1>1, <1>2, <1>3 DEF Arrived
  <2>2. BoardStatuses(s) = {"attended"}
    BY <1>3, <2>1 DEF BoardStatuses
  <2>3. SlotOutcome(s, done) \notin {"absent", "upcoming"}
    BY <1>3, OutcomeOfRow DEF SlotOutcome, Arrived
  <2>4. QED
    BY <2>2, <2>3
<1>4. CASE ~Arrived(s)
  <2>1. theirs \in {{}, {s}}
    BY <1>1
  <2>2. BoardStatuses(s) = {"pending"}
    BY <1>4, <2>1 DEF BoardStatuses
  <2>3. SlotOutcome(s, done) \in {"absent", "upcoming"}
    BY <1>4 DEF SlotOutcome
  <2>4. QED
    BY <2>2, <2>3
<1>5. QED
  BY <1>3, <1>4

\* Who is inside now is nowhere shown as gone.
LEMMA PresentIsNotOut ==
  ASSUME IInv, NEW done \in SUBSET roster, NEW s \in PresentNow
  PROVE  <<s, "out">> \notin History(done)
<1>1. s \in Slots /\ Exists(s) /\ att[s].ci # Never /\ att[s].co = Never
  BY DEF PresentNow, Rows, Open, Arrived
<1>2. att[s].cs # "checked_out"
  BY <1>1 DEF IInv, RowsOK, RowOK
<1>3. RowOutcome(s) # "out" /\ SlotOutcome(s, done) # "out"
  BY <1>1, <1>2, OutcomeOfRow DEF SlotOutcome
<1>4. QED
  BY <1>3 DEF History

\* The screens agree in every state the invariant admits.
LEMMA OneMonthHolds == IsFiniteSet(Slots) => (IInv => OneMonth)
BY DashboardIsReview, HistoryIsCells, RatesAreOne, BoardIsHistory, PresentIsNotOut DEF OneMonth

\* However the writers interleave, every commit leaves a month that all screens
\* count alike: for any finite set of slots.
THEOREM ScreensAlwaysAgree ==
  ASSUME IsFiniteSet(Slots)
  PROVE  Spec => ScreensAgree
<1>1. IInv => OneMonth
  BY OneMonthHolds
<1>2. IInv' => (tables' # tables => OneMonth')
  BY <1>1, PTL
<1>3. QED
  BY <1>1, Inductive, PTL DEF Spec, ScreensAgree

=============================================================================
