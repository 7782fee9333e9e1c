------------------------------- MODULE Reports -------------------------------
(***************************************************************************)
(* What the screens say of the attendance of a month: the matrix of the    *)
(* review page and its totals, the history of a member, the counts and the *)
(* rate of the dashboard, the board of a day and the list of who is inside *)
(* now.  Each reads the same two tables in its own way; here all of them   *)
(* read one committed state of Attendance.                                 *)
(*                                                                         *)
(* Which rostered slots are concluded is `done'; ShiftWindows decides it.  *)
(* Filters, paging, names, branches and groups are left out.               *)
(***************************************************************************)
EXTENDS Attendance

\* NoSlot stands for "no shift" in a key.
ASSUME NoShiftAssumption == NoSlot \notin Shifts

\* What tells two slots of a member apart on a screen: rows without a shift
\* fall together.
Key(s) == <<s.member, s.day, IF HasShift(s) THEN s.shift ELSE NoSlot>>

Keys(S) == {Key(s) : s \in S}

Rows == {s \in Slots : Exists(s)}

ArrivedRows == {s \in Rows : Arrived(s)}

-----------------------------------------------------------------------------
(* The monthly matrix: a cell for each rostered slot, and one for each     *)
(* arrival nobody was rostered for.                                        *)

MatrixKeys == Keys(roster) \cup Keys(ArrivedRows)

\* Only rows with an arrival are read, so an entered absence is no row here.
CellArrival(k, done) ==
  IF \E s \in ArrivedRows : Key(s) = k THEN "attended"
  ELSE IF \E s \in done : Key(s) = k THEN "absent" ELSE "pending"

\* Several rows under one key: any of them may be the one that is found.
CellDepartures(k) == {att[s].cs : s \in {r \in ArrivedRows : Key(r) = k}}

Cells(status, done) == {k \in MatrixKeys : CellArrival(k, done) = status}

\* The totals under the matrix of the review page.
ReviewTotals(done) == [status \in {"attended", "absent", "pending"} |-> Cardinality(Cells(status, done))]

\* The last column: on the page over all the slots, in the file over those that
\* are not pending.
PageRate(done) == <<Cardinality(Cells("attended", done)), Cardinality(MatrixKeys)>>
FileRate(done) ==
  <<Cardinality(Cells("attended", done)), Cardinality(MatrixKeys \ Cells("pending", done))>>

-----------------------------------------------------------------------------
(* The history of a member: every rostered slot, and every other row.      *)

\* attendanceOutcome: arrival first, then the worst departure.
RowOutcome(s) ==
  CASE att[s].ci = Never -> "absent"
    [] att[s].ci # Never /\ att[s].cs = "left_work" -> "left"
    [] att[s].ci # Never /\ att[s].cs # "left_work"
         /\ (att[s].co # Never \/ att[s].cs = "checked_out") -> "out"
    [] OTHER -> "open"

\* Mutant: an entered row settles a slot before its time.
SlotOutcomeByRow(s, done) ==
  IF Exists(s) THEN RowOutcome(s) ELSE IF s \in done THEN "absent" ELSE "upcoming"

SlotOutcome(s, done) ==
  IF Arrived(s) THEN RowOutcome(s) ELSE IF s \in done THEN "absent" ELSE "upcoming"

History(done) == {<<s, SlotOutcome(s, done)>> : s \in roster}
                   \cup {<<s, RowOutcome(s)>> : s \in {r \in Rows : Key(r) \notin Keys(roster)}}

-----------------------------------------------------------------------------
(* The dashboard.                                                          *)

\* Mutant: every row counts as an attendance.
AttendedRows == Rows

Attended == ArrivedRows

\* Each rostered slot is judged once.
Came == {s \in roster : Arrived(s)}

Stats(done) ==
  [attended |-> Cardinality(Attended),
   absent |-> Cardinality((roster \ Came) \cap done),
   pending |-> Cardinality((roster \ Came) \ done),
   attendedOpen |-> Cardinality(Came \ done),
   attendedSettled |-> Cardinality(Came \cap done)]

Percent(n, d) == (200 * n + d) \div (2 * d)

\* Over what is settled; while nothing is, over what is open.
AttendanceRate(c) ==
  LET settled == c.attendedSettled + c.absent
      open == c.pending + c.attendedOpen
  IN IF settled > 0 THEN [percent |-> Percent(c.attendedSettled, settled), basis |-> "settled"]
     ELSE IF open > 0 THEN [percent |-> Percent(c.attendedOpen, open), basis |-> "open"]
     ELSE [percent |-> 0, basis |-> "none"]

-----------------------------------------------------------------------------
(* The board of a day, and who is inside.                                  *)

\* A rostered person is shown with any one row of the day, whatever its shift;
\* a slot that is over is not told from one that is not.
BoardStatuses(s) ==
  LET theirs == {r \in Rows : r.member = s.member /\ r.day = s.day}
  IN IF theirs = {} THEN {"pending"}
     ELSE {IF Arrived(r) THEN "attended" ELSE "pending" : r \in theirs}

PresentNow == {s \in Rows : Open(s)}

-----------------------------------------------------------------------------
(* Properties.                                                             *)

\* No two rows without a shift on one day.
OneRowPerKey == \A r, s \in Rows : Key(r) = Key(s) => r = s

\* Every rostered slot is judged once, and the counts are those of the matrix.
DashboardMatchesReview(done) ==
  LET c == Stats(done)
  IN /\ [attended |-> c.attended, absent |-> c.absent, pending |-> c.pending] = ReviewTotals(done)
     /\ c.absent + c.pending + c.attendedOpen + c.attendedSettled = Cardinality(roster)

HistoryMatchesCells(done) ==
  LET keys == MatrixKeys
  IN \A h \in History(done) : LET k == Key(h[1]) IN k \in keys =>
       LET arrival == CellArrival(k, done)
       IN /\ arrival = "pending" <=> h[2] = "upcoming"
          /\ arrival = "absent" <=> h[2] = "absent"
          /\ "left_work" \in CellDepartures(k) <=> h[2] = "left"

\* Once the month is over: the page, the file and, unless somebody came who was
\* not rostered, the dashboard.
RatesMatch(done) ==
  done = roster =>
    /\ PageRate(done) = FileRate(done)
    /\ roster # {} /\ Attended \subseteq roster =>
         AttendanceRate(Stats(done)) =
           [percent |-> Percent(FileRate(done)[1], FileRate(done)[2]), basis |-> "settled"]

BoardMatches(done) ==
  \A s \in roster :
    (\A r \in Rows : r.member = s.member /\ r.day = s.day => r = s) =>
      BoardStatuses(s) = {IF SlotOutcome(s, done) \in {"absent", "upcoming"} THEN "pending"
                                                                             ELSE "attended"}

\* However the writers interleave and whichever slots are over, the screens that
\* count one month count the same: the dashboard what the review page totals and
\* every rostered slot once, the history of a slot what its cell shows, the rates
\* alike once nothing is pending, the board of a day where a member has one row.
OneMonth ==
  OneRowPerKey => \A done \in SUBSET roster :
    /\ DashboardMatchesReview(done)
    /\ HistoryMatchesCells(done)
    /\ RatesMatch(done)
    /\ BoardMatches(done)
    /\ \A s \in PresentNow : <<s, "out">> \notin History(done)

\* Every commit leaves it so (what is committed changes in no other step).
ScreensAgree == [][tables' # tables => OneMonth']_vars

-----------------------------------------------------------------------------
(* What the comments say and the code does not keep.                       *)

\* matrix.ts:4, of the cells: the screen and the exported file must agree on them
\* exactly.  Their rates do not.
PageAndFileAgree == \A done \in SUBSET roster : PageRate(done) = FileRate(done)

\* A slot that is over and was not attended is an absence on the board too.
BoardShowsAbsence ==
  \A done \in SUBSET roster : \A s \in done : ~Arrived(s) => "absent" \in BoardStatuses(s)
=============================================================================
