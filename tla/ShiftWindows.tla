----------------------------- MODULE ShiftWindows -----------------------------
(***************************************************************************)
(* The arithmetic that decides which shift a tap belongs to: the windows   *)
(* of a shift placed on one scale, the check-in and check-out decisions,   *)
(* the record an imported line becomes, when a missing arrival becomes an  *)
(* absence, when the scheduler calls a row overdue, and the one outcome a  *)
(* slot is shown as.                                                       *)
(*                                                                         *)
(* A clock time is a number of units since midnight, Day of them to a day; *)
(* a time the shift does not set is Unset.  A date is a natural number.    *)
(***************************************************************************)
EXTENDS Integers

CONSTANTS
  Day,    \* units in a day (1440 minutes)
  Lead,   \* check-in opens this long before the late boundary by default
  Grace,  \* and closes this long after it
  Span,   \* check-out stays open this long by default
  Unset   \* a time that was not entered

ASSUME DayAssumption == Day \in Nat \ {0}
ASSUME SpansAssumption == Lead \in 0 .. Day /\ Grace \in 0 .. Day /\ Span \in 0 .. Day
ASSUME UnsetAssumption == Unset \notin Int

Clocks == 0 .. Day - 1
Times == Clocks \cup {Unset}

ShiftRow == [ciOpen : Times, ciLate : Times, ciClose : Times,
             coOpen : Times, coClose : Times, start : Times, end : Times]
WindowDefaults == [start : Times, end : Times]

OrElse(t, other) == IF t = Unset THEN other ELSE t
ToMin(t) == IF t = Unset THEN 0 ELSE t
ToClock(n) == n % Day

\* What createShift stores for the times of a form: the late boundary doubles as
\* the start, the opening of check-out as the end.
CreateShift(form) ==
  [form EXCEPT !.start = OrElse(form.ciLate, form.start),
               !.end = OrElse(form.coOpen, form.end)]

IsOvernight(sh) == ToMin(sh.end) <= ToMin(sh.start)

\* The five boundaries and the time m, on one scale anchored at check-in open.
PlaceWindow(sh, m, defaults) ==
  LET ciLate == OrElse(sh.ciLate, defaults.start)
      coOpen == OrElse(sh.coOpen, defaults.end)
      ciOpen == OrElse(sh.ciOpen, ToClock(ToMin(ciLate) - Lead))
      ciClose == OrElse(sh.ciClose, ToClock(ToMin(ciLate) + Grace))
      coClose == OrElse(sh.coClose, ToClock(ToMin(coOpen) + Span))
      Place(t) == IF ToMin(t) < ToMin(ciOpen) THEN ToMin(t) + Day ELSE ToMin(t)
  IN [ciOpen |-> Place(ciOpen), ciLate |-> Place(ciLate), ciClose |-> Place(ciClose),
      coOpen |-> Place(coOpen), coClose |-> Place(coClose), now |-> Place(m)]

CheckInOpen(w) == w.ciOpen <= w.now /\ w.now <= w.ciClose
CheckOutOpen(w) == w.coOpen <= w.now /\ w.now <= w.coClose

\* Mutant: the window is not asked about.
DecideCheckInAnyTime(rostered, checkedIn, shiftOf, enforce, m, defaults) ==
  LET candidates == rostered \ checkedIn
  IN {s \in candidates : \A r \in candidates : ToMin(shiftOf[s].start) <= ToMin(shiftOf[r].start)}

\* decideCheckIn: the shifts it may pick, one of several ties being the order the
\* rows came back in.  Empty when it refuses.
DecideCheckIn(rostered, checkedIn, shiftOf, enforce, m, defaults) ==
  LET W(s) == PlaceWindow(shiftOf[s], m, defaults)
      candidates == rostered \ checkedIn
      open == {s \in candidates : CheckInOpen(W(s))}
  IN IF enforce
       THEN {s \in open : \A r \in open : W(s).ciOpen <= W(r).ciOpen}
       ELSE {s \in candidates :
               \A r \in candidates : ToMin(shiftOf[s].start) <= ToMin(shiftOf[r].start)}

\* Mutant: the boundary itself is late.
ArrivalStatusStrict(sh, m, defaults) ==
  LET w == PlaceWindow(sh, m, defaults) IN IF w.now >= w.ciLate THEN "late" ELSE "present"

ArrivalStatus(sh, m, defaults) ==
  LET w == PlaceWindow(sh, m, defaults) IN IF w.now > w.ciLate THEN "late" ELSE "present"

\* Mutant: yesterday's overnight records are forgotten.
DecideCheckOutToday(today, yesterday, shiftOf, enforce, bypass, m, defaults) ==
  LET inWindow == {o \in today : CheckOutOpen(PlaceWindow(shiftOf[o.shift], m, defaults))}
  IN IF enforce /\ ~bypass
       THEN inWindow
       ELSE {o \in today : \A p \in today : o.ci <= p.ci}

\* Mutant: the window is not asked about.
DecideCheckOutAnyTime(today, yesterday, shiftOf, enforce, bypass, m, defaults) ==
  LET open == today \cup {o \in yesterday : IsOvernight(shiftOf[o.shift])}
  IN {o \in open : \A p \in open : o.ci <= p.ci}

\* decideCheckOut: the open records it may pick, today's before yesterday's, which
\* count only when their shift is overnight.  A record is [shift, date, ci].
DecideCheckOut(today, yesterday, shiftOf, enforce, bypass, m, defaults) ==
  LET open == today \cup {o \in yesterday : IsOvernight(shiftOf[o.shift])}
      inWindow == {o \in open : CheckOutOpen(PlaceWindow(shiftOf[o.shift], m, defaults))}
  IN IF enforce /\ ~bypass
       THEN IF inWindow \cap today # {} THEN inWindow \cap today ELSE inWindow
       ELSE {o \in open : \A p \in open : o.ci <= p.ci}

\* Mutant: the opening itself is early.
DepartureStatusStrict(sh, m, defaults) ==
  LET w == PlaceWindow(sh, m, defaults)
  IN IF w.now <= w.coOpen THEN "early_leave" ELSE "checked_out"

DepartureStatus(sh, m, defaults) ==
  LET w == PlaceWindow(sh, m, defaults)
  IN IF w.now < w.coOpen THEN "early_leave" ELSE "checked_out"

\* Mutant: a departure after midnight keeps the slot's date.
ImportedSlotSameDate(sh, date, in, out, settingsDefaults) ==
  LET defaults == [start |-> OrElse(settingsDefaults.start, sh.start),
                   end |-> OrElse(settingsDefaults.end, sh.end)]
  IN [status |-> ArrivalStatus(sh, in, defaults), ci |-> date * Day + in,
      co |-> IF out = Unset THEN Unset ELSE date * Day + out,
      cs |-> IF out = Unset THEN "none" ELSE DepartureStatus(sh, out, defaults)]

\* importedSlot: the record the typed times of a line become.  An instant is
\* date * Day + clock time.
ImportedSlot(sh, date, in, out, settingsDefaults) ==
  LET defaults == [start |-> OrElse(settingsDefaults.start, sh.start),
                   end |-> OrElse(settingsDefaults.end, sh.end)]
      NextIf(c) == IF c THEN date + 1 ELSE date
      inDate == NextIf(PlaceWindow(sh, in, defaults).now >= Day)
      outDate == NextIf(\/ PlaceWindow(sh, out, defaults).now >= Day
                        \/ IsOvernight(sh) /\ out < ToMin(sh.start))
  IN CASE in = Unset -> [status |-> "absent", ci |-> Unset, co |-> Unset, cs |-> "none"]
       [] in # Unset /\ out = Unset ->
            [status |-> ArrivalStatus(sh, in, defaults), ci |-> inDate * Day + in,
             co |-> Unset, cs |-> "none"]
       [] OTHER ->
            [status |-> ArrivalStatus(sh, in, defaults), ci |-> inDate * Day + in,
             co |-> outDate * Day + out, cs |-> DepartureStatus(sh, out, defaults)]

\* slotConcluded: from this moment a missing arrival is an absence.
SlotConcluded(date, sh, enforce, today, m, defaults) ==
  LET ciLate == ToMin(OrElse(sh.ciLate, defaults.start))
      coOpen == ToMin(OrElse(sh.coOpen, defaults.end))
      ciOpen == OrElse(sh.ciOpen, (ciLate - Lead) % Day)
      coClose == OrElse(sh.coClose, (coOpen + Span) % Day)
      slotEnd == IF coClose < ciOpen THEN coClose + Day ELSE coClose
      endDate == date + slotEnd \div Day
  IN IF ~enforce
       THEN date < today
       ELSE today > endDate \/ (today = endDate /\ m >= slotEnd % Day)

\* Mutant: the closing minute is left out.
PickerOpenUntil(from, to, m, anchor) ==
  LET Place(t) == IF ToMin(t) < ToMin(anchor) THEN ToMin(t) + Day ELSE ToMin(t)
  IN Place(from) <= Place(m) /\ Place(m) < Place(to)

\* The check-in page's own idea of an open window, on the same clock face.
PickerOpen(from, to, m, anchor) ==
  LET Place(t) == IF ToMin(t) < ToMin(anchor) THEN ToMin(t) + Day ELSE ToMin(t)
  IN Place(from) <= Place(m) /\ Place(m) <= Place(to)
PickerCheckInOpen(sh, m) ==
  LET start == OrElse(sh.ciOpen, sh.start) IN PickerOpen(start, OrElse(sh.ciClose, sh.start), m, start)
PickerCheckOutOpen(sh, m) ==
  PickerOpen(OrElse(sh.coOpen, sh.end), OrElse(sh.coClose, sh.end), m, OrElse(sh.ciOpen, sh.start))

\* Mutant: the closing minute is already over.
OverdueAtClose(date, sh, today, m) ==
  LET close == OrElse(sh.coClose, ToMin(sh.end))
      overnight == sh.ciOpen # Unset /\ close < sh.ciOpen
      deadline == IF overnight THEN date + 1 ELSE date
  IN today > deadline \/ (today = deadline /\ m >= close)

\* mark-left-work: the scheduler's own deadline for an open row.
Overdue(date, sh, today, m) ==
  LET close == OrElse(sh.coClose, ToMin(sh.end))
      overnight == sh.ciOpen # Unset /\ close < sh.ciOpen
      deadline == IF overnight THEN date + 1 ELSE date
  IN today > deadline \/ (today = deadline /\ m > close)

\* attendanceOutcome: arrival first, then the worst departure.
AttendanceOutcome(hasRoster, concluded, ci, status, co, cs) ==
  LET arrived == IF status = "late" THEN "late" ELSE "present" IN
  IF ci = Unset
    THEN IF ~hasRoster THEN <<"off">> ELSE IF concluded THEN <<"absent">> ELSE <<"upcoming">>
    ELSE IF cs = "left_work" THEN <<arrived, "left">>
    ELSE IF cs = "early_leave" THEN <<arrived, "early">>
    ELSE IF co # Unset \/ cs = "checked_out" THEN <<arrived, "out">>
    ELSE <<arrived, "open">>

=============================================================================
