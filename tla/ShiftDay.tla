------------------------------- MODULE ShiftDay -------------------------------
(***************************************************************************)
(* One member, the shifts of a few days, and the clock: taps that check in *)
(* and out, and the job that closes what was never checked out of.  The    *)
(* decisions are those of ShiftWindows; here they meet a calendar, so that *)
(* a window placed on a clock face can be compared with the hours of the   *)
(* slot it belongs to.  Attendance models how the writes interleave.       *)
(***************************************************************************)
EXTENDS ShiftWindows

CONSTANTS
  Shifts,
  Dates,         \* dates 0 .. Dates - 1 have a roster
  Installations, \* the shifts tables, settings rows and rosters to start from
  Horizon,       \* bound: the instant the model stops at
  NoRow          \* no attendance row

ASSUME DatesAssumption == Dates \in Nat /\ Horizon \in Nat

VARIABLES
  clock,     \* now, in units since date 0 began
  roster,    \* the slots the member is rostered on
  shiftOf,   \* the shifts table
  settings,  \* the app_settings row
  rows,      \* the attendance row of each slot
  swept      \* the job has run since the clock last moved

vars == <<clock, roster, shiftOf, settings, rows, swept>>

Slots == (0 .. Dates - 1) \X Shifts
Row == [status : {"present", "late"}, ci : Nat, co : Nat \cup {Unset},
        cs : {"none", "checked_out", "early_leave", "left_work"}]
SettingsRow == [enforce : BOOLEAN, bypass : BOOLEAN, autoLeave : BOOLEAN,
                start : Times, end : Times]

ASSUME NoRowAssumption == NoRow \notin Row
ASSUME InstallationsAssumption ==
  \A i \in Installations : /\ i.shifts \in [Shifts -> ShiftRow]
                           /\ i.settings \in SettingsRow
                           /\ i.rosters \subseteq SUBSET Slots

today == clock \div Day
minutesOfDay == clock % Day
Defaults == [start |-> settings.start, end |-> settings.end]

Arrived(sl) == rows[sl] # NoRow
StillOpen(sl) == Arrived(sl) /\ rows[sl].co = Unset
RosteredOn(d) == {s \in Shifts : <<d, s>> \in roster}
CheckedInOn(d) == {s \in Shifts : <<d, s>> \in Slots /\ Arrived(<<d, s>>)}

\* toOpen: every row of the date with an arrival and no departure, also the ones
\* already marked left_work.
ToOpen(d) == {[shift |-> s, date |-> d, ci |-> rows[<<d, s>>].ci] :
                s \in {r \in Shifts : <<d, r>> \in Slots /\ StillOpen(<<d, r>>)}}

CheckOutChoices ==
  DecideCheckOut(ToOpen(today), ToOpen(today - 1), shiftOf, settings.enforce,
                 settings.bypass, minutesOfDay, Defaults)

Init ==
  /\ clock = 0
  /\ \E i \in Installations :
       shiftOf = i.shifts /\ settings = i.settings /\ roster \in i.rosters
  /\ rows = [sl \in Slots |-> NoRow]
  /\ swept = FALSE

\* Time passes.  The job runs several times in a unit, so never less than once.
Tick ==
  /\ clock < Horizon
  /\ settings.autoLeave => swept
  /\ clock' = clock + 1
  /\ swept' = FALSE
  /\ UNCHANGED <<roster, shiftOf, settings, rows>>

CheckIn ==
  \E s \in DecideCheckIn(RosteredOn(today), CheckedInOn(today), shiftOf,
                         settings.enforce, minutesOfDay, Defaults) :
    /\ rows' = [rows EXCEPT ![<<today, s>>] =
                  [status |-> ArrivalStatus(shiftOf[s], minutesOfDay, Defaults),
                   ci |-> clock, co |-> Unset, cs |-> "none"]]
    /\ UNCHANGED <<clock, roster, shiftOf, settings, swept>>

\* Mutant: left_work is not asked about.
CheckOutOverLeft ==
  \E o \in CheckOutChoices :
    /\ rows' = [rows EXCEPT
                  ![<<o.date, o.shift>>].co = clock,
                  ![<<o.date, o.shift>>].cs =
                     DepartureStatus(shiftOf[o.shift], minutesOfDay, Defaults)]
    /\ UNCHANGED <<clock, roster, shiftOf, settings, swept>>

\* A chosen row marked left_work is refused.
CheckOut ==
  \E o \in CheckOutChoices :
    /\ rows[<<o.date, o.shift>>].cs # "left_work"
    /\ rows' = [rows EXCEPT
                  ![<<o.date, o.shift>>].co = clock,
                  ![<<o.date, o.shift>>].cs =
                     DepartureStatus(shiftOf[o.shift], minutesOfDay, Defaults)]
    /\ UNCHANGED <<clock, roster, shiftOf, settings, swept>>

\* Mutant: the job looks at today only.
SweepableToday(sl) ==
  /\ StillOpen(sl) /\ rows[sl].cs # "left_work"
  /\ sl[1] >= today
  /\ Overdue(sl[1], shiftOf[sl[2]], today, minutesOfDay)

\* The job closes the overdue rows of today and yesterday.
Sweepable(sl) ==
  /\ StillOpen(sl) /\ rows[sl].cs # "left_work"
  /\ sl[1] >= today - 1
  /\ Overdue(sl[1], shiftOf[sl[2]], today, minutesOfDay)

MarkLeftWork ==
  /\ settings.autoLeave /\ ~swept
  /\ rows' = [sl \in Slots |-> IF Sweepable(sl) THEN [rows[sl] EXCEPT !.cs = "left_work"]
                                                ELSE rows[sl]]
  /\ swept' = TRUE
  /\ UNCHANGED <<clock, roster, shiftOf, settings>>

Next == Tick \/ CheckIn \/ CheckOut \/ MarkLeftWork

Spec == Init /\ [][Next]_vars
LiveSpec == Spec /\ WF_vars(Tick) /\ WF_vars(MarkLeftWork)

-----------------------------------------------------------------------------
(* A slot on the calendar *)

\* The hours of a slot: its shift's windows, from the midnight its date begins at.
Hours(sl) ==
  LET w == PlaceWindow(shiftOf[sl[2]], 0, Defaults)
      At(t) == sl[1] * Day + t
  IN [ciOpen |-> At(w.ciOpen), ciLate |-> At(w.ciLate), ciClose |-> At(w.ciClose),
      coOpen |-> At(w.coOpen), coClose |-> At(w.coClose)]

Concluded(sl) ==
  SlotConcluded(sl[1], shiftOf[sl[2]], settings.enforce, today, minutesOfDay, Defaults)

Outcome(sl) ==
  IF Arrived(sl)
    THEN AttendanceOutcome(sl \in roster, Concluded(sl), rows[sl].ci, rows[sl].status,
                           rows[sl].co, rows[sl].cs)
    ELSE AttendanceOutcome(sl \in roster, Concluded(sl), Unset, "absent", Unset, "none")

-----------------------------------------------------------------------------
(* What the properties ask of an installation *)

\* When check-in closes: at the time entered, or by default Grace after it is late.
CheckInEnd(sh) == OrElse(sh.ciClose, ToClock(ToMin(sh.ciLate) + Grace))

\* The windows in order around the clock face, check-in over by midnight; all times
\* set but the close of check-in, which may be left to its default; the start and
\* the end are those createShift stores.
Ordered(sh) ==
  LET Place(t) == IF t < sh.ciOpen THEN t + Day ELSE t
  IN /\ {sh.ciOpen, sh.ciLate, CheckInEnd(sh), sh.coOpen, sh.coClose} \subseteq Clocks
     /\ sh.start = sh.ciLate /\ sh.end = sh.coOpen
     /\ Place(sh.ciLate) <= Place(CheckInEnd(sh)) /\ Place(CheckInEnd(sh)) < Day
     /\ Place(CheckInEnd(sh)) < Place(sh.coOpen) /\ Place(sh.coOpen) <= Place(sh.coClose)
     /\ Place(sh.coClose) >= Day => Place(sh.coOpen) >= Day

\* A shift with the times placeWindow takes by default filled in.
WithDefaults(sh) ==
  [sh EXCEPT !.ciOpen = OrElse(@, ToClock(ToMin(sh.ciLate) - Lead)),
             !.ciClose = CheckInEnd(sh),
             !.coClose = OrElse(@, ToClock(ToMin(sh.coOpen) + Span))]

\* More than a unit from the end of check-out to the next day's check-in.
Rests(sh) == sh.coClose < sh.ciOpen => sh.coClose + 1 < sh.ciOpen

\* Shifts in order and the job switched on; where the check-out window may be
\* bypassed, the job has run before the next check-in opens.
InOrder(i) ==
  /\ \A s \in Shifts : Ordered(i.shifts[s])
  /\ i.settings.autoLeave
  /\ i.settings.bypass => \A s \in Shifts : Rests(i.shifts[s])

-----------------------------------------------------------------------------
(* Properties *)

\* Every variable holds a value the program can hold.
TypeOK ==
  /\ clock \in 0 .. Horizon /\ swept \in BOOLEAN
  /\ roster \subseteq Slots
  /\ rows \in [Slots -> Row \cup {NoRow}]

\* With windows enforced an arrival lies in the check-in hours of the very slot
\* it is recorded on, not of a neighbouring day's.
ArrivalInItsHours ==
  settings.enforce =>
    \A sl \in Slots : Arrived(sl) =>
      Hours(sl).ciOpen <= rows[sl].ci /\ rows[sl].ci <= Hours(sl).ciClose

\* With windows enforced "late" says the late boundary of that slot had passed, and
\* nothing else does.
LateIsAfterTheBoundary ==
  settings.enforce =>
    \A sl \in Slots : Arrived(sl) => (rows[sl].status = "late" <=> rows[sl].ci > Hours(sl).ciLate)

\* With windows enforced a departure lies in the check-out hours of its slot, the
\* morning after for an overnight shift; a bypass lets it come before, as an early
\* leave.
DepartureInItsHours ==
  settings.enforce =>
    \A sl \in Slots : Arrived(sl) /\ rows[sl].co # Unset =>
      /\ rows[sl].co >= rows[sl].ci
      /\ ~settings.bypass => Hours(sl).coOpen <= rows[sl].co /\ rows[sl].co <= Hours(sl).coClose
      /\ rows[sl].cs = "early_leave" <=> rows[sl].co < Hours(sl).coOpen

\* With windows enforced, in the check-out hours of a slot a member who is still in
\* it can check out of it, or of another slot whose hours overlap.
CanStillLeave ==
  settings.enforce /\ ~settings.bypass =>
    \A sl \in Slots :
      /\ StillOpen(sl) /\ rows[sl].cs # "left_work"
      /\ Hours(sl).coOpen <= clock /\ clock <= Hours(sl).coClose
      => \E o \in CheckOutChoices : rows[<<o.date, o.shift>>].cs # "left_work"

\* A row the job closed blocks the check-out of its own slot, not of another slot
\* the member is in today.
LeftWorkBlocksOnlyItself ==
  (\E s \in Shifts : /\ <<today, s>> \in Slots /\ StillOpen(<<today, s>>)
                     /\ rows[<<today, s>>].cs # "left_work")
  => \A o \in CheckOutChoices : rows[<<o.date, o.shift>>].cs # "left_work"

\* The job marks a row only once the check-out hours of its slot have passed.
LeftOnlyAfterHours ==
  [][\A sl \in Slots : (Arrived(sl) /\ rows[sl].cs # "left_work" /\ rows'[sl].cs = "left_work")
                         => clock > Hours(sl).coClose]_vars

\* The record a file's line becomes is the record the same two times leave at the
\* door, where the door keeps to the windows.
ImportAgrees ==
  settings.enforce /\ ~settings.bypass =>
    \A sl \in Slots : Arrived(sl) /\ rows[sl].cs # "left_work" =>
      rows[sl] = ImportedSlot(shiftOf[sl[2]], sl[1], rows[sl].ci % Day,
                              IF rows[sl].co = Unset THEN Unset ELSE rows[sl].co % Day, Defaults)

\* With windows enforced, the shifts the check-in page offers are those the server
\* would accept; what the server accepts and the page does not offer lies before or
\* after the boundary of a window whose opening or close was left to its default,
\* which the page takes to be that boundary.
PickerMatchesServer ==
  \A s \in RosteredOn(today) :
    LET sh == shiftOf[s]
        w == PlaceWindow(sh, minutesOfDay, Defaults)
        in == PickerCheckInOpen(sh, minutesOfDay)
        out == PickerCheckOutOpen(sh, minutesOfDay)
    IN /\ in => CheckInOpen(w)
       /\ out => CheckOutOpen(w)
       /\ CheckInOpen(w) /\ ~in => (sh.ciOpen = Unset /\ w.now < w.ciLate)
                                  \/ (sh.ciClose = Unset /\ w.ciLate < w.now)
       /\ CheckOutOpen(w) /\ ~out => sh.coClose = Unset /\ w.coOpen < w.now

\* The list of the check-in page is the server's.
PickerIsTheServers ==
  \A s \in RosteredOn(today) :
    LET w == PlaceWindow(shiftOf[s], minutesOfDay, Defaults)
    IN /\ PickerCheckInOpen(shiftOf[s], minutesOfDay) <=> CheckInOpen(w)
       /\ PickerCheckOutOpen(shiftOf[s], minutesOfDay) <=> CheckOutOpen(w)

\* A slot's outcome only moves forward: an absence is final, so is the way someone
\* arrived and the way they left.
Life == INSTANCE SlotLife WITH life <- [sl \in Slots |-> Outcome(sl)]
OutcomeMovesForward == Life!Spec

\* Every rostered slot settles: sooner or later it is an absence or has a
\* departure, for good.
EverySlotSettles ==
  settings.autoLeave =>
    <>[](\A sl \in roster : Outcome(sl) = <<"absent">>
                             \/ Outcome(sl) \in {"present", "late"} \X {"out", "early", "left"})

=============================================================================
