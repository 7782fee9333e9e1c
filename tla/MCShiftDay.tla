------------------------------ MODULE MCShiftDay ------------------------------
(***************************************************************************)
(* Shift tables and settings for TLC.  A form is what an admin fills in;   *)
(* createShift makes the row of it.                                        *)
(***************************************************************************)
EXTENDS ShiftDay, TLC

CONSTANTS first, second

Form(open, late, close, out, end) ==
  [ciOpen |-> open, ciLate |-> late, ciClose |-> close, coOpen |-> out, coClose |-> end,
   start |-> late, end |-> out]

Alone(f) == [s \in Shifts |-> CreateShift(f)]
Both(f, g) == (first :> CreateShift(f)) @@ (second :> CreateShift(g))

AppSettings(enforce, bypass, autoLeave) ==
  [enforce |-> enforce, bypass |-> bypass, autoLeave |-> autoLeave,
   start |-> 1, end |-> Day \div 2]

Install(tables, enforce, bypass, slots) ==
  {[shifts |-> t, settings |-> AppSettings(e, b, TRUE), rosters |-> (SUBSET slots) \ {{}}] :
     t \in tables, e \in enforce, b \in bypass}

SlotsOf(s) == {sl \in Slots : sl[2] = s}

\* Every form in order around the clock face, with all five times or without the
\* close of check-in.
FormsFrom(open) == {Form(open, b, c, d, e) : b, d, e \in Clocks, c \in Times}
AllForms == UNION {{f \in FormsFrom(a) : Ordered(CreateShift(f))} : a \in Clocks}
OrderedShifts == Install({Alone(f) : f \in AllForms}, {TRUE}, {FALSE}, SlotsOf(first))

\* On the same clock: a day shift beside a night or an evening shift; one shift with a
\* bypass; one slot without enforcement.
Early == Form(0, 1, 1, 2, 3)
Late == Form(4, 5, 6, 1, 2)
Evening == Form(3, 4, 4, 5, 6)
Beside ==
  Install({Both(Early, Late), Both(Early, Evening)}, {TRUE}, {FALSE}, Slots)
    \cup Install({Alone(Late), Alone(Early)}, {TRUE}, {TRUE}, SlotsOf(first))
    \cup Install({Both(Late, Early)}, {FALSE}, {FALSE}, {<<0, first>>})

AllDays == OrderedShifts \cup Beside

ASSUME AllDaysInOrder == \A i \in AllDays : InOrder(i)

\* A day shift, a night shift and an evening shift with all their times, and a day
\* shift whose closing times are left to the defaults.
DayForm == Form(3, 4, 5, 10, 11)
NightForm == Form(12, 13, 14, 4, 5)
EveningForm == Form(8, 9, 10, 12, 14)
OpenForm == Form(3, 4, Unset, 8, Unset)

\* Two shifts a day with windows enforced; one shift with a bypass, and one without
\* enforcement.
Calendars ==
  Install({Both(DayForm, NightForm), Both(DayForm, EveningForm)}, {TRUE}, {FALSE}, Slots)
    \cup Install({Both(NightForm, DayForm)}, {TRUE}, {TRUE}, {sl \in Slots : sl[2] = first})
    \cup Install({Both(NightForm, DayForm), Both(OpenForm, DayForm)}, {FALSE}, {FALSE},
                 {sl \in Slots : sl = <<0, first>>})

\* Windows not enforced, as a new installation has it.
Free == Install({Alone(DayForm), Alone(NightForm)}, {FALSE}, {FALSE}, Slots)

\* An evening shift that ends before midnight and may be left until after it.
LateEvening == Install({Alone(Form(8, 9, 10, 14, 1))}, {TRUE}, {FALSE}, Slots)

\* A shift whose closing times are left to the defaults, windows enforced.
OpenEnded == Install({Alone(OpenForm)}, {TRUE}, {FALSE}, Slots)

\* Every form in order, any of its opening and closing times left to the defaults.
DefaultForms == {Form(a, b, c, d, e) : a, c, e \in Times, b, d \in Clocks}
Defaulted ==
  Install({Alone(f) : f \in {g \in DefaultForms : Ordered(WithDefaults(CreateShift(g)))}},
          {TRUE}, {FALSE}, SlotsOf(first))

\* A shift checked into around midnight.
AroundMidnight == Install({Alone(Form(14, 15, 1, 6, 8))}, {TRUE}, {FALSE}, Slots)
=============================================================================
