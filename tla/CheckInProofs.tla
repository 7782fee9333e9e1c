---------------------------- MODULE CheckInProofs ----------------------------
(***************************************************************************)
(* Proofs about when and where a member may check in.                      *)
(*                                                                         *)
(* First the hours: ShiftDay, for every length of the day, every roster,   *)
(* every shifts table in order and every horizon.  The arithmetic comes    *)
(* first: what the clock-face operators of ShiftWindows say of a slot's    *)
(* hours on the calendar.                                                  *)
(*                                                                         *)
(* Then the gates: CheckIn, for every set of rules, every branch on the    *)
(* grid and any number of runs.  The geometry comes first (an area covers  *)
(* what a ray without corner cases says it covers), then the order of the  *)
(* gates, then what a run of the page knows.                               *)
(***************************************************************************)
EXTENDS ShiftDay, CheckIn, TLAPS, WellFoundedInduction

-----------------------------------------------------------------------------
(* Instants, dates and clock times *)

\* An instant is a date and a clock time.
LEMMA InstantParts ==
  ASSUME NEW c \in Nat
  PROVE  /\ c \div Day \in Nat /\ c % Day \in Clocks
         /\ c = ((c \div Day) * Day) + (c % Day)
  BY DayAssumption DEF Clocks

\* A date and a clock time are one instant.
LEMMA PartsOfInstant ==
  ASSUME NEW d \in Int, NEW m \in Clocks
  PROVE  (d * Day + m) % Day = m /\ (d * Day + m) \div Day = d /\ d * Day + m \in Int
  BY DayAssumption, SMTT(30) DEF Clocks

\* The next midnight is a day later, and the one of a later date not before it.
LEMMA Midnights ==
  ASSUME NEW d \in Int, NEW e \in Int
  PROVE  /\ (d + 1) * Day = d * Day + Day /\ d * Day \in Int
         /\ d < e => d * Day + Day <= e * Day
         /\ d + 1 < e => d * Day + 2 * Day <= e * Day
  <1>1. (d + 1) * Day = d * Day + Day /\ d * Day \in Int
    BY DayAssumption, SMTT(30)
  <1>2. d < e => d * Day + Day <= e * Day
    BY DayAssumption, SMTT(30)
  <1>3. d + 1 < e => d * Day + 2 * Day <= e * Day
    BY DayAssumption, SMTT(30)
  <1>4. QED
    BY <1>1, <1>2, <1>3

LEMMA MidnightIsInt ==
  ASSUME NEW d \in Int
  PROVE  d * Day \in Int
  BY DayAssumption

LEMMA FirstMidnights ==
  ASSUME NEW d \in Nat
  PROVE  d * Day \in Nat /\ (0 < d => Day <= d * Day)
  <1>1. d * Day \in Nat
    BY DayAssumption
  <1>2. 0 < d => Day <= d * Day
    BY DayAssumption, SMTT(30)
  <1>3. QED
    BY <1>1, <1>2

\* A later instant is not on an earlier date.
LEMMA DatesInOrder ==
  ASSUME NEW c \in Nat, NEW e \in Nat, c <= e
  PROVE  c \div Day <= e \div Day
  <1>1. PICK t \in Nat, m \in Clocks : t = c \div Day /\ c = t * Day + m
    BY InstantParts
  <1>2. PICK u \in Nat, n \in Clocks : u = e \div Day /\ e = u * Day + n
    BY InstantParts
  <1>3. u * Day \in Int /\ t * Day \in Int /\ (u < t => u * Day + Day <= t * Day)
    BY Midnights, MidnightIsInt
  <1>4. QED
    BY <1>1, <1>2, <1>3, DayAssumption DEF Clocks

LEMMA DatesAdd ==
  ASSUME NEW d \in Int, NEW e \in Int
  PROVE  (d + e) * Day = d * Day + e * Day
  BY DayAssumption, SMTT(30)

-----------------------------------------------------------------------------
(* The windows of an ordered shift *)

\* A clock time of shift sh on the scale that starts when its check-in opens.
Placed(sh, t) == IF t < sh.ciOpen THEN t + Day ELSE t

\* placeWindow keeps the five times of a shift that sets them all.
LEMMA PlaceWindowOf ==
  ASSUME NEW sh, Ordered(sh), NEW m \in Clocks, NEW d
  PROVE  PlaceWindow(sh, m, d) =
           [ciOpen |-> sh.ciOpen, ciLate |-> Placed(sh, sh.ciLate),
            ciClose |-> Placed(sh, CheckInEnd(sh)), coOpen |-> Placed(sh, sh.coOpen),
            coClose |-> Placed(sh, sh.coClose), now |-> Placed(sh, m)]
  <1>1. \A t \in Clocks : t # Unset /\ ToMin(t) = t /\ \A o : OrElse(t, o) = t
    BY UnsetAssumption, DayAssumption DEF Clocks, ToMin, OrElse
  <1>2. {sh.ciOpen, sh.ciLate, CheckInEnd(sh), sh.coOpen, sh.coClose} \subseteq Clocks
    BY DEF Ordered
  <1>3. sh.ciOpen \in Int /\ ~(sh.ciOpen < sh.ciOpen)
    BY <1>2, DayAssumption DEF Clocks
  <1>4. OrElse(sh.ciClose, ToClock(ToMin(OrElse(sh.ciLate, d.start)) + Grace)) = CheckInEnd(sh)
    BY <1>1, <1>2 DEF CheckInEnd
  <1>5. QED
    BY <1>1, <1>2, <1>3, <1>4, Zenon DEF PlaceWindow, Placed

\* The boundaries of an ordered shift, as numbers.
Bounds(sh) ==
  /\ sh.ciOpen \in Clocks /\ sh.ciLate \in Clocks /\ CheckInEnd(sh) \in Clocks
  /\ sh.coOpen \in Clocks /\ sh.coClose \in Clocks
  /\ sh.start = sh.ciLate /\ sh.end = sh.coOpen
  /\ sh.ciOpen <= Placed(sh, sh.ciLate) /\ Placed(sh, sh.ciLate) <= Placed(sh, CheckInEnd(sh))
  /\ Placed(sh, CheckInEnd(sh)) < Day
  /\ Placed(sh, CheckInEnd(sh)) < Placed(sh, sh.coOpen)
  /\ Placed(sh, sh.coOpen) <= Placed(sh, sh.coClose)
  /\ Placed(sh, sh.coClose) < sh.ciOpen + Day
  /\ Placed(sh, sh.coClose) >= Day => Placed(sh, sh.coOpen) >= Day

LEMMA OrderedBounds ==
  ASSUME NEW sh, Ordered(sh)
  PROVE  Bounds(sh)
  BY DayAssumption DEF Ordered, Bounds, Placed, Clocks

\* A shift is overnight exactly when its check-out opens on the next date.
LEMMA OvernightIs ==
  ASSUME NEW sh, Ordered(sh)
  PROVE  IsOvernight(sh) <=> Placed(sh, sh.coOpen) >= Day
  <1>1. \A t \in Clocks : ToMin(t) = t
    BY UnsetAssumption, DayAssumption DEF Clocks, ToMin
  <1>2. Bounds(sh)
    BY OrderedBounds
  <1>3. IsOvernight(sh) <=> sh.coOpen <= sh.ciLate
    BY <1>1, <1>2 DEF IsOvernight, Bounds
  <1>4. QED
    BY <1>2, <1>3, DayAssumption DEF Bounds, Placed, Clocks

\* The job calls a row overdue exactly when the check-out hours of its slot have
\* passed.
LEMMA OverdueIs ==
  ASSUME NEW sh, Ordered(sh), NEW d \in Nat, NEW c \in Nat
  PROVE  Overdue(d, sh, c \div Day, c % Day) <=> c > d * Day + Placed(sh, sh.coClose)
  <1>1. Bounds(sh)
    BY OrderedBounds
  <1>2. sh.ciOpen # Unset /\ OrElse(sh.coClose, ToMin(sh.end)) = sh.coClose
    BY <1>1, UnsetAssumption, DayAssumption DEF Bounds, Clocks, OrElse
  <1> DEFINE over == sh.coClose < sh.ciOpen
             deadline == IF over THEN d + 1 ELSE d
  <1>3. Overdue(d, sh, c \div Day, c % Day) <=>
          c \div Day > deadline \/ (c \div Day = deadline /\ c % Day > sh.coClose)
    BY <1>2 DEF Overdue
  <1>4. d * Day + Placed(sh, sh.coClose) = deadline * Day + sh.coClose
    <2>1. (d + 1) * Day = d * Day + Day /\ d * Day \in Int
      BY Midnights
    <2>2. QED
      BY <2>1, <1>1, DayAssumption DEF Bounds, Clocks, Placed
  <1>5. deadline \in Int /\ sh.coClose \in Clocks
    BY <1>1 DEF Bounds
  <1> HIDE DEF deadline
  <1>6. PICK t \in Nat, m \in Clocks : t = c \div Day /\ m = c % Day /\ c = t * Day + m
    BY InstantParts
  <1>7. CASE t = deadline
    BY <1>3, <1>4, <1>5, <1>6, <1>7, Midnights, DayAssumption DEF Clocks
  <1>8. CASE t < deadline
    <2>1. t * Day + Day <= deadline * Day /\ t * Day \in Int /\ deadline * Day \in Int
      BY <1>5, <1>6, <1>8, Midnights
    <2>2. QED
      BY <2>1, <1>3, <1>4, <1>5, <1>6, <1>8, DayAssumption DEF Clocks
  <1>9. CASE deadline < t
    <2>1. deadline * Day + Day <= t * Day /\ t * Day \in Int /\ deadline * Day \in Int
      BY <1>5, <1>6, <1>9, Midnights
    <2>2. QED
      BY <2>1, <1>3, <1>4, <1>5, <1>6, <1>9, DayAssumption DEF Clocks
  <1>10. QED
    BY <1>5, <1>6, <1>7, <1>8, <1>9

\* With windows enforced a missing arrival is an absence from the end of the slot's
\* check-out hours on.
LEMMA ConcludedIs ==
  ASSUME NEW sh, Ordered(sh), NEW d \in Nat, NEW c \in Nat, NEW def
  PROVE  SlotConcluded(d, sh, TRUE, c \div Day, c % Day, def)
           <=> c >= d * Day + Placed(sh, sh.coClose)
  <1>1. Bounds(sh)
    BY OrderedBounds
  <1>2. OrElse(sh.ciOpen, (ToMin(OrElse(sh.ciLate, def.start)) - Lead) % Day) = sh.ciOpen
    BY <1>1, UnsetAssumption, DayAssumption DEF Bounds, Clocks, OrElse
  <1>3. OrElse(sh.coClose, (ToMin(OrElse(sh.coOpen, def.end)) + Span) % Day) = sh.coClose
    BY <1>1, UnsetAssumption, DayAssumption DEF Bounds, Clocks, OrElse
  <1> DEFINE e == Placed(sh, sh.coClose)
             last == d + e \div Day
  <1>4. SlotConcluded(d, sh, TRUE, c \div Day, c % Day, def) <=>
          c \div Day > last \/ (c \div Day = last /\ c % Day >= e % Day)
    BY <1>2, <1>3 DEF SlotConcluded, Placed
  <1>5. e \in Nat
    BY <1>1, DayAssumption DEF Bounds, Clocks, Placed
  <1>6. PICK q \in Nat, r \in Clocks : q = e \div Day /\ r = e % Day /\ e = q * Day + r
    BY <1>5, InstantParts
  <1>7. PICK t \in Nat, m \in Clocks : t = c \div Day /\ m = c % Day /\ c = t * Day + m
    BY InstantParts
  <1>8. d * Day + e = last * Day + r /\ last \in Int
    <2>1. (d + q) * Day = d * Day + q * Day
      BY <1>6, DatesAdd
    <2>2. d * Day \in Int /\ q * Day \in Int
      BY <1>6, Midnights
    <2>3. last = d + q /\ r \in Int
      BY <1>6, DayAssumption DEF Clocks
    <2>4. QED
      BY <2>1, <2>2, <2>3, <1>6
  <1>9. PICK l \in Int : l = last
    BY <1>8
  <1>10. /\ SlotConcluded(d, sh, TRUE, c \div Day, c % Day, def) <=> t > l \/ (t = l /\ m >= r)
         /\ d * Day + Placed(sh, sh.coClose) = l * Day + r
    BY <1>4, <1>6, <1>7, <1>8, <1>9
  <1> SUFFICES (t > l \/ (t = l /\ m >= r)) <=> t * Day + m >= l * Day + r
    BY <1>7, <1>10
  <1> HIDE DEF last, e
  <1>11. /\ l * Day \in Int /\ t * Day \in Int
         /\ t < l => t * Day + Day <= l * Day
         /\ l < t => l * Day + Day <= t * Day
    <2>1. t \in Int /\ l \in Int
      BY <1>7, <1>9
    <2>2. t * Day \in Int /\ (t < l => t * Day + Day <= l * Day)
      BY <2>1, Midnights
    <2>3. l * Day \in Int /\ (l < t => l * Day + Day <= t * Day)
      BY <2>1, Midnights
    <2>4. QED
      BY <2>2, <2>3
  <1>12. QED
    BY <1>6, <1>7, <1>9, <1>11, DayAssumption DEF Clocks

\* With its defaults filled in a shift is placed as before.
LEMMA DefaultsArePlaced ==
  ASSUME NEW sh \in ShiftRow, Ordered(WithDefaults(sh)), NEW m \in Clocks, NEW def
  PROVE  LET full == WithDefaults(sh) IN
         /\ full.ciLate = sh.ciLate /\ full.coOpen = sh.coOpen
         /\ full.start = sh.start /\ full.end = sh.end
         /\ full.ciOpen = OrElse(sh.ciOpen, ToClock(ToMin(sh.ciLate) - Lead))
         /\ CheckInEnd(full) = CheckInEnd(sh)
         /\ full.coClose = OrElse(sh.coClose, ToClock(ToMin(sh.coOpen) + Span))
         /\ PlaceWindow(sh, m, def) = PlaceWindow(full, m, def)
  <1> DEFINE full == WithDefaults(sh)
  <1>1. /\ full.ciLate = sh.ciLate /\ full.coOpen = sh.coOpen
        /\ full.start = sh.start /\ full.end = sh.end
        /\ full.ciOpen = OrElse(sh.ciOpen, ToClock(ToMin(sh.ciLate) - Lead))
        /\ full.ciClose = CheckInEnd(sh)
        /\ full.coClose = OrElse(sh.coClose, ToClock(ToMin(sh.coOpen) + Span))
    BY DEF WithDefaults, ShiftRow
  <1>2. \A t \in Clocks : t # Unset /\ ToMin(t) = t /\ \A o : OrElse(t, o) = t
    BY UnsetAssumption, DayAssumption DEF Clocks, ToMin, OrElse
  <1>3. full.ciOpen \in Clocks /\ full.coClose \in Clocks /\ sh.ciLate \in Clocks /\ sh.coOpen \in Clocks
    BY <1>1 DEF Ordered
  <1>4. CheckInEnd(sh) \in Clocks
    <2>1. CASE sh.ciClose = Unset
      <3>1. sh.ciLate + Grace \in Int
        BY <1>3, SpansAssumption, DayAssumption DEF Clocks
      <3>2. CheckInEnd(sh) = (sh.ciLate + Grace) % Day
        BY <1>2, <1>3, <2>1 DEF CheckInEnd, OrElse, ToClock
      <3>3. QED
        BY <3>1, <3>2, DayAssumption DEF Clocks
    <2>2. CASE sh.ciClose # Unset
      BY <2>2 DEF CheckInEnd, OrElse, ShiftRow, Times
    <2>3. QED
      BY <2>1, <2>2
  <1>5. CheckInEnd(full) = CheckInEnd(sh)
    BY <1>1, <1>2, <1>4 DEF CheckInEnd
  <1>6. PlaceWindow(sh, m, def) = PlaceWindow(full, m, def)
    <2>1. OrElse(sh.ciLate, def.start) = sh.ciLate /\ OrElse(full.ciLate, def.start) = sh.ciLate
      BY <1>1, <1>2, <1>3
    <2>2. OrElse(sh.coOpen, def.end) = sh.coOpen /\ OrElse(full.coOpen, def.end) = sh.coOpen
      BY <1>1, <1>2, <1>3
    <2>3. OrElse(full.ciOpen, ToClock(ToMin(sh.ciLate) - Lead)) = OrElse(sh.ciOpen, ToClock(ToMin(sh.ciLate) - Lead))
      BY <1>1, <1>2, <1>3
    <2>4. OrElse(full.ciClose, ToClock(ToMin(sh.ciLate) + Grace)) = OrElse(sh.ciClose, ToClock(ToMin(sh.ciLate) + Grace))
      BY <1>1, <1>2, <1>4 DEF CheckInEnd
    <2>5. OrElse(full.coClose, ToClock(ToMin(sh.coOpen) + Span)) = OrElse(sh.coClose, ToClock(ToMin(sh.coOpen) + Span))
      BY <1>1, <1>2, <1>3
    <2> HIDE DEF full
    <2>6. QED
      BY <2>1, <2>2, <2>3, <2>4, <2>5, Zenon DEF PlaceWindow
  <1>7. QED
    BY <1>1, <1>5, <1>6

\* The windows the check-in page draws, as far as they are the windows the server places.
LEMMA PickerIs ==
  ASSUME NEW sh \in ShiftRow, Ordered(WithDefaults(sh)), NEW m \in Clocks, NEW def
  PROVE  LET w == PlaceWindow(sh, m, def)
             in == PickerCheckInOpen(sh, m)
             out == PickerCheckOutOpen(sh, m)
         IN /\ in => CheckInOpen(w)
            /\ out => CheckOutOpen(w)
            /\ CheckInOpen(w) /\ ~in => (sh.ciOpen = Unset /\ w.now < w.ciLate)
                                       \/ (sh.ciClose = Unset /\ w.ciLate < w.now)
            /\ CheckOutOpen(w) /\ ~out => sh.coClose = Unset /\ w.coOpen < w.now
  <1>1. PICK full : full = WithDefaults(sh) /\ Ordered(full)
    OBVIOUS
  <1>2. Bounds(full)
    BY <1>1, OrderedBounds
  <1>3. \A t \in Clocks : t # Unset /\ ToMin(t) = t /\ \A o : OrElse(t, o) = t
    BY UnsetAssumption, DayAssumption DEF Clocks, ToMin, OrElse
  <1>4. PICK a, l, c, b, e, n \in Clocks :
          a = full.ciOpen /\ l = sh.ciLate /\ c = CheckInEnd(full) /\ b = sh.coOpen /\ e = full.coClose /\ n = m
    BY <1>1, <1>2, DefaultsArePlaced DEF Bounds
  <1> DEFINE P(t) == IF t < a THEN t + Day ELSE t
             L(t) == IF t < l THEN t + Day ELSE t
  <1>5. PlaceWindow(sh, m, def) = [ciOpen |-> a, ciLate |-> P(l), ciClose |-> P(c), coOpen |-> P(b),
                                   coClose |-> P(e), now |-> P(n)]
    BY <1>1, <1>4, DefaultsArePlaced, PlaceWindowOf DEF Placed
  <1>6. /\ a <= P(l) /\ P(l) <= P(c) /\ P(c) < Day /\ P(c) < P(b) /\ P(b) <= P(e) /\ P(e) < a + Day
        /\ sh.start = l /\ sh.end = b
    BY <1>1, <1>2, <1>4, DefaultsArePlaced DEF Bounds, Placed
  <1>7. /\ sh.ciOpen = a \/ sh.ciOpen = Unset
        /\ sh.ciClose = c \/ sh.ciClose = Unset
        /\ sh.coClose = e \/ sh.coClose = Unset
    BY <1>1, <1>4, DefaultsArePlaced DEF OrElse, CheckInEnd
  <1>8. OrElse(sh.coOpen, sh.end) = b
    BY <1>3, <1>4
  <1>9. PickerCheckInOpen(sh, m) <=>
          LET to == IF sh.ciClose = Unset THEN l ELSE c IN
          IF sh.ciOpen = Unset THEN L(l) <= L(n) /\ L(n) <= L(to) ELSE P(a) <= P(n) /\ P(n) <= P(to)
    BY <1>3, <1>4, <1>6, <1>7 DEF PickerCheckInOpen, PickerOpen, OrElse
  <1>10. PickerCheckOutOpen(sh, m) <=>
          LET to == IF sh.coClose = Unset THEN b ELSE e IN
          IF sh.ciOpen = Unset THEN L(b) <= L(n) /\ L(n) <= L(to) ELSE P(b) <= P(n) /\ P(n) <= P(to)
    BY <1>3, <1>4, <1>6, <1>7, <1>8 DEF PickerCheckOutOpen, PickerOpen, OrElse
  <1>11. /\ CheckInOpen(PlaceWindow(sh, m, def)) <=> a <= P(n) /\ P(n) <= P(c)
         /\ CheckOutOpen(PlaceWindow(sh, m, def)) <=> P(b) <= P(n) /\ P(n) <= P(e)
    BY <1>5 DEF CheckInOpen, CheckOutOpen
  <1>12. QED
    BY <1>4, <1>5, <1>6, <1>9, <1>10, <1>11, DayAssumption DEF Clocks

-----------------------------------------------------------------------------
(* The inductive invariant *)

\* Every installation the model starts from has its shifts in order.
AllInOrder == \A i \in Installations : InOrder(i)

\* What an installation fixes: the shifts in order, the settings, the roster.
Installed ==
  /\ shiftOf \in [Shifts -> ShiftRow] /\ \A s \in Shifts : Ordered(shiftOf[s])
  /\ settings \in SettingsRow /\ settings.autoLeave
  /\ settings.bypass => \A s \in Shifts : Rests(shiftOf[s])

\* The last instant of a slot's check-out hours.
LastLeave(sl) == sl[1] * Day + Placed(shiftOf[sl[2]], shiftOf[sl[2]].coClose)

\* An arrival is of a rostered slot, on its date, and not in the future.
ArrivalOnDate(sl) ==
  /\ sl \in roster
  /\ sl[1] * Day <= rows[sl].ci /\ rows[sl].ci < sl[1] * Day + Day /\ rows[sl].ci <= clock

\* A departure follows the arrival; its status and its time are written together.
DepartureAfter(sl) ==
  /\ rows[sl].co = Unset => rows[sl].cs \in {"none", "left_work"}
  /\ rows[sl].co # Unset =>
       /\ rows[sl].ci <= rows[sl].co /\ rows[sl].co <= clock
       /\ rows[sl].cs \in {"checked_out", "early_leave"}

\* With windows enforced the arrival and the departure are in the slot's hours, and
\* their statuses say on which side of the boundary they fell.
InHours(sl) ==
  LET sh == shiftOf[sl[2]]
      On(t) == sl[1] * Day + Placed(sh, t)
  IN /\ sl[1] * Day + sh.ciOpen <= rows[sl].ci /\ rows[sl].ci <= On(CheckInEnd(sh))
     /\ rows[sl].status = "late" <=> rows[sl].ci > On(sh.ciLate)
     /\ rows[sl].co # Unset =>
          /\ ~settings.bypass => On(sh.coOpen) <= rows[sl].co /\ rows[sl].co <= On(sh.coClose)
          /\ rows[sl].cs = "early_leave" <=> rows[sl].co < On(sh.coOpen)

\* The job keeps up: it closes a row only once its check-out hours have passed, and
\* leaves no row open for more than a unit longer, none once it has run.
KeptUp(sl) ==
  /\ rows[sl].cs = "left_work" => clock > LastLeave(sl)
  /\ settings.enforce /\ rows[sl].co = Unset /\ rows[sl].cs # "left_work" =>
       clock <= LastLeave(sl) + 1 /\ (swept => clock <= LastLeave(sl))

IInv ==
  /\ TypeOK /\ Installed
  /\ \A sl \in Slots : Arrived(sl) =>
       /\ ArrivalOnDate(sl) /\ DepartureAfter(sl) /\ KeptUp(sl)
       /\ settings.enforce => InHours(sl)

LEMMA SlotParts ==
  ASSUME NEW sl \in Slots
  PROVE  sl[1] \in Nat /\ sl[2] \in Shifts /\ sl = <<sl[1], sl[2]>>
  BY DatesAssumption DEF Slots

\* Now is a date and a clock time.
LEMMA NowParts ==
  ASSUME TypeOK
  PROVE  /\ clock \in Nat /\ today \in Nat /\ minutesOfDay \in Clocks
         /\ clock = today * Day + minutesOfDay
         /\ today * Day <= clock /\ clock < today * Day + Day
  <1>1. clock \in Nat
    BY DatesAssumption DEF TypeOK
  <1>2. /\ today \in Nat /\ minutesOfDay \in Clocks
        /\ clock = (today * Day) + minutesOfDay
    BY <1>1, InstantParts DEF today, minutesOfDay
  <1>3. PICK t \in Nat, m \in Clocks : t = today /\ m = minutesOfDay /\ clock = t * Day + m
    BY <1>2
  <1>4. t * Day \in Int
    BY <1>3, MidnightIsInt
  <1>5. t * Day <= clock /\ clock < t * Day + Day
    BY <1>1, <1>3, <1>4, DayAssumption DEF Clocks
  <1>6. QED
    BY <1>1, <1>2, <1>3, <1>5

LEMMA InitInv ==
  ASSUME AllInOrder, Init
  PROVE  IInv
  <1>1. PICK i \in Installations :
          shiftOf = i.shifts /\ settings = i.settings /\ roster \in i.rosters
    BY DEF Init
  <1>2. /\ i.shifts \in [Shifts -> ShiftRow] /\ i.settings \in SettingsRow
        /\ i.rosters \subseteq SUBSET Slots
    BY InstallationsAssumption
  <1>3. InOrder(i)
    BY DEF AllInOrder
  <1>4. Installed
    BY <1>1, <1>2, <1>3 DEF Installed, InOrder
  <1>5. TypeOK
    <2>1. clock \in 0 .. Horizon
      BY DatesAssumption DEF Init
    <2>2. swept \in BOOLEAN
      BY DEF Init
    <2>3. roster \subseteq Slots
      BY <1>1, <1>2
    <2>4. rows \in [Slots -> Row \cup {NoRow}]
      BY DEF Init
    <2>5. QED
      BY <2>1, <2>2, <2>3, <2>4 DEF TypeOK
  <1>6. \A sl \in Slots : ~Arrived(sl)
    BY DEF Init, Arrived
  <1>7. QED
    BY <1>4, <1>5, <1>6 DEF IInv

\* Nothing an installation fixes ever changes.
LEMMA InstalledStays ==
  ASSUME Installed, UNCHANGED <<shiftOf, settings>>
  PROVE  Installed'
  BY DEF Installed

\* What a row needs of the step it is unchanged by: the clock may only have moved on,
\* and only by a unit after the job has run.
LEMMA RowStays ==
  ASSUME IInv, NEW sl \in Slots, Arrived(sl), rows'[sl] = rows[sl],
         UNCHANGED <<roster, shiftOf, settings>>, clock' \in Nat,
         \/ clock' = clock /\ (swept' => swept)
         \/ clock' = clock + 1 /\ swept /\ ~swept'
  PROVE  /\ ArrivalOnDate(sl)' /\ DepartureAfter(sl)' /\ KeptUp(sl)'
         /\ settings'.enforce => InHours(sl)'
  <1>1. rows[sl] \in Row /\ clock \in Nat /\ swept \in BOOLEAN
    BY DatesAssumption DEF IInv, TypeOK, Arrived
  <1>2. /\ ArrivalOnDate(sl) /\ DepartureAfter(sl) /\ KeptUp(sl)
        /\ settings.enforce => InHours(sl)
    BY DEF IInv
  <1>3. ArrivalOnDate(sl)' /\ DepartureAfter(sl)'
    BY <1>1, <1>2, UnsetAssumption DEF ArrivalOnDate, DepartureAfter, Row
  <1>4. settings'.enforce => InHours(sl)'
    BY <1>2 DEF InHours
  <1>5. LastLeave(sl)' = LastLeave(sl) /\ LastLeave(sl) \in Int
    <2>1. sl[1] \in Nat /\ sl[2] \in Shifts
      BY SlotParts
    <2>2. sl[1] * Day \in Int
      BY <2>1, MidnightIsInt
    <2>3. Bounds(shiftOf[sl[2]])
      BY <2>1, OrderedBounds DEF IInv, Installed
    <2>4. QED
      BY <2>2, <2>3, DayAssumption DEF LastLeave, Bounds, Placed, Clocks
  <1>6. KeptUp(sl)'
    BY <1>1, <1>2, <1>5 DEF KeptUp
  <1>7. QED
    BY <1>3, <1>4, <1>6

LEMMA TickInv ==
  ASSUME IInv, Tick
  PROVE  IInv'
  <1>1. /\ clock \in Nat /\ clock' = clock + 1 /\ swept /\ ~swept'
        /\ UNCHANGED <<roster, shiftOf, settings, rows>>
    BY DatesAssumption DEF IInv, TypeOK, Installed, Tick
  <1>2. Installed'
    BY <1>1, InstalledStays DEF IInv
  <1>3. TypeOK'
    <2>1. clock' \in 0 .. Horizon
      BY <1>1, DatesAssumption DEF IInv, TypeOK, Tick
    <2>2. swept' \in BOOLEAN
      BY DEF Tick
    <2>3. QED
      BY <1>1, <2>1, <2>2 DEF IInv, TypeOK
  <1>4. ASSUME NEW sl \in Slots, Arrived(sl)'
        PROVE  /\ ArrivalOnDate(sl)' /\ DepartureAfter(sl)' /\ KeptUp(sl)'
               /\ settings'.enforce => InHours(sl)'
    BY <1>1, <1>4, RowStays DEF Arrived
  <1>5. QED
    BY <1>2, <1>3, <1>4 DEF IInv

\* With windows enforced a tap that may check in is in the check-in hours of today's
\* slot, and its status says whether the late boundary has passed.
LEMMA ArrivalHours ==
  ASSUME IInv, NEW s \in Shifts, CheckInOpen(PlaceWindow(shiftOf[s], minutesOfDay, Defaults))
  PROVE  LET sh == shiftOf[s]
         IN /\ today * Day + sh.ciOpen <= clock
            /\ clock <= today * Day + Placed(sh, CheckInEnd(sh))
            /\ ArrivalStatus(sh, minutesOfDay, Defaults) = "late"
                 <=> clock > today * Day + Placed(sh, sh.ciLate)
            /\ clock < today * Day + Placed(sh, sh.coClose)
  <1> DEFINE sh == shiftOf[s]
  <1>1. Ordered(sh) /\ Bounds(sh)
    BY OrderedBounds DEF IInv, Installed
  <1>2. /\ clock \in Nat /\ today \in Nat /\ minutesOfDay \in Clocks
        /\ clock = today * Day + minutesOfDay
    BY NowParts DEF IInv
  <1>3. PICK t \in Nat, m \in Clocks : t = today /\ m = minutesOfDay /\ clock = t * Day + m
    BY <1>2
  <1>4. PICK w : w = PlaceWindow(sh, m, Defaults)
    OBVIOUS
  <1>5. w = [ciOpen |-> sh.ciOpen, ciLate |-> Placed(sh, sh.ciLate),
             ciClose |-> Placed(sh, CheckInEnd(sh)), coOpen |-> Placed(sh, sh.coOpen),
             coClose |-> Placed(sh, sh.coClose), now |-> Placed(sh, m)]
    BY <1>1, <1>4, PlaceWindowOf
  <1>6. sh.ciOpen <= Placed(sh, m) /\ Placed(sh, m) <= Placed(sh, CheckInEnd(sh))
    BY <1>3, <1>4, <1>5 DEF CheckInOpen
  <1>7. Placed(sh, m) = m
    BY <1>1, <1>6, DayAssumption DEF Bounds, Clocks, Placed
  <1>8. ArrivalStatus(sh, m, Defaults) = "late" <=> m > Placed(sh, sh.ciLate)
    BY <1>4, <1>5, <1>7 DEF ArrivalStatus
  <1>9. t * Day \in Int
    BY <1>3, MidnightIsInt
  <1>10. /\ Placed(sh, CheckInEnd(sh)) \in Int /\ Placed(sh, sh.ciLate) \in Int
         /\ Placed(sh, sh.coClose) \in Int /\ Placed(sh, CheckInEnd(sh)) < Placed(sh, sh.coClose)
    BY <1>1, DayAssumption DEF Bounds, Clocks, Placed
  <1> HIDE DEF sh
  <1>11. /\ t * Day + sh.ciOpen <= clock /\ clock <= t * Day + Placed(sh, CheckInEnd(sh))
         /\ m > Placed(sh, sh.ciLate) <=> clock > t * Day + Placed(sh, sh.ciLate)
         /\ clock < t * Day + Placed(sh, sh.coClose)
    BY <1>1, <1>3, <1>6, <1>7, <1>9, <1>10, DayAssumption DEF Clocks, Bounds
  <1>12. QED
    BY <1>3, <1>8, <1>11 DEF sh

LEMMA CheckInInv ==
  ASSUME IInv, CheckIn
  PROVE  IInv'
  <1>1. PICK s \in DecideCheckIn(RosteredOn(today), CheckedInOn(today), shiftOf,
                                 settings.enforce, minutesOfDay, Defaults) :
          /\ rows' = [rows EXCEPT ![<<today, s>>] =
                        [status |-> ArrivalStatus(shiftOf[s], minutesOfDay, Defaults),
                         ci |-> clock, co |-> Unset, cs |-> "none"]]
          /\ UNCHANGED <<clock, roster, shiftOf, settings, swept>>
    BY DEF CheckIn
  <1>2. /\ s \in RosteredOn(today)
        /\ settings.enforce => CheckInOpen(PlaceWindow(shiftOf[s], minutesOfDay, Defaults))
    BY <1>1 DEF DecideCheckIn
  <1>0. PICK mine, row :
          /\ mine = <<today, s>>
          /\ row = [status |-> ArrivalStatus(shiftOf[s], minutesOfDay, Defaults),
                    ci |-> clock, co |-> Unset, cs |-> "none"]
    OBVIOUS
  <1>3. s \in Shifts /\ mine \in roster /\ mine \in Slots /\ mine[1] = today /\ mine[2] = s
    BY <1>0, <1>2 DEF RosteredOn, IInv, TypeOK
  <1>4. row \in Row /\ clock \in Nat
    <2>1. clock \in Nat
      BY DatesAssumption DEF IInv, TypeOK
    <2>2. ArrivalStatus(shiftOf[s], minutesOfDay, Defaults) \in {"present", "late"}
      BY DEF ArrivalStatus
    <2>3. QED
      BY <1>0, <2>1, <2>2 DEF Row
  <1>5. rows'[mine] = row /\ \A sl \in Slots : sl # mine => rows'[sl] = rows[sl]
    BY <1>0, <1>1, <1>3 DEF IInv, TypeOK
  <1>6. Installed'
    BY <1>1, InstalledStays DEF IInv
  <1>7. TypeOK'
    <2>1. rows' \in [Slots -> Row \cup {NoRow}]
      BY <1>0, <1>1, <1>3, <1>4 DEF IInv, TypeOK
    <2>2. QED
      BY <1>1, <2>1 DEF IInv, TypeOK
  <1>8. ASSUME NEW sl \in Slots, Arrived(sl)', sl # mine
        PROVE  /\ ArrivalOnDate(sl)' /\ DepartureAfter(sl)' /\ KeptUp(sl)'
               /\ settings'.enforce => InHours(sl)'
    BY <1>1, <1>4, <1>5, <1>8, RowStays DEF Arrived
  <1>9. ArrivalOnDate(mine)'
    <2>1. today * Day <= clock /\ clock < today * Day + Day
      BY NowParts DEF IInv
    <2>2. QED
      BY <1>0, <1>1, <1>3, <1>4, <1>5, <2>1 DEF ArrivalOnDate
  <1>10. DepartureAfter(mine)'
    BY <1>0, <1>5 DEF DepartureAfter
  <1>11. CASE settings.enforce
    <2>1. LET sh == shiftOf[s]
          IN /\ today * Day + sh.ciOpen <= clock
             /\ clock <= today * Day + Placed(sh, CheckInEnd(sh))
             /\ ArrivalStatus(sh, minutesOfDay, Defaults) = "late"
                  <=> clock > today * Day + Placed(sh, sh.ciLate)
             /\ clock < today * Day + Placed(sh, sh.coClose)
      BY <1>2, <1>3, <1>11, ArrivalHours
    <2>2. InHours(mine)'
      BY <1>0, <1>1, <1>3, <1>5, <2>1 DEF InHours
    <2>3. clock < LastLeave(mine) /\ LastLeave(mine)' = LastLeave(mine)
      BY <1>1, <1>3, <2>1 DEF LastLeave
    <2>4. LastLeave(mine) \in Int
      <3>1. today \in Nat /\ today * Day \in Int
        BY NowParts, MidnightIsInt DEF IInv
      <3>2. Bounds(shiftOf[s])
        BY <1>3, OrderedBounds DEF IInv, Installed
      <3>3. QED
        BY <1>3, <3>1, <3>2, DayAssumption DEF LastLeave, Bounds, Placed, Clocks
    <2>5. KeptUp(mine)'
      BY <1>0, <1>1, <1>4, <1>5, <2>3, <2>4 DEF KeptUp
    <2>6. QED
      BY <1>3, <1>6, <1>7, <1>8, <1>9, <1>10, <2>2, <2>5 DEF IInv
  <1>12. CASE ~settings.enforce
    <2>1. KeptUp(mine)' /\ ~settings'.enforce
      BY <1>0, <1>1, <1>5, <1>12 DEF KeptUp
    <2>2. QED
      BY <1>3, <1>6, <1>7, <1>8, <1>9, <1>10, <2>1 DEF IInv
  <1>13. QED
    BY <1>11, <1>12

\* What decideCheckOut picks is an open row of today, or of yesterday's when its
\* shift is overnight; with windows enforced and no bypass one in its window.
LEMMA ChoiceIs ==
  ASSUME IInv, NEW o \in CheckOutChoices
  PROVE  /\ <<o.date, o.shift>> \in Slots /\ o.shift \in Shifts /\ o.date \in Nat
         /\ StillOpen(<<o.date, o.shift>>)
         /\ \/ o.date = today
            \/ o.date = today - 1 /\ IsOvernight(shiftOf[o.shift])
         /\ settings.enforce /\ ~settings.bypass =>
              CheckOutOpen(PlaceWindow(shiftOf[o.shift], minutesOfDay, Defaults))
  <1>1. \A d \in Int : \A r \in ToOpen(d) :
          r.date = d /\ r.shift \in Shifts /\ <<d, r.shift>> \in Slots /\ StillOpen(<<d, r.shift>>)
    <2> SUFFICES ASSUME NEW d \in Int, NEW r \in ToOpen(d)
                 PROVE  /\ r.date = d /\ r.shift \in Shifts
                        /\ <<d, r.shift>> \in Slots /\ StillOpen(<<d, r.shift>>)
      OBVIOUS
    <2>1. PICK s \in Shifts : /\ <<d, s>> \in Slots /\ StillOpen(<<d, s>>)
                             /\ r = [shift |-> s, date |-> d, ci |-> rows[<<d, s>>].ci]
      BY Zenon DEF ToOpen
    <2>2. r.date = d /\ r.shift = s
      BY <2>1
    <2>3. QED
      BY <2>1, <2>2
  <1>2. /\ \/ o \in ToOpen(today)
           \/ o \in ToOpen(today - 1) /\ IsOvernight(shiftOf[o.shift])
        /\ settings.enforce /\ ~settings.bypass =>
             CheckOutOpen(PlaceWindow(shiftOf[o.shift], minutesOfDay, Defaults))
    BY DEF CheckOutChoices, DecideCheckOut
  <1>3. today \in Int /\ today - 1 \in Int
    BY NowParts DEF IInv
  <1>4. <<o.date, o.shift>> \in Slots
    BY <1>1, <1>2, <1>3
  <1>5. o.date \in Nat
    BY <1>4, DatesAssumption DEF Slots
  <1>6. QED
    BY <1>1, <1>2, <1>3, <1>5

\* With windows enforced, where a departure may be recorded the window's scale and the
\* calendar agree: now is as long after the slot's midnight as the window places it.
LEMMA DepartureHours ==
  ASSUME IInv, settings.enforce, NEW o \in CheckOutChoices,
         rows[<<o.date, o.shift>>].cs # "left_work"
  PROVE  clock = o.date * Day + Placed(shiftOf[o.shift], minutesOfDay)
  <1>1. PICK sl : sl = <<o.date, o.shift>>
    OBVIOUS
  <1>2. /\ sl \in Slots /\ sl[1] = o.date /\ sl[2] = o.shift /\ o.shift \in Shifts
        /\ o.date \in Nat /\ Arrived(sl) /\ rows[sl].co = Unset
    BY <1>1, ChoiceIs DEF StillOpen
  <1>3. PICK sh : sh = shiftOf[o.shift]
    OBVIOUS
  <1>4. Ordered(sh) /\ Bounds(sh)
    BY <1>2, <1>3, OrderedBounds DEF IInv, Installed
  <1>5. PICK t \in Nat, m \in Clocks : t = today /\ m = minutesOfDay /\ clock = t * Day + m
    BY NowParts DEF IInv
  <1>6. rows[sl].ci \in Nat /\ clock \in Nat
    BY <1>2, DatesAssumption DEF IInv, TypeOK, Arrived, Row
  <1>7. /\ o.date * Day + sh.ciOpen <= clock
        /\ clock <= o.date * Day + Placed(sh, sh.coClose) + 1
    <2>1. /\ sl[1] * Day + sh.ciOpen <= rows[sl].ci /\ rows[sl].ci <= clock
          /\ clock <= LastLeave(sl) + 1
      BY <1>1, <1>2, <1>3 DEF IInv, InHours, ArrivalOnDate, KeptUp
    <2>2. o.date * Day \in Int
      BY <1>2, MidnightIsInt
    <2>3. QED
      BY <1>2, <1>3, <1>4, <1>6, <2>1, <2>2, DayAssumption
        DEF LastLeave, Bounds, Placed, Clocks
  <1>8. t * Day \in Int
    BY MidnightIsInt
  <1>9. CASE o.date = t
    <2>1. sh.ciOpen <= m
      BY <1>4, <1>5, <1>7, <1>8, <1>9, DayAssumption DEF Bounds, Clocks
    <2>2. QED
      BY <1>3, <1>4, <1>5, <1>8, <1>9, <2>1, DayAssumption DEF Bounds, Clocks, Placed
  <1>10. CASE o.date = t - 1 /\ IsOvernight(sh)
    <2>1. t * Day = o.date * Day + Day /\ o.date * Day \in Int
      <3>1. o.date \in Int /\ o.date + 1 = t
        BY <1>2, <1>10
      <3>2. (o.date + 1) * Day = o.date * Day + Day /\ o.date * Day \in Int
        BY <3>1, Midnights
      <3>3. QED
        BY <3>1, <3>2
    <2>2. m < sh.ciOpen
      <3>1. Placed(sh, sh.coOpen) >= Day
        BY <1>4, <1>10, OvernightIs
      <3>2. CASE settings.bypass
        <4>1. Rests(sh)
          BY <1>2, <1>3, <3>2 DEF IInv, Installed
        <4>2. sh.coClose < sh.ciOpen
          BY <1>4, <3>1, DayAssumption DEF Bounds, Clocks, Placed
        <4>3. Placed(sh, sh.coClose) = sh.coClose + Day /\ sh.coClose + 1 < sh.ciOpen
          BY <4>1, <4>2 DEF Rests, Placed
        <4>4. sh.coClose \in Int /\ sh.ciOpen \in Int /\ m \in Int
          BY <1>4, <1>5, DayAssumption DEF Bounds, Clocks
        <4>5. QED
          BY <1>5, <1>7, <1>8, <2>1, <4>3, <4>4, DayAssumption
      <3>3. CASE ~settings.bypass
        <4>1. PICK w : w = PlaceWindow(sh, m, Defaults)
          OBVIOUS
        <4>2. w.coOpen <= w.now
          BY <1>3, <1>5, <3>3, <4>1, ChoiceIs DEF CheckOutOpen
        <4>3. w.coOpen = Placed(sh, sh.coOpen) /\ w.now = Placed(sh, m)
          BY <1>4, <4>1, PlaceWindowOf
        <4>4. QED
          BY <1>4, <1>5, <3>1, <4>2, <4>3, DayAssumption DEF Bounds, Clocks, Placed
      <3>4. QED
        BY <3>2, <3>3
    <2>3. QED
      BY <1>3, <1>4, <1>5, <1>8, <2>1, <2>2, DayAssumption DEF Bounds, Clocks, Placed
  <1>11. QED
    BY <1>3, <1>5, <1>9, <1>10, ChoiceIs

LEMMA CheckOutInv ==
  ASSUME IInv, CheckOut
  PROVE  IInv'
  <1>1. PICK o \in CheckOutChoices :
          /\ rows[<<o.date, o.shift>>].cs # "left_work"
          /\ rows' = [rows EXCEPT
                        ![<<o.date, o.shift>>].co = clock,
                        ![<<o.date, o.shift>>].cs =
                           DepartureStatus(shiftOf[o.shift], minutesOfDay, Defaults)]
          /\ UNCHANGED <<clock, roster, shiftOf, settings, swept>>
    BY DEF CheckOut
  <1>2. PICK sl, dep : /\ sl = <<o.date, o.shift>>
                       /\ dep = DepartureStatus(shiftOf[o.shift], minutesOfDay, Defaults)
    OBVIOUS
  <1>3. /\ sl \in Slots /\ sl[1] = o.date /\ sl[2] = o.shift /\ o.shift \in Shifts
        /\ o.date \in Nat /\ Arrived(sl) /\ rows[sl].co = Unset
    BY <1>2, ChoiceIs DEF StillOpen
  <1>4. rows[sl] \in Row /\ clock \in Nat
    BY <1>3, DatesAssumption DEF IInv, TypeOK, Arrived
  <1>5. dep \in {"early_leave", "checked_out"}
    BY <1>2 DEF DepartureStatus
  <1>6. /\ rows'[sl] = [rows[sl] EXCEPT !.co = clock, !.cs = dep]
        /\ \A x \in Slots : x # sl => rows'[x] = rows[x]
        /\ rows' \in [Slots -> Row \cup {NoRow}]
    <2>1. rows' = [rows EXCEPT ![sl] = [rows[sl] EXCEPT !.co = clock, !.cs = dep]]
      BY <1>1, <1>2, <1>3 DEF IInv, TypeOK
    <2>2. [rows[sl] EXCEPT !.co = clock, !.cs = dep] \in Row
      BY <1>4, <1>5 DEF Row
    <2>3. QED
      BY <1>3, <2>1, <2>2 DEF IInv, TypeOK
  <1>7. /\ rows'[sl].ci = rows[sl].ci /\ rows'[sl].status = rows[sl].status
        /\ rows'[sl].co = clock /\ rows'[sl].cs = dep
    BY <1>4, <1>6 DEF Row
  <1>8. Installed' /\ TypeOK'
    BY <1>1, <1>6, InstalledStays DEF IInv, TypeOK
  <1>9. ASSUME NEW x \in Slots, Arrived(x)', x # sl
        PROVE  /\ ArrivalOnDate(x)' /\ DepartureAfter(x)' /\ KeptUp(x)'
               /\ settings'.enforce => InHours(x)'
    BY <1>1, <1>4, <1>6, <1>9, RowStays DEF Arrived
  <1>10. clock # Unset
    BY <1>4, UnsetAssumption
  <1>11. ArrivalOnDate(sl)' /\ DepartureAfter(sl)' /\ KeptUp(sl)'
    <2>1. ArrivalOnDate(sl)
      BY <1>3 DEF IInv
    <2>2. ArrivalOnDate(sl)'
      BY <1>1, <1>7, <2>1 DEF ArrivalOnDate
    <2>3. DepartureAfter(sl)'
      BY <1>1, <1>4, <1>5, <1>7, <1>10, <2>1 DEF ArrivalOnDate, DepartureAfter
    <2>4. KeptUp(sl)'
      BY <1>5, <1>7, <1>10 DEF KeptUp
    <2>5. QED
      BY <2>2, <2>3, <2>4
  <1>12. ASSUME settings.enforce PROVE InHours(sl)'
    <2>1. PICK sh, m : sh = shiftOf[o.shift] /\ m = minutesOfDay
      OBVIOUS
    <2>2. Ordered(sh) /\ Bounds(sh) /\ m \in Clocks
      BY <1>3, <2>1, OrderedBounds, NowParts DEF IInv, Installed
    <2>3. clock = o.date * Day + Placed(sh, m) /\ o.date * Day \in Int
      BY <1>1, <1>2, <1>3, <1>12, <2>1, DepartureHours, MidnightIsInt
    <2>4. PICK w : w = PlaceWindow(sh, m, Defaults)
      OBVIOUS
    <2>5. w.coOpen = Placed(sh, sh.coOpen) /\ w.coClose = Placed(sh, sh.coClose)
            /\ w.now = Placed(sh, m)
      BY <2>2, <2>4, PlaceWindowOf
    <2>6. ~settings.bypass => w.coOpen <= w.now /\ w.now <= w.coClose
      BY <1>12, <2>1, <2>4, ChoiceIs DEF CheckOutOpen
    <2>7. dep = "early_leave" <=> w.now < w.coOpen
      BY <1>2, <2>1, <2>4 DEF DepartureStatus
    <2>8. Placed(sh, sh.coOpen) \in Int /\ Placed(sh, sh.coClose) \in Int /\ Placed(sh, m) \in Int
      BY <2>2, DayAssumption DEF Bounds, Clocks, Placed
    <2>9. /\ ~settings.bypass => /\ o.date * Day + Placed(sh, sh.coOpen) <= clock
                                 /\ clock <= o.date * Day + Placed(sh, sh.coClose)
          /\ dep = "early_leave" <=> clock < o.date * Day + Placed(sh, sh.coOpen)
      BY <1>4, <2>3, <2>5, <2>6, <2>7, <2>8
    <2>10. InHours(sl)
      BY <1>3, <1>12 DEF IInv
    <2>11. QED
      BY <1>1, <1>3, <1>7, <1>10, <2>1, <2>9, <2>10 DEF InHours
  <1>13. QED
    BY <1>1, <1>8, <1>9, <1>11, <1>12 DEF IInv

LEMMA LastLeaveIsInt ==
  ASSUME Installed, NEW sl \in Slots
  PROVE  /\ LastLeave(sl) \in Int
         /\ LastLeave(sl) + 1 < sl[1] * Day + 2 * Day
  <1>1. sl[1] \in Nat /\ sl[2] \in Shifts
    BY SlotParts
  <1>2. sl[1] * Day \in Int
    BY <1>1, MidnightIsInt
  <1>3. Bounds(shiftOf[sl[2]])
    BY <1>1, OrderedBounds DEF Installed
  <1>4. QED
    BY <1>2, <1>3, DayAssumption DEF LastLeave, Bounds, Placed, Clocks

\* What the job marks, and that a row it passes over has its hours still to come.
LEMMA SweepableIs ==
  ASSUME IInv, NEW sl \in Slots
  PROVE  /\ Sweepable(sl) => StillOpen(sl) /\ rows[sl].cs # "left_work" /\ clock > LastLeave(sl)
         /\ settings.enforce /\ StillOpen(sl) /\ rows[sl].cs # "left_work" /\ ~Sweepable(sl)
              => clock <= LastLeave(sl)
  <1>1. sl[1] \in Nat /\ sl[2] \in Shifts /\ LastLeave(sl) \in Int
    BY SlotParts, LastLeaveIsInt DEF IInv
  <1>2. clock \in Nat /\ today \in Nat /\ today * Day <= clock
    BY NowParts DEF IInv
  <1>3. Ordered(shiftOf[sl[2]])
    BY <1>1 DEF IInv, Installed
  <1>4. Overdue(sl[1], shiftOf[sl[2]], today, minutesOfDay) <=> clock > LastLeave(sl)
    BY <1>1, <1>2, <1>3, OverdueIs DEF today, minutesOfDay, LastLeave
  <1>5. ASSUME settings.enforce, StillOpen(sl), rows[sl].cs # "left_work", ~(sl[1] >= today - 1)
        PROVE  FALSE
    <2>1. clock <= LastLeave(sl) + 1
      BY <1>5 DEF IInv, KeptUp, StillOpen
    <2>2. sl[1] * Day + 2 * Day <= today * Day
      <3>1. sl[1] \in Int /\ today \in Int /\ sl[1] + 1 < today
        BY <1>1, <1>2, <1>5
      <3>2. QED
        BY <3>1, Midnights
    <2>3. LastLeave(sl) + 1 < sl[1] * Day + 2 * Day
      BY LastLeaveIsInt DEF IInv
    <2>4. sl[1] * Day \in Int /\ today * Day \in Int /\ 2 * Day \in Int
      BY <1>1, <1>2, MidnightIsInt, DayAssumption
    <2>5. QED
      BY <1>1, <1>2, <2>1, <2>2, <2>3, <2>4
  <1>6. QED
    BY <1>1, <1>2, <1>4, <1>5 DEF Sweepable

LEMMA MarkLeftWorkInv ==
  ASSUME IInv, MarkLeftWork
  PROVE  IInv'
  <1>1. /\ rows' = [sl \in Slots |-> IF Sweepable(sl) THEN [rows[sl] EXCEPT !.cs = "left_work"]
                                                     ELSE rows[sl]]
        /\ swept' = TRUE /\ UNCHANGED <<clock, roster, shiftOf, settings>>
    BY DEF MarkLeftWork
  <1>2. clock \in Nat
    BY DatesAssumption DEF IInv, TypeOK
  <1>3. ASSUME NEW sl \in Slots, Sweepable(sl)
        PROVE  /\ rows'[sl] \in Row
               /\ rows'[sl].ci = rows[sl].ci /\ rows'[sl].status = rows[sl].status
               /\ rows'[sl].co = rows[sl].co /\ rows'[sl].cs = "left_work"
    <2>1. rows[sl] \in Row
      BY <1>3 DEF IInv, TypeOK, Sweepable, StillOpen, Arrived
    <2>2. rows'[sl] = [rows[sl] EXCEPT !.cs = "left_work"]
      BY <1>1, <1>3
    <2>3. QED
      BY <2>1, <2>2 DEF Row
  <1>4. ASSUME NEW sl \in Slots, ~Sweepable(sl)
        PROVE  rows'[sl] = rows[sl]
    BY <1>1, <1>4
  <1>5. Installed' /\ TypeOK'
    <2>1. \A sl \in Slots : rows'[sl] \in Row \cup {NoRow}
      BY <1>3, <1>4 DEF IInv, TypeOK
    <2>2. rows' \in [Slots -> Row \cup {NoRow}]
      BY <1>1, <2>1
    <2>3. swept' \in BOOLEAN
      BY <1>1
    <2>4. QED
      BY <1>1, <2>2, <2>3, InstalledStays DEF IInv, TypeOK
  <1>6. ASSUME NEW sl \in Slots, Arrived(sl)'
        PROVE  /\ ArrivalOnDate(sl)' /\ DepartureAfter(sl)' /\ KeptUp(sl)'
               /\ settings'.enforce => InHours(sl)'
    <2>1. LastLeave(sl)' = LastLeave(sl) /\ LastLeave(sl) \in Int
      BY <1>1, LastLeaveIsInt DEF LastLeave, IInv
    <2>2. CASE Sweepable(sl)
      <3>1. Arrived(sl) /\ rows[sl].co = Unset /\ clock > LastLeave(sl)
        BY <2>2, SweepableIs DEF StillOpen
      <3>2. ArrivalOnDate(sl) /\ DepartureAfter(sl) /\ (settings.enforce => InHours(sl))
        BY <3>1 DEF IInv
      <3>3. ArrivalOnDate(sl)'
        BY <1>1, <1>3, <2>2, <3>2 DEF ArrivalOnDate
      <3>4. DepartureAfter(sl)'
        BY <1>3, <2>2, <3>1 DEF DepartureAfter
      <3>5. KeptUp(sl)'
        BY <1>1, <1>3, <2>1, <2>2, <3>1 DEF KeptUp
      <3>6. settings'.enforce => InHours(sl)'
        BY <1>1, <1>3, <2>2, <3>1, <3>2 DEF InHours
      <3>7. QED
        BY <3>3, <3>4, <3>5, <3>6
    <2>3. CASE ~Sweepable(sl)
      <3>1. rows'[sl] = rows[sl] /\ Arrived(sl)
        BY <1>4, <1>6, <2>3 DEF Arrived
      <3>2. /\ ArrivalOnDate(sl) /\ DepartureAfter(sl) /\ KeptUp(sl)
            /\ settings.enforce => InHours(sl)
        BY <3>1 DEF IInv
      <3>3. settings.enforce /\ rows[sl].co = Unset /\ rows[sl].cs # "left_work"
              => clock <= LastLeave(sl)
        BY <2>3, <3>1, SweepableIs DEF StillOpen
      <3>4. KeptUp(sl)'
        BY <1>1, <1>2, <2>1, <3>1, <3>2, <3>3 DEF KeptUp
      <3>5. ArrivalOnDate(sl)' /\ DepartureAfter(sl)' /\ (settings'.enforce => InHours(sl)')
        BY <1>1, <3>1, <3>2 DEF ArrivalOnDate, DepartureAfter, InHours
      <3>6. QED
        BY <3>4, <3>5
    <2>4. QED
      BY <2>2, <2>3
  <1>7. QED
    BY <1>5, <1>6 DEF IInv

\* The invariant holds from the start and every step keeps it.
THEOREM Invariant ==
  ASSUME AllInOrder
  PROVE  Spec => []IInv
  <1>1. Init => IInv
    BY InitInv
  <1>2. IInv /\ [Next]_vars => IInv'
    <2> SUFFICES ASSUME IInv, [Next]_vars
                 PROVE  IInv'
      OBVIOUS
    <2>1. CASE Tick
      BY <2>1, TickInv
    <2>2. CASE CheckIn
      BY <2>2, CheckInInv
    <2>3. CASE CheckOut
      BY <2>3, CheckOutInv
    <2>4. CASE MarkLeftWork
      BY <2>4, MarkLeftWorkInv
    <2>5. CASE UNCHANGED vars
      <3>1. Installed' /\ TypeOK' /\ UNCHANGED <<clock, roster, shiftOf, settings, rows, swept>>
        BY <2>5, InstalledStays DEF IInv, TypeOK, vars
      <3>2. QED
        BY <3>1, RowStays, NowParts DEF IInv, Arrived
    <2>6. QED
      BY <2>1, <2>2, <2>3, <2>4, <2>5 DEF Next
  <1>3. QED
    BY <1>1, <1>2, PTL DEF Spec

-----------------------------------------------------------------------------
(* The properties *)

\* The hours of a slot on the calendar.
LEMMA HoursAre ==
  ASSUME IInv, NEW sl \in Slots
  PROVE  LET sh == shiftOf[sl[2]]
             On(t) == sl[1] * Day + Placed(sh, t)
         IN Hours(sl) = [ciOpen |-> sl[1] * Day + sh.ciOpen, ciLate |-> On(sh.ciLate),
                         ciClose |-> On(CheckInEnd(sh)), coOpen |-> On(sh.coOpen),
                         coClose |-> On(sh.coClose)]
  <1>1. PICK sh, w : sh = shiftOf[sl[2]] /\ w = PlaceWindow(sh, 0, Defaults)
    OBVIOUS
  <1>2. Ordered(sh) /\ 0 \in Clocks
    BY <1>1, SlotParts, DayAssumption DEF IInv, Installed, Clocks
  <1>3. w = [ciOpen |-> sh.ciOpen, ciLate |-> Placed(sh, sh.ciLate),
             ciClose |-> Placed(sh, CheckInEnd(sh)), coOpen |-> Placed(sh, sh.coOpen),
             coClose |-> Placed(sh, sh.coClose), now |-> Placed(sh, 0)]
    BY <1>1, <1>2, PlaceWindowOf
  <1>4. Hours(sl) = [ciOpen |-> sl[1] * Day + w.ciOpen, ciLate |-> sl[1] * Day + w.ciLate,
                     ciClose |-> sl[1] * Day + w.ciClose, coOpen |-> sl[1] * Day + w.coOpen,
                     coClose |-> sl[1] * Day + w.coClose]
    BY <1>1 DEF Hours
  <1>5. QED
    BY <1>1, <1>3, <1>4

\* Every variable holds a value the program can hold.
THEOREM TypeCorrect ==
  ASSUME AllInOrder
  PROVE  Spec => []TypeOK
  <1>1. IInv => TypeOK
    BY DEF IInv
  <1>2. QED
    BY <1>1, Invariant, PTL

\* With windows enforced an arrival lies in the check-in hours of the very slot it is
\* recorded on.
THEOREM ArrivalsAreInTheirHours ==
  ASSUME AllInOrder
  PROVE  Spec => []ArrivalInItsHours
  <1>1. ASSUME IInv PROVE ArrivalInItsHours
    <2> SUFFICES ASSUME settings.enforce, NEW sl \in Slots, Arrived(sl)
                 PROVE  Hours(sl).ciOpen <= rows[sl].ci /\ rows[sl].ci <= Hours(sl).ciClose
      BY DEF ArrivalInItsHours
    <2>1. InHours(sl)
      BY <1>1 DEF IInv
    <2>2. QED
      BY <1>1, <2>1, HoursAre DEF InHours
  <1>2. QED
    BY <1>1, Invariant, PTL

\* With windows enforced "late" says the late boundary of that slot had passed.
THEOREM LateSaysTheBoundaryPassed ==
  ASSUME AllInOrder
  PROVE  Spec => []LateIsAfterTheBoundary
  <1>1. ASSUME IInv PROVE LateIsAfterTheBoundary
    <2> SUFFICES ASSUME settings.enforce, NEW sl \in Slots, Arrived(sl)
                 PROVE  rows[sl].status = "late" <=> rows[sl].ci > Hours(sl).ciLate
      BY DEF LateIsAfterTheBoundary
    <2>1. InHours(sl)
      BY <1>1 DEF IInv
    <2>2. QED
      BY <1>1, <2>1, HoursAre DEF InHours
  <1>2. QED
    BY <1>1, Invariant, PTL

\* With windows enforced a departure lies in the check-out hours of its slot, or
\* before them, as an early leave, where the window is bypassed.
THEOREM DeparturesAreInTheirHours ==
  ASSUME AllInOrder
  PROVE  Spec => []DepartureInItsHours
  <1>1. ASSUME IInv PROVE DepartureInItsHours
    <2> SUFFICES ASSUME settings.enforce, NEW sl \in Slots, Arrived(sl), rows[sl].co # Unset
                 PROVE  /\ rows[sl].co >= rows[sl].ci
                        /\ ~settings.bypass => /\ Hours(sl).coOpen <= rows[sl].co
                                               /\ rows[sl].co <= Hours(sl).coClose
                        /\ rows[sl].cs = "early_leave" <=> rows[sl].co < Hours(sl).coOpen
      BY DEF DepartureInItsHours
    <2>1. InHours(sl) /\ DepartureAfter(sl)
      BY <1>1 DEF IInv
    <2>2. rows[sl].co \in Nat /\ rows[sl].ci \in Nat
      BY <1>1, UnsetAssumption DEF IInv, TypeOK, Arrived, Row
    <2>3. QED
      BY <1>1, <2>1, <2>2, HoursAre DEF InHours, DepartureAfter
  <1>2. QED
    BY <1>1, Invariant, PTL

\* What the check-in page offers the server accepts, and what it leaves out lies past
\* a boundary whose window was left to its default: for shifts in order with any of
\* their opening and closing times unset.
THEOREM PickerIsTheServersList ==
  ASSUME \A i \in Installations : \A s \in Shifts : Ordered(WithDefaults(i.shifts[s]))
  PROVE  Spec => []PickerMatchesServer
  <1> DEFINE Fixed == /\ clock \in Nat /\ roster \subseteq Slots
                      /\ \A s \in Shifts : shiftOf[s] \in ShiftRow /\ Ordered(WithDefaults(shiftOf[s]))
  <1>1. Init => Fixed
    BY InstallationsAssumption DEF Init
  <1>2. Fixed /\ [Next]_vars => Fixed'
    <2> SUFFICES ASSUME Fixed, [Next]_vars PROVE Fixed'
      OBVIOUS
    <2>1. shiftOf' = shiftOf /\ roster' = roster /\ clock' \in {clock, clock + 1}
      BY DEF Next, Tick, CheckIn, CheckOut, MarkLeftWork, vars
    <2>2. QED
      BY <2>1
  <1>3. Fixed => PickerMatchesServer
    <2> SUFFICES ASSUME Fixed PROVE PickerMatchesServer
      OBVIOUS
    <2>1. minutesOfDay \in Clocks
      BY InstantParts DEF minutesOfDay
    <2>2. \A s \in RosteredOn(today) : shiftOf[s] \in ShiftRow /\ Ordered(WithDefaults(shiftOf[s]))
      BY DEF RosteredOn
    <2>3. QED
      BY <2>1, <2>2, PickerIs DEF PickerMatchesServer
  <1>4. QED
    BY <1>1, <1>2, <1>3, PTL DEF Spec

\* The job marks a row only once the check-out hours of its slot have passed.
THEOREM NobodyIsMarkedInHours ==
  ASSUME AllInOrder
  PROVE  Spec => LeftOnlyAfterHours
  <1> DEFINE Mark == \A sl \in Slots :
                       (Arrived(sl) /\ rows[sl].cs # "left_work" /\ rows'[sl].cs = "left_work")
                         => clock > Hours(sl).coClose
  <1>1. ASSUME IInv, Next PROVE Mark
    <2> SUFFICES ASSUME NEW sl \in Slots, Arrived(sl),
                        rows[sl].cs # "left_work", rows'[sl].cs = "left_work"
                 PROVE  clock > Hours(sl).coClose
      OBVIOUS
    <2>1. rows \in [Slots -> Row \cup {NoRow}] /\ rows[sl] \in Row
      BY <1>1 DEF IInv, TypeOK, Arrived
    <2>2. CASE Tick
      BY <2>2 DEF Tick
    <2>3. CASE CheckIn
      <3>1. PICK s : rows' = [rows EXCEPT ![<<today, s>>] =
                               [status |-> ArrivalStatus(shiftOf[s], minutesOfDay, Defaults),
                                ci |-> clock, co |-> Unset, cs |-> "none"]]
        BY <2>3, Zenon DEF CheckIn
      <3>2. QED
        BY <2>1, <3>1
    <2>4. CASE CheckOut
      <3>1. PICK o \in CheckOutChoices :
              rows' = [rows EXCEPT
                         ![<<o.date, o.shift>>].co = clock,
                         ![<<o.date, o.shift>>].cs =
                            DepartureStatus(shiftOf[o.shift], minutesOfDay, Defaults)]
        BY <2>4 DEF CheckOut
      <3>2. PICK x, dep : /\ x = <<o.date, o.shift>>
                          /\ dep = DepartureStatus(shiftOf[o.shift], minutesOfDay, Defaults)
        OBVIOUS
      <3>3. rows' = [rows EXCEPT ![x] = [rows[x] EXCEPT !.co = clock, !.cs = dep]]
        BY <1>1, <2>1, <3>1, <3>2, ChoiceIs
      <3>4. dep # "left_work"
        BY <3>2 DEF DepartureStatus
      <3>5. QED
        BY <2>1, <3>3, <3>4 DEF Row
    <2>5. CASE MarkLeftWork
      <3>1. Sweepable(sl)
        BY <2>5 DEF MarkLeftWork
      <3>2. clock > LastLeave(sl)
        BY <1>1, <3>1, SweepableIs
      <3>3. QED
        BY <1>1, <3>2, HoursAre DEF LastLeave
    <2>6. QED
      BY <1>1, <2>2, <2>3, <2>4, <2>5 DEF Next
  <1>2. IInv /\ [Next]_vars => [Mark]_vars
    BY <1>1
  <1>3. QED
    BY <1>2, Invariant, PTL DEF Spec, LeftOnlyAfterHours

\* With windows enforced, in the check-out hours of a slot a member who is still in it
\* can check out of it, or of another slot whose hours overlap.
LEMMA AnOpenRowCanLeave ==
  ASSUME IInv, settings.enforce, ~settings.bypass, NEW sl \in Slots,
         StillOpen(sl), rows[sl].cs # "left_work",
         Hours(sl).coOpen <= clock, clock <= Hours(sl).coClose
  PROVE  \E o \in CheckOutChoices : rows[<<o.date, o.shift>>].cs # "left_work"
  <1>1. PICK sh, t, m : sh = shiftOf[sl[2]] /\ t = today /\ m = minutesOfDay
    OBVIOUS
  <1>2. /\ t \in Nat /\ m \in Clocks /\ clock = t * Day + m /\ clock \in Nat
        /\ t * Day \in Int
    BY <1>1, NowParts, MidnightIsInt DEF IInv
  <1>3. /\ sl[1] \in Nat /\ sl[2] \in Shifts /\ sl = <<sl[1], sl[2]>>
        /\ sl[1] * Day \in Int
    BY SlotParts, MidnightIsInt
  <1>4. Ordered(sh) /\ Bounds(sh)
    BY <1>1, <1>3, OrderedBounds DEF IInv, Installed
  <1>5. /\ sl[1] * Day + Placed(sh, sh.coOpen) <= clock
        /\ clock <= sl[1] * Day + Placed(sh, sh.coClose)
    BY <1>1, HoursAre
  <1>6. \/ sl[1] = t /\ Placed(sh, m) = m
        \/ sl[1] = t - 1 /\ Placed(sh, m) = m + Day /\ Placed(sh, sh.coOpen) >= Day
             /\ sl[1] * Day + Day = t * Day
    <2>1. CASE sl[1] = t
      BY <1>2, <1>4, <1>5, <2>1, DayAssumption DEF Bounds, Placed, Clocks
    <2>2. CASE sl[1] < t
      <3>1. ~(sl[1] + 1 < t)
        <4>1. ASSUME sl[1] + 1 < t PROVE FALSE
          <5>1. sl[1] * Day + 2 * Day <= t * Day
            BY <1>2, <1>3, <4>1, Midnights
          <5>2. QED
            BY <1>2, <1>3, <1>4, <1>5, <5>1, DayAssumption DEF Bounds, Placed, Clocks
        <4>2. QED
          BY <4>1
      <3>2. sl[1] = t - 1
        BY <1>2, <1>3, <2>2, <3>1
      <3>3. sl[1] * Day + Day = t * Day
        <4>1. (sl[1] + 1) * Day = sl[1] * Day + Day /\ sl[1] + 1 = t
          BY <1>2, <1>3, <3>2, Midnights
        <4>2. QED
          BY <4>1
      <3>4. QED
        BY <1>2, <1>3, <1>4, <1>5, <3>2, <3>3, DayAssumption DEF Bounds, Placed, Clocks
    <2>3. CASE t < sl[1]
      <3>1. t * Day + Day <= sl[1] * Day
        BY <1>2, <1>3, <2>3, Midnights
      <3>2. QED
        BY <1>2, <1>3, <1>4, <1>5, <3>1, DayAssumption DEF Bounds, Placed, Clocks
    <2>4. QED
      BY <1>2, <1>3, <2>1, <2>2, <2>3
  <1>7. CheckOutOpen(PlaceWindow(sh, m, Defaults))
    <2>1. PICK w : w = PlaceWindow(sh, m, Defaults)
      OBVIOUS
    <2>2. /\ w.coOpen = Placed(sh, sh.coOpen) /\ w.coClose = Placed(sh, sh.coClose)
          /\ w.now = Placed(sh, m)
      BY <1>2, <1>4, <2>1, PlaceWindowOf
    <2>3. Placed(sh, sh.coOpen) <= Placed(sh, m) /\ Placed(sh, m) <= Placed(sh, sh.coClose)
      BY <1>2, <1>3, <1>4, <1>5, <1>6, DayAssumption DEF Bounds, Placed, Clocks
    <2>4. QED
      BY <2>1, <2>2, <2>3 DEF CheckOutOpen
  <1>8. PICK mine : mine = [shift |-> sl[2], date |-> sl[1], ci |-> rows[sl].ci]
    OBVIOUS
  <1>9. mine \in ToOpen(sl[1]) /\ mine.date = sl[1] /\ mine.shift = sl[2]
    BY <1>3, <1>8 DEF ToOpen
  <1> DEFINE open == ToOpen(today) \cup {o \in ToOpen(today - 1) : IsOvernight(shiftOf[o.shift])}
             inWindow == {o \in open :
                            CheckOutOpen(PlaceWindow(shiftOf[o.shift], minutesOfDay, Defaults))}
  <1>10. CheckOutChoices =
           IF inWindow \cap ToOpen(today) # {} THEN inWindow \cap ToOpen(today) ELSE inWindow
    BY DEF CheckOutChoices, DecideCheckOut
  <1>11. mine \in open
    BY <1>1, <1>4, <1>6, <1>9, OvernightIs
  <1>12. mine \in inWindow
    BY <1>1, <1>7, <1>9, <1>11
  <1> HIDE DEF open
  <1>13. CASE inWindow \cap ToOpen(today) = {}
    <2>1. mine \in CheckOutChoices
      BY <1>10, <1>12, <1>13
    <2>2. QED
      BY <1>3, <1>9, <2>1
  <1>14. CASE inWindow \cap ToOpen(today) # {}
    <2>1. PICK o \in inWindow \cap ToOpen(today) : TRUE
      BY <1>14
    <2>2. o \in CheckOutChoices
      BY <1>10, <2>1
    <2>3. PICK x \in Slots : x = <<today, o.shift>> /\ StillOpen(x) /\ o.date = today
      <3>1. PICK s \in Shifts : /\ <<today, s>> \in Slots /\ StillOpen(<<today, s>>)
                                /\ o = [shift |-> s, date |-> today, ci |-> rows[<<today, s>>].ci]
        BY <2>1, Zenon DEF ToOpen
      <3>2. o.shift = s /\ o.date = today
        BY <3>1
      <3>3. QED
        BY <3>1, <3>2
    <2>4. x[1] = t /\ x[2] = o.shift /\ x[2] \in Shifts
      BY <1>1, <2>3, SlotParts
    <2>5. PICK h : h = shiftOf[x[2]]
      OBVIOUS
    <2>6. Ordered(h) /\ Bounds(h)
      BY <2>4, <2>5, OrderedBounds DEF IInv, Installed
    <2>7. Placed(h, m) <= Placed(h, h.coClose)
      <3>1. PICK w : w = PlaceWindow(h, m, Defaults)
        OBVIOUS
      <3>2. w.now <= w.coClose
        BY <1>1, <2>1, <2>4, <2>5, <3>1 DEF CheckOutOpen
      <3>3. w.coClose = Placed(h, h.coClose) /\ w.now = Placed(h, m)
        BY <1>2, <2>6, <3>1, PlaceWindowOf
      <3>4. QED
        BY <3>2, <3>3
    <2>8. t * Day + h.ciOpen <= clock
      <3>1. x[1] * Day + h.ciOpen <= rows[x].ci /\ rows[x].ci <= clock
        BY <2>3, <2>5 DEF IInv, InHours, ArrivalOnDate, StillOpen
      <3>2. rows[x].ci \in Nat
        BY <2>3 DEF IInv, TypeOK, StillOpen, Arrived, Row
      <3>3. QED
        BY <1>2, <2>4, <2>6, <3>1, <3>2, DayAssumption DEF Bounds, Clocks
    <2>9. clock <= LastLeave(x)
      BY <1>2, <2>4, <2>5, <2>6, <2>7, <2>8, DayAssumption
        DEF LastLeave, Bounds, Clocks, Placed
    <2>10. rows[x].cs # "left_work"
      <3>1. rows[x].cs = "left_work" => clock > LastLeave(x)
        BY <2>3 DEF IInv, KeptUp, StillOpen
      <3>2. LastLeave(x) \in Int
        BY LastLeaveIsInt DEF IInv
      <3>3. QED
        BY <1>2, <2>9, <3>1, <3>2
    <2>11. QED
      BY <2>2, <2>3, <2>10
  <1>15. QED
    BY <1>13, <1>14

\* In the check-out hours of a slot a member who is still in it can check out of it,
\* or of another slot whose hours overlap.
THEOREM NobodyIsLockedIn ==
  ASSUME AllInOrder
  PROVE  Spec => []CanStillLeave
  <1>1. IInv => CanStillLeave
    BY AnOpenRowCanLeave DEF CanStillLeave
  <1>2. QED
    BY <1>1, Invariant, PTL

\* Between two midnights lies one date.
LEMMA DateOfInstant ==
  ASSUME NEW c \in Nat, NEW d \in Nat, d * Day <= c, c < d * Day + Day
  PROVE  c % Day \in Clocks /\ c = d * Day + (c % Day)
  <1>1. PICK t \in Nat, m \in Clocks : m = c % Day /\ c = t * Day + m
    BY InstantParts
  <1>2. t * Day \in Int /\ d * Day \in Int
    BY MidnightIsInt
  <1>3. ~(t < d) /\ ~(d < t)
    <2>1. (t < d => t * Day + Day <= d * Day)
      BY Midnights
    <2>2. (d < t => d * Day + Day <= t * Day)
      BY Midnights
    <2>3. QED
      BY <1>1, <1>2, <2>1, <2>2, DayAssumption DEF Clocks
  <1>4. QED
    BY <1>1, <1>3

\* The record a file's line becomes is the record the same two times leave at the door.
LEMMA DoorRowIsImported ==
  ASSUME IInv, settings.enforce, ~settings.bypass, NEW sl \in Slots, Arrived(sl),
         rows[sl].cs # "left_work"
  PROVE  rows[sl] = ImportedSlot(shiftOf[sl[2]], sl[1], rows[sl].ci % Day,
                                 IF rows[sl].co = Unset THEN Unset ELSE rows[sl].co % Day,
                                 Defaults)
  <1>1. PICK r, sh, d, in, out :
          /\ r = rows[sl] /\ sh = shiftOf[sl[2]] /\ d = sl[1] /\ in = r.ci % Day
          /\ out = IF r.co = Unset THEN Unset ELSE r.co % Day
    OBVIOUS
  <1>2. r \in Row
    BY <1>1 DEF IInv, TypeOK, Arrived
  <1>3. d \in Nat /\ d * Day \in Int /\ Ordered(sh) /\ Bounds(sh)
    BY <1>1, SlotParts, MidnightIsInt, OrderedBounds DEF IInv, Installed
  <1>4. ArrivalOnDate(sl) /\ DepartureAfter(sl) /\ InHours(sl)
    BY DEF IInv
  <1>5. in \in Clocks /\ r.ci = d * Day + in
    <2>1. d * Day <= r.ci /\ r.ci < d * Day + Day
      BY <1>1, <1>4 DEF ArrivalOnDate
    <2>2. r.ci \in Nat
      BY <1>2 DEF Row
    <2>3. r.ci % Day \in Clocks /\ r.ci = d * Day + (r.ci % Day)
      BY <1>3, <2>1, <2>2, DateOfInstant
    <2>4. QED
      BY <1>1, <2>3
  <1>6. /\ d * Day + sh.ciOpen <= r.ci
        /\ r.status = "late" <=> r.ci > d * Day + Placed(sh, sh.ciLate)
        /\ r.co # Unset => /\ d * Day + Placed(sh, sh.coOpen) <= r.co
                           /\ r.co <= d * Day + Placed(sh, sh.coClose)
                           /\ r.cs = "early_leave" <=> r.co < d * Day + Placed(sh, sh.coOpen)
    BY <1>1, <1>4 DEF InHours
  <1>7. PICK def : def = [start |-> OrElse(Defaults.start, sh.start),
                          end |-> OrElse(Defaults.end, sh.end)]
    OBVIOUS
  <1>8. PICK nextIn \in BOOLEAN, nextOut \in BOOLEAN :
          /\ nextIn <=> PlaceWindow(sh, in, def).now >= Day
          /\ nextOut <=> \/ PlaceWindow(sh, out, def).now >= Day
                         \/ IsOvernight(sh) /\ out < ToMin(sh.start)
    OBVIOUS
  <1>9. in # Unset
    BY <1>5, UnsetAssumption, DayAssumption DEF Clocks
  <1>10. ImportedSlot(sh, d, in, out, Defaults) =
           IF out = Unset
             THEN [status |-> ArrivalStatus(sh, in, def),
                   ci |-> (IF nextIn THEN d + 1 ELSE d) * Day + in, co |-> Unset, cs |-> "none"]
             ELSE [status |-> ArrivalStatus(sh, in, def),
                   ci |-> (IF nextIn THEN d + 1 ELSE d) * Day + in,
                   co |-> (IF nextOut THEN d + 1 ELSE d) * Day + out,
                   cs |-> DepartureStatus(sh, out, def)]
    BY <1>7, <1>8, <1>9 DEF ImportedSlot
  <1>11. Placed(sh, in) = in /\ ~nextIn
    <2>1. Placed(sh, in) = in /\ in < Day
      BY <1>3, <1>5, <1>6, DayAssumption DEF Placed, Bounds, Clocks
    <2>2. PlaceWindow(sh, in, def).now = Placed(sh, in)
      BY <1>3, <1>5, PlaceWindowOf
    <2>3. QED
      BY <1>5, <1>8, <2>1, <2>2, DayAssumption DEF Clocks
  <1>12. ArrivalStatus(sh, in, def) = r.status
    <2>1. PICK w : w = PlaceWindow(sh, in, def)
      OBVIOUS
    <2>2. w.now = in /\ w.ciLate = Placed(sh, sh.ciLate)
      BY <1>3, <1>5, <1>11, <2>1, PlaceWindowOf
    <2>3. in > Placed(sh, sh.ciLate) <=> r.ci > d * Day + Placed(sh, sh.ciLate)
      BY <1>3, <1>5, DayAssumption DEF Placed, Bounds, Clocks
    <2>4. r.status \in {"present", "late"}
      BY <1>2 DEF Row
    <2>5. QED
      BY <1>6, <2>1, <2>2, <2>3, <2>4 DEF ArrivalStatus
  <1>13. CASE r.co = Unset
    <2>1. r.cs = "none"
      BY <1>1, <1>4, <1>13 DEF DepartureAfter
    <2>2. ImportedSlot(sh, d, in, out, Defaults) =
            [status |-> r.status, ci |-> r.ci, co |-> r.co, cs |-> r.cs]
      BY <1>1, <1>5, <1>10, <1>11, <1>12, <1>13, <2>1
    <2>3. QED
      BY <1>1, <1>2, <2>2 DEF Row
  <1>14. CASE r.co # Unset
    <2>1. r.co \in Nat /\ out = r.co % Day
      BY <1>1, <1>2, <1>14 DEF Row
    <2>2. PICK t \in Nat, o \in Clocks : o = out /\ r.co = t * Day + o
      BY <2>1, InstantParts
    <2>3. t * Day \in Int /\ (d + 1) * Day = d * Day + Day
      BY <1>3, Midnights, MidnightIsInt
    <2>4. \/ t = d /\ Placed(sh, o) = o
          \/ t = d + 1 /\ Placed(sh, o) = o + Day
      <3>1. CASE t = d
        BY <1>3, <1>6, <1>14, <2>2, <2>3, <3>1, DayAssumption DEF Placed, Bounds, Clocks
      <3>2. CASE t = d + 1
        BY <1>3, <1>6, <1>14, <2>2, <2>3, <3>2, DayAssumption DEF Placed, Bounds, Clocks
      <3>3. CASE t < d
        <4>1. t * Day + Day <= d * Day
          BY <1>3, <3>3, Midnights
        <4>2. QED
          BY <1>3, <1>6, <1>14, <2>2, <2>3, <4>1, DayAssumption DEF Placed, Bounds, Clocks
      <3>4. CASE d + 1 < t
        <4>1. d * Day + 2 * Day <= t * Day
          BY <1>3, <3>4, Midnights
        <4>2. QED
          BY <1>3, <1>6, <1>14, <2>2, <2>3, <4>1, DayAssumption DEF Placed, Bounds, Clocks
      <3>5. QED
        BY <1>3, <2>2, <3>1, <3>2, <3>3, <3>4
    <2>5. PICK w : w = PlaceWindow(sh, out, def)
      OBVIOUS
    <2>6. w.now = Placed(sh, o) /\ w.coOpen = Placed(sh, sh.coOpen)
      BY <1>3, <2>2, <2>5, PlaceWindowOf
    <2>7. nextOut <=> t = d + 1
      <3>1. CASE t = d + 1
        BY <1>3, <1>8, <2>2, <2>4, <2>5, <2>6, <3>1, DayAssumption DEF Clocks
      <3>2. CASE t = d
        <4>1. Placed(sh, o) = o /\ o < Day
          BY <1>3, <2>2, <2>4, <3>2, DayAssumption DEF Clocks
        <4>2. ~IsOvernight(sh)
          <5>1. Placed(sh, sh.coOpen) <= o
            BY <1>3, <1>6, <1>14, <2>2, <3>2, DayAssumption DEF Placed, Bounds, Clocks
          <5>2. QED
            BY <1>3, <2>2, <4>1, <5>1, OvernightIs, DayAssumption DEF Placed, Bounds, Clocks
        <4>3. QED
          BY <1>3, <1>8, <2>2, <2>5, <2>6, <3>2, <4>1, <4>2, DayAssumption DEF Clocks
      <3>3. QED
        BY <2>4, <3>1, <3>2
    <2>8. r.co = (IF nextOut THEN d + 1 ELSE d) * Day + out
      BY <2>2, <2>4, <2>7
    <2>9. DepartureStatus(sh, out, def) = r.cs
      <3>1. ~(w.now < w.coOpen)
        BY <1>3, <1>6, <1>14, <2>2, <2>3, <2>4, <2>6, DayAssumption DEF Placed, Bounds, Clocks
      <3>2. r.cs \in {"checked_out", "early_leave"}
        BY <1>1, <1>4, <1>14 DEF DepartureAfter
      <3>3. r.cs # "early_leave"
        BY <1>3, <1>6, <1>14, <2>1, DayAssumption DEF Placed, Bounds, Clocks
      <3>4. QED
        BY <2>5, <3>1, <3>2, <3>3 DEF DepartureStatus
    <2>10. out # Unset
      BY <2>2, UnsetAssumption, DayAssumption DEF Clocks
    <2>11. ImportedSlot(sh, d, in, out, Defaults) =
             [status |-> r.status, ci |-> r.ci, co |-> r.co, cs |-> r.cs]
      BY <1>5, <1>10, <1>11, <1>12, <2>8, <2>9, <2>10
    <2>12. QED
      BY <1>1, <1>2, <2>11 DEF Row
  <1>15. QED
    BY <1>13, <1>14

\* The record a file's line becomes is the record the same two times leave at the
\* door.
THEOREM FileLineIsDoorRow ==
  ASSUME AllInOrder
  PROVE  Spec => []ImportAgrees
  <1>1. IInv => ImportAgrees
    BY DoorRowIsImported DEF ImportAgrees
  <1>2. QED
    BY <1>1, Invariant, PTL

-----------------------------------------------------------------------------
(* A day of shifts implements the life of a slot *)

\* How someone who arrived is shown to have left, if they did.
Way(r) == IF r.cs = "left_work" THEN "left"
          ELSE IF r.cs = "early_leave" THEN "early"
          ELSE IF r.co # Unset \/ r.cs = "checked_out" THEN "out"
          ELSE "open"

\* attendanceOutcome of a row is how it arrived and the way it left.
LEMMA OutcomeOfRow ==
  ASSUME NEW r \in Row, NEW hasRoster, NEW concluded
  PROVE  AttendanceOutcome(hasRoster, concluded, r.ci, r.status, r.co, r.cs)
           = <<r.status, Way(r)>>
  <1>1. r.ci # Unset /\ r.status \in {"present", "late"}
    BY UnsetAssumption DEF Row
  <1>2. QED
    BY <1>1 DEF AttendanceOutcome, Way

\* The outcome of a slot: the arrival and the way out, or what a slot nobody arrived
\* in is called; now, and after a step.
OutcomeOf(sl) ==
  IF Arrived(sl) THEN <<rows[sl].status, Way(rows[sl])>>
  ELSE IF sl \notin roster THEN <<"off">>
  ELSE IF Concluded(sl) THEN <<"absent">> ELSE <<"upcoming">>

LEMMA OutcomeIs ==
  ASSUME NEW sl \in Slots
  PROVE  /\ TypeOK => Outcome(sl) = OutcomeOf(sl)
         /\ TypeOK' => Outcome(sl)' = OutcomeOf(sl)'
  <1>1. ASSUME TypeOK PROVE Outcome(sl) = OutcomeOf(sl)
    <2>1. Arrived(sl) => rows[sl] \in Row
      BY <1>1 DEF TypeOK, Arrived
    <2>2. CASE Arrived(sl)
      BY <2>1, <2>2, OutcomeOfRow DEF Outcome, OutcomeOf
    <2>3. CASE ~Arrived(sl)
      BY <2>3 DEF Outcome, OutcomeOf, AttendanceOutcome
    <2>4. QED
      BY <2>2, <2>3
  <1>2. ASSUME TypeOK' PROVE Outcome(sl)' = OutcomeOf(sl)'
    <2>1. Arrived(sl)' => rows'[sl] \in Row
      BY <1>2 DEF TypeOK, Arrived
    <2>2. CASE Arrived(sl)'
      BY <2>1, <2>2, OutcomeOfRow DEF Outcome, OutcomeOf
    <2>3. CASE ~Arrived(sl)'
      BY <2>3 DEF Outcome, OutcomeOf, AttendanceOutcome
    <2>4. QED
      BY <2>2, <2>3
  <1>3. QED
    BY <1>1, <1>2

\* Once a missing arrival is an absence it stays one.
LEMMA ConcludedStays ==
  ASSUME IInv, IInv', NEW sl \in Slots, Concluded(sl), clock <= clock',
         UNCHANGED <<shiftOf, settings>>
  PROVE  Concluded(sl)'
  <1>1. /\ clock \in Nat /\ clock' \in Nat /\ sl[1] \in Nat /\ sl[1] * Day \in Int
        /\ Ordered(shiftOf[sl[2]])
    BY NowParts, SlotParts, MidnightIsInt, DatesAssumption DEF IInv, Installed, TypeOK
  <1>2. CASE settings.enforce
    <2>1. settings.enforce = TRUE
      BY <1>2 DEF IInv, Installed, SettingsRow
    <2>2. Placed(shiftOf[sl[2]], shiftOf[sl[2]].coClose) \in Int
      BY <1>1, OrderedBounds, DayAssumption DEF Bounds, Clocks, Placed
    <2>3. clock >= sl[1] * Day + Placed(shiftOf[sl[2]], shiftOf[sl[2]].coClose)
      BY <1>1, <2>1, ConcludedIs DEF Concluded, today, minutesOfDay
    <2>4. clock' >= sl[1] * Day + Placed(shiftOf[sl[2]], shiftOf[sl[2]].coClose)
      BY <1>1, <2>2, <2>3
    <2>5. SlotConcluded(sl[1], shiftOf[sl[2]], TRUE, clock' \div Day, clock' % Day, Defaults')
      BY <1>1, <2>4, ConcludedIs
    <2>6. QED
      BY <2>1, <2>5 DEF Concluded, today, minutesOfDay
  <1>3. CASE ~settings.enforce
    <2>1. \A d, sh, t, m, def : SlotConcluded(d, sh, settings.enforce, t, m, def) <=> d < t
      BY <1>3 DEF SlotConcluded
    <2>2. today \in Nat /\ today' \in Nat /\ today <= today'
      BY <1>1, InstantParts, DatesInOrder DEF today
    <2>3. sl[1] < today
      BY <2>1 DEF Concluded
    <2>4. sl[1] < today'
      BY <1>1, <2>2, <2>3
    <2>5. QED
      BY <1>3, <2>4 DEF Concluded, SlotConcluded
  <1>4. QED
    BY <1>2, <1>3

\* The moves of a slot's life, one family at a time.
LEMMA LifeMoves ==
  ASSUME NEW a \in {"present", "late"}
  PROVE  /\ <<<<"upcoming">>, <<"absent">>>> \in Life!Moves
         /\ <<<<"upcoming">>, <<a, "open">>>> \in Life!Moves
         /\ \A d \in {"out", "early", "left"} : <<<<a, "open">>, <<a, d>>>> \in Life!Moves
  BY DEF Life!Moves, Life!Arrivals, Life!Departures

\* A slot whose row a step leaves alone keeps its outcome or becomes an absence.
LEMMA OutcomeWaits ==
  ASSUME IInv, IInv', NEW sl \in Slots, rows'[sl] = rows[sl], clock <= clock',
         UNCHANGED <<roster, shiftOf, settings>>
  PROVE  \/ Outcome(sl)' = Outcome(sl)
         \/ <<Outcome(sl), Outcome(sl)'>> \in Life!Moves
  <1>1. PICK before, after : before = Outcome(sl) /\ after = Outcome(sl)'
    OBVIOUS
  <1>2. Arrived(sl)' <=> Arrived(sl)
    BY DEF Arrived
  <1>3. /\ before = IF Arrived(sl) THEN <<rows[sl].status, Way(rows[sl])>>
                    ELSE IF sl \notin roster THEN <<"off">>
                    ELSE IF Concluded(sl) THEN <<"absent">> ELSE <<"upcoming">>
        /\ after = IF Arrived(sl) THEN <<rows[sl].status, Way(rows[sl])>>
                   ELSE IF sl \notin roster THEN <<"off">>
                   ELSE IF Concluded(sl)' THEN <<"absent">> ELSE <<"upcoming">>
    BY <1>1, <1>2, OutcomeIs DEF IInv, OutcomeOf, Way
  <1>4. Concluded(sl) => Concluded(sl)'
    BY ConcludedStays
  <1>5. QED
    BY <1>1, <1>3, <1>4, LifeMoves

\* At the start every slot waits or is nobody's.
LEMMA LifeInit ==
  ASSUME IInv, Init
  PROVE  Life!Init
  <1> SUFFICES ASSUME NEW sl \in Slots
               PROVE  Outcome(sl) \in {<<"off">>, <<"upcoming">>}
    BY DEF Life!Init
  <1>1. ~Arrived(sl) /\ clock = 0
    BY DEF Init, Arrived
  <1>2. sl[1] \in Nat /\ sl[1] * Day \in Int /\ 0 <= sl[1] * Day /\ Ordered(shiftOf[sl[2]])
    <2>1. sl[1] \in Nat /\ Ordered(shiftOf[sl[2]])
      BY SlotParts DEF IInv, Installed
    <2>2. sl[1] * Day \in Nat
      BY <2>1, FirstMidnights
    <2>3. QED
      BY <2>1, <2>2
  <1>3. ~Concluded(sl)
    <2>1. CASE settings.enforce
      <3>1. settings.enforce = TRUE
        BY <2>1 DEF IInv, Installed, SettingsRow
      <3>2. Placed(shiftOf[sl[2]], shiftOf[sl[2]].coClose) > 0
        BY <1>2, OrderedBounds, DayAssumption DEF Bounds, Clocks, Placed
      <3>3. ~(0 >= sl[1] * Day + Placed(shiftOf[sl[2]], shiftOf[sl[2]].coClose))
        BY <1>2, <3>2, OrderedBounds, DayAssumption DEF Bounds, Clocks, Placed
      <3>4. QED
        BY <1>1, <1>2, <3>1, <3>3, ConcludedIs DEF Concluded, today, minutesOfDay
    <2>2. CASE ~settings.enforce
      <3>1. today = 0
        <4>1. today * Day <= 0 /\ today \in Nat
          BY <1>1, NowParts DEF IInv
        <4>2. today * Day \in Nat /\ (0 < today => Day <= today * Day)
          BY <4>1, FirstMidnights
        <4>3. QED
          BY <4>1, <4>2, DayAssumption
      <3>2. QED
        BY <1>2, <2>2, <3>1 DEF Concluded, SlotConcluded
    <2>3. QED
      BY <2>1, <2>2
  <1>4. QED
    BY <1>1, <1>3, OutcomeIs DEF IInv, OutcomeOf

\* A check-in finds its slot waiting: with windows enforced the arrival is before the
\* slot concludes, without them on its own date.
LEMMA CheckInFindsWaiting ==
  ASSUME IInv,
         NEW s \in DecideCheckIn(RosteredOn(today), CheckedInOn(today), shiftOf,
                                 settings.enforce, minutesOfDay, Defaults)
  PROVE  /\ s \in Shifts /\ <<today, s>> \in Slots
         /\ ~Arrived(<<today, s>>) /\ <<today, s>> \in roster /\ ~Concluded(<<today, s>>)
  <1>1. /\ s \in RosteredOn(today) \ CheckedInOn(today)
        /\ settings.enforce => CheckInOpen(PlaceWindow(shiftOf[s], minutesOfDay, Defaults))
    BY DEF DecideCheckIn
  <1>2. s \in Shifts /\ <<today, s>> \in roster /\ <<today, s>> \in Slots
    BY <1>1 DEF RosteredOn, IInv, TypeOK
  <1>3. ~Arrived(<<today, s>>)
    BY <1>1, <1>2 DEF CheckedInOn
  <1>4. today \in Nat /\ today * Day \in Int /\ clock \in Nat
    BY NowParts, MidnightIsInt DEF IInv
  <1>5. CASE settings.enforce
    <2>1. settings.enforce = TRUE /\ Ordered(shiftOf[s])
      BY <1>2, <1>5 DEF IInv, Installed, SettingsRow
    <2>2. clock < today * Day + Placed(shiftOf[s], shiftOf[s].coClose)
      BY <1>1, <1>2, <1>5, ArrivalHours
    <2>3. Placed(shiftOf[s], shiftOf[s].coClose) \in Int
      BY <2>1, OrderedBounds, DayAssumption DEF Bounds, Clocks, Placed
    <2>4. SlotConcluded(today, shiftOf[s], TRUE, clock \div Day, clock % Day, Defaults)
            <=> clock >= today * Day + Placed(shiftOf[s], shiftOf[s].coClose)
      BY <1>4, <2>1, ConcludedIs
    <2>5. Concluded(<<today, s>>) <=>
            SlotConcluded(today, shiftOf[s], TRUE, clock \div Day, clock % Day, Defaults)
      BY <2>1 DEF Concluded, today, minutesOfDay
    <2>6. ~(clock >= today * Day + Placed(shiftOf[s], shiftOf[s].coClose))
      BY <1>4, <2>2, <2>3
    <2>7. QED
      BY <1>2, <1>3, <2>4, <2>5, <2>6
  <1>6. CASE ~settings.enforce
    BY <1>2, <1>3, <1>4, <1>6 DEF Concluded, SlotConcluded
  <1>7. QED
    BY <1>5, <1>6

\* Every step moves the life of every slot by one of its moves, or not at all.
LEMMA LifeStep ==
  ASSUME IInv, IInv', Next, NEW sl \in Slots
  PROVE  Outcome(sl)' = Outcome(sl) \/ <<Outcome(sl), Outcome(sl)'>> \in Life!Moves
  <1>1. rows \in [Slots -> Row \cup {NoRow}] /\ clock \in Nat
    BY DatesAssumption DEF IInv, TypeOK
  <1>2. /\ Outcome(sl) = OutcomeOf(sl) /\ Outcome(sl)' = OutcomeOf(sl)'
    BY OutcomeIs DEF IInv
  <1>3. CASE Tick
    BY <1>1, <1>3, OutcomeWaits DEF Tick
  <1>4. CASE CheckIn
    <2>1. PICK s \in DecideCheckIn(RosteredOn(today), CheckedInOn(today), shiftOf,
                                   settings.enforce, minutesOfDay, Defaults) :
            /\ rows' = [rows EXCEPT ![<<today, s>>] =
                          [status |-> ArrivalStatus(shiftOf[s], minutesOfDay, Defaults),
                           ci |-> clock, co |-> Unset, cs |-> "none"]]
            /\ UNCHANGED <<clock, roster, shiftOf, settings, swept>>
      BY <1>4 DEF CheckIn
    <2>2. PICK mine, a : /\ mine = <<today, s>>
                         /\ a = ArrivalStatus(shiftOf[s], minutesOfDay, Defaults)
      OBVIOUS
    <2>3. /\ mine \in Slots /\ ~Arrived(mine) /\ mine \in roster /\ ~Concluded(mine)
      BY <2>2, CheckInFindsWaiting
    <2>4. CASE sl # mine
      <3>1. rows'[sl] = rows[sl] /\ clock' = clock /\ UNCHANGED <<roster, shiftOf, settings>>
        BY <1>1, <2>1, <2>2, <2>4
      <3>2. QED
        BY <1>1, <3>1, OutcomeWaits
    <2>5. CASE sl = mine
      <3>1. a \in {"present", "late"}
        BY <2>2 DEF ArrivalStatus
      <3>2. rows'[sl] = [status |-> a, ci |-> clock, co |-> Unset, cs |-> "none"]
        BY <1>1, <2>1, <2>2, <2>5
      <3>3. rows'[sl] # NoRow
        <4>1. rows'[sl] \in Row
          BY <1>1, <3>1, <3>2 DEF Row
        <4>2. QED
          BY <4>1, NoRowAssumption
      <3>4. OutcomeOf(sl) = <<"upcoming">>
        BY <2>3, <2>5 DEF OutcomeOf
      <3>5. OutcomeOf(sl)' = <<a, "open">>
        BY <3>2, <3>3 DEF OutcomeOf, Arrived, Way
      <3>6. QED
        BY <1>2, <3>1, <3>4, <3>5, LifeMoves
    <2>6. QED
      BY <2>4, <2>5
  <1>5. CASE CheckOut
    <2>1. PICK o \in CheckOutChoices :
            /\ rows[<<o.date, o.shift>>].cs # "left_work"
            /\ rows' = [rows EXCEPT
                          ![<<o.date, o.shift>>].co = clock,
                          ![<<o.date, o.shift>>].cs =
                             DepartureStatus(shiftOf[o.shift], minutesOfDay, Defaults)]
            /\ UNCHANGED <<clock, roster, shiftOf, settings, swept>>
      BY <1>5 DEF CheckOut
    <2>2. PICK mine, dep : /\ mine = <<o.date, o.shift>>
                           /\ dep = DepartureStatus(shiftOf[o.shift], minutesOfDay, Defaults)
      OBVIOUS
    <2>3. mine \in Slots /\ StillOpen(mine) /\ rows[mine].cs # "left_work"
      BY <2>1, <2>2, ChoiceIs
    <2>4. rows' = [rows EXCEPT ![mine] = [rows[mine] EXCEPT !.co = clock, !.cs = dep]]
      BY <1>1, <2>1, <2>2, <2>3
    <2>5. CASE sl # mine
      <3>1. rows'[sl] = rows[sl] /\ clock' = clock /\ UNCHANGED <<roster, shiftOf, settings>>
        BY <1>1, <2>1, <2>4, <2>5
      <3>2. QED
        BY <1>1, <3>1, OutcomeWaits
    <2>6. CASE sl = mine
      <3>1. rows[sl] \in Row /\ rows[sl].co = Unset /\ rows[sl].cs = "none"
        BY <1>1, <2>3, <2>6 DEF StillOpen, Arrived, IInv, DepartureAfter
      <3>2. dep \in {"early_leave", "checked_out"}
        BY <2>2 DEF DepartureStatus
      <3>3. /\ rows'[sl].status = rows[sl].status /\ rows'[sl].co = clock /\ rows'[sl].cs = dep
            /\ rows'[sl] \in Row
        BY <1>1, <2>4, <2>6, <3>1, <3>2 DEF Row
      <3>4. rows'[sl] # NoRow /\ clock # Unset
        BY <1>1, <3>3, NoRowAssumption, UnsetAssumption
      <3>5. OutcomeOf(sl) = <<rows[sl].status, "open">>
        BY <2>3, <2>6, <3>1 DEF OutcomeOf, StillOpen, Way
      <3>6. OutcomeOf(sl)' = <<rows[sl].status, IF dep = "early_leave" THEN "early" ELSE "out">>
        BY <3>2, <3>3, <3>4 DEF OutcomeOf, Arrived, Way
      <3>7. rows[sl].status \in {"present", "late"}
        BY <3>1 DEF Row
      <3>8. QED
        BY <1>2, <3>5, <3>6, <3>7, LifeMoves
    <2>7. QED
      BY <2>5, <2>6
  <1>6. CASE MarkLeftWork
    <2>1. /\ rows' = [x \in Slots |-> IF Sweepable(x) THEN [rows[x] EXCEPT !.cs = "left_work"]
                                                     ELSE rows[x]]
          /\ UNCHANGED <<clock, roster, shiftOf, settings>>
      BY <1>6 DEF MarkLeftWork
    <2>2. CASE ~Sweepable(sl)
      <3>1. rows'[sl] = rows[sl] /\ clock <= clock'
        BY <1>1, <2>1, <2>2
      <3>2. QED
        BY <2>1, <3>1, OutcomeWaits
    <2>3. CASE Sweepable(sl)
      <3>1. rows'[sl] = [rows[sl] EXCEPT !.cs = "left_work"]
        BY <2>1, <2>3
      <3>2. StillOpen(sl) /\ rows[sl].cs # "left_work"
        BY <2>3 DEF Sweepable
      <3>3. rows[sl] \in Row /\ rows[sl].co = Unset /\ rows[sl].cs = "none"
        BY <1>1, <3>2 DEF StillOpen, Arrived, IInv, DepartureAfter
      <3>4. rows'[sl] \in Row /\ rows'[sl].status = rows[sl].status /\ rows'[sl].cs = "left_work"
        BY <3>1, <3>3 DEF Row
      <3>5. rows'[sl] # NoRow
        BY <3>4, NoRowAssumption
      <3>6. OutcomeOf(sl) = <<rows[sl].status, "open">>
        BY <3>2, <3>3 DEF OutcomeOf, StillOpen, Way
      <3>7. OutcomeOf(sl)' = <<rows[sl].status, "left">>
        BY <3>4, <3>5 DEF OutcomeOf, Arrived, Way
      <3>8. rows[sl].status \in {"present", "late"}
        BY <3>3 DEF Row
      <3>9. QED
        BY <1>2, <3>6, <3>7, <3>8, LifeMoves
    <2>4. QED
      BY <2>2, <2>3
  <1>7. QED
    BY <1>3, <1>4, <1>5, <1>6 DEF Next

\* A slot's outcome only moves forward: ShiftDay implements SlotLife.
THEOREM OutcomesMoveForward ==
  ASSUME AllInOrder
  PROVE  Spec => OutcomeMovesForward
  <1> DEFINE life == [sl \in Slots |-> Outcome(sl)]
  <1>1. IInv /\ Init => Life!Init
    BY LifeInit
  <1>2. IInv /\ IInv' /\ [Next]_vars => [Life!Next]_life
    <2> SUFFICES ASSUME IInv, IInv', [Next]_vars
                 PROVE  Life!Next \/ UNCHANGED life
      OBVIOUS
    <2>1. CASE Next
      <3>1. \A sl \in Slots : life[sl] = Outcome(sl) /\ life'[sl] = Outcome(sl)'
        OBVIOUS
      <3>2. Life!Next
        BY <2>1, <3>1, LifeStep DEF Life!Next
      <3>3. QED
        BY <3>2
    <2>2. CASE UNCHANGED vars
      <3>1. \A sl \in Slots : Outcome(sl)' = Outcome(sl)
        BY <2>2 DEF vars, Outcome, Arrived, Concluded, today, minutesOfDay, Defaults
      <3>2. QED
        BY <3>1
    <2>3. QED
      BY <2>1, <2>2
  <1>3. QED
    BY <1>1, <1>2, Invariant, PTL DEF Spec, OutcomeMovesForward, Life!Spec

-----------------------------------------------------------------------------
(* The geometry of an area: the half-open rule is a ray without corner cases *)

\* Seen from the fix, a and b are corners less than F away along the ray; S is the side
\* on which the fix lies of a-b, T the side on which the far end of the ray lies, and U
\* and V tell on which side of the ray the corners lie.
LEMMA FlatRay ==
  ASSUME NEW F \in Nat \ {0},
         NEW ax \in -F + 1 .. F - 1, NEW ay \in Int,
         NEW bx \in -F + 1 .. F - 1, NEW by \in Int,
         NEW S \in Int, S = ax * by - bx * ay,
         NEW U \in Int, U = F * ay - ax,
         NEW V \in Int, V = F * by - bx,
         NEW T \in Int, T = S + F * (U - V)
  PROVE  /\ ay > 0 /\ by <= 0 => ((U > 0) # (V > 0) /\ S # 0 /\ (S > 0) # (T > 0) <=> S < 0)
         /\ ay <= 0 /\ by > 0 => ((U > 0) # (V > 0) /\ S # 0 /\ (S > 0) # (T > 0) <=> S > 0)
         /\ (ay > 0) = (by > 0) => ~((U > 0) # (V > 0) /\ S # 0 /\ (S > 0) # (T > 0))
  <1>1. F * S = V * ax - U * bx
    BY SMTT(30)
  <1>2. F * F \in Int /\ F * F >= F
    BY SMTT(30)
  <1>3. F * T = U * (F * F - bx) - V * (F * F - ax)
    BY <1>1, SMTT(30)
  <1>4. /\ ay > 0 => U > 0
        /\ by > 0 => V > 0
        /\ ay < 0 => U < 0
        /\ by < 0 => V < 0
        /\ ay = 0 => U = -ax
        /\ by = 0 => V = -bx
    <2>1. /\ ay > 0 => F * ay >= F
          /\ by > 0 => F * by >= F
          /\ ay < 0 => F * ay <= -F
          /\ by < 0 => F * by <= -F
          /\ F * 0 = 0 /\ F * ay \in Int /\ F * by \in Int
      BY SMTT(30)
    <2>2. QED
      BY <2>1
  \* A ray that parts the corners has its far end beyond both.
  <1>5. /\ U > 0 /\ V <= 0 => T > 0
        /\ U <= 0 /\ V > 0 => T < 0
    <2>1. F * F - bx > 0 /\ F * F - ax > 0
      BY <1>2
    <2>2. PICK p, q \in Int : p = F * F - bx /\ q = F * F - ax /\ p > 0 /\ q > 0
      BY <1>2, <2>1
    <2>3. F * T = U * p - V * q
      BY <1>3, <2>2
    <2>4. U > 0 /\ V <= 0 => U * p > 0 /\ V * q <= 0 /\ U * p \in Int /\ V * q \in Int
      BY <2>2, SMTT(30)
    <2>5. U <= 0 /\ V > 0 => U * p <= 0 /\ V * q > 0 /\ U * p \in Int /\ V * q \in Int
      BY <2>2, SMTT(30)
    <2>6. U > 0 /\ V <= 0 => F * T > 0
      BY <2>3, <2>4
    <2>7. U <= 0 /\ V > 0 => F * T < 0
      BY <2>3, <2>5
    <2>8. (F * T > 0 => T > 0) /\ (F * T < 0 => T < 0)
      BY SMTT(30)
    <2>9. QED
      BY <2>6, <2>7, <2>8
  <1>6. ay = 0 => S = ax * by
    BY SMTT(30)
  <1>7. by = 0 => S = -(bx * ay)
    BY SMTT(30)
  <1>8. CASE ay > 0 /\ by <= 0
    <2>1. by = 0 /\ bx < 0 => S > 0
      BY <1>7, <1>8, SMTT(30)
    <2>2. QED
      BY <1>8, <1>4, <1>5, <2>1
  <1>9. CASE ay <= 0 /\ by > 0
    <2>1. ay = 0 /\ ax < 0 => S < 0
      BY <1>6, <1>9, SMTT(30)
    <2>2. QED
      BY <1>9, <1>4, <1>5, <2>1
  <1>10. CASE ay > 0 /\ by > 0
    BY <1>10, <1>4
  <1>11. CASE ay <= 0 /\ by <= 0
    <2>1. ay = 0 /\ ax < 0 /\ by < 0 => S > 0
      BY <1>6, SMTT(30)
    <2>2. by = 0 /\ bx < 0 /\ ay < 0 => S < 0
      BY <1>7, SMTT(30)
    <2>3. ay = 0 /\ by = 0 => S = 0
      BY <1>6, SMTT(30)
    <2>4. QED
      BY <1>11, <1>4, <1>5, <2>1, <2>2, <2>3
  <1>12. QED
    BY <1>8, <1>9, <1>10, <1>11

\* Side, seen from its third point.
LEMMA SideFrom ==
  ASSUME NEW a \in Int \X Int, NEW b \in Int \X Int, NEW p \in Int \X Int
  PROVE  /\ X(a) \in Int /\ Y(a) \in Int
         /\ Side(a, b, p) = (X(a) - X(p)) * (Y(b) - Y(p)) - (X(b) - X(p)) * (Y(a) - Y(p))
         /\ Side(a, b, p) \in Int
  <1>1. PICK x1, y1, x2, y2, x3, y3 \in Int :
          /\ x1 = X(a) /\ y1 = Y(a) /\ x2 = X(b) /\ y2 = Y(b) /\ x3 = X(p) /\ y3 = Y(p)
    BY DEF X, Y
  <1>2. (x2 - x1) * (y3 - y1) - (y2 - y1) * (x3 - x1)
          = (x1 - x3) * (y2 - y3) - (x2 - x3) * (y1 - y3)
    BY SMTT(30)
  <1>3. (x2 - x1) * (y3 - y1) - (y2 - y1) * (x3 - x1) \in Int
    BY SMTT(30)
  <1>4. QED
    BY <1>1, <1>2, <1>3 DEF Side

\* An edge is crossed exactly when the flat ray meets it.
LEMMA EdgeMet ==
  ASSUME NEW F \in Nat \ {0}, NEW p \in Int \X Int, NEW a \in Int \X Int, NEW b \in Int \X Int,
         X(a) - X(p) \in -F + 1 .. F - 1, X(b) - X(p) \in -F + 1 .. F - 1
  PROVE  Crosses(p, a, b) <=> FlatRayMeets(p, a, b, F)
  <1>1. PICK x, y \in Int : x = X(p) /\ y = Y(p)
    BY DEF X, Y
  <1>2. PICK ax \in -F + 1 .. F - 1, ay \in Int : ax = X(a) - x /\ ay = Y(a) - y
    BY <1>1, SideFrom
  <1>3. PICK bx \in -F + 1 .. F - 1, by \in Int : bx = X(b) - x /\ by = Y(b) - y
    BY <1>1, SideFrom
  <1>4. PICK S \in Int : S = Side(a, b, p)
    BY SideFrom
  <1>5. S = ax * by - bx * ay
    BY <1>1, <1>2, <1>3, <1>4, SideFrom
  <1>6. PICK q : q = <<x + F, y + 1>>
    OBVIOUS
  <1>7. X(q) = x + F /\ Y(q) = y + 1
    BY <1>6 DEF X, Y
  <1>8. Side(p, q, a) = F * ay - ax /\ F * ay - ax \in Int
    <2>1. Side(p, q, a) = (X(q) - X(p)) * (Y(a) - Y(p)) - (Y(q) - Y(p)) * (X(a) - X(p))
      BY DEF Side
    <2>2. X(q) - X(p) = F /\ Y(q) - Y(p) = 1 /\ Y(a) - Y(p) = ay /\ X(a) - X(p) = ax
      BY <1>1, <1>2, <1>7
    <2>3. QED
      BY <2>1, <2>2, SMTT(30)
  <1>9. Side(p, q, b) = F * by - bx /\ F * by - bx \in Int
    <2>1. Side(p, q, b) = (X(q) - X(p)) * (Y(b) - Y(p)) - (Y(q) - Y(p)) * (X(b) - X(p))
      BY DEF Side
    <2>2. X(q) - X(p) = F /\ Y(q) - Y(p) = 1 /\ Y(b) - Y(p) = by /\ X(b) - X(p) = bx
      BY <1>1, <1>3, <1>7
    <2>3. QED
      BY <2>1, <2>2, SMTT(30)
  <1>10. PICK U \in Int : U = F * ay - ax
    BY <1>8
  <1>11. PICK V \in Int : V = F * by - bx
    BY <1>9
  <1>12. PICK f \in Int : f = F * F
    BY SMTT(30)
  <1>13. PICK w : w = <<x + f, y + F>>
    OBVIOUS
  <1>14. X(w) = x + f /\ Y(w) = y + F
    BY <1>13 DEF X, Y
  <1>15. Side(a, b, w) = S + F * (U - V) /\ S + F * (U - V) \in Int
    <2>1. Side(a, b, w) = (X(b) - X(a)) * (Y(w) - Y(a)) - (Y(b) - Y(a)) * (X(w) - X(a))
      BY DEF Side
    <2>2. /\ X(b) - X(a) = bx - ax /\ Y(w) - Y(a) = F - ay
          /\ Y(b) - Y(a) = by - ay /\ X(w) - X(a) = f - ax
      <3>1. X(a) \in Int /\ Y(a) \in Int /\ X(b) \in Int /\ Y(b) \in Int
        BY SideFrom
      <3>2. QED
        BY <3>1, <1>2, <1>3, <1>14
    <2>3. (bx - ax) * (F - ay) - (by - ay) * (F * F - ax)
            = ax * by - bx * ay + F * (F * ay - ax - (F * by - bx))
      BY SMTT(30)
    <2>4. S + F * (U - V) = ax * by - bx * ay + F * (F * ay - ax - (F * by - bx))
      BY <1>5, <1>10, <1>11
    <2>5. S + F * (U - V) \in Int
      BY SMTT(30)
    <2>6. QED
      BY <2>1, <2>2, <2>3, <2>4, <2>5, <1>12
  <1>16. PICK T \in Int : T = S + F * (U - V)
    BY <1>15
  <1>17. FlatRayMeets(p, a, b, F) <=> (U > 0) # (V > 0) /\ S # 0 /\ (S > 0) # (T > 0)
    BY <1>1, <1>4, <1>6, <1>8, <1>9, <1>10, <1>11, <1>12, <1>13, <1>15, <1>16 DEF FlatRayMeets
  <1>18. Crosses(p, a, b) <=> ((ay > 0 /\ by <= 0 /\ S < 0) \/ (ay <= 0 /\ by > 0 /\ S > 0))
    <2>1. Y(a) \in Int /\ Y(b) \in Int /\ Y(p) \in Int
      BY SideFrom
    <2>2. /\ (Y(a) > Y(p)) <=> ay > 0
          /\ (Y(b) > Y(p)) <=> by > 0
          /\ (Y(b) > Y(a)) <=> by > ay
      BY <1>1, <1>2, <1>3, <2>1
    <2>3. QED
      BY <1>4, <2>2 DEF Crosses
  <1>19. /\ ay > 0 /\ by <= 0 => ((U > 0) # (V > 0) /\ S # 0 /\ (S > 0) # (T > 0) <=> S < 0)
         /\ ay <= 0 /\ by > 0 => ((U > 0) # (V > 0) /\ S # 0 /\ (S > 0) # (T > 0) <=> S > 0)
         /\ (ay > 0) = (by > 0) => ~((U > 0) # (V > 0) /\ S # 0 /\ (S > 0) # (T > 0))
    BY <1>5, <1>10, <1>11, <1>16, FlatRay
  <1>20. CASE ay > 0 /\ by <= 0
    BY <1>17, <1>18, <1>19, <1>20, SMTT(30)
  <1>21. CASE ay <= 0 /\ by > 0
    BY <1>17, <1>18, <1>19, <1>21
  <1>22. CASE (ay > 0) = (by > 0)
    BY <1>17, <1>18, <1>19, <1>22
  <1>23. QED
    BY <1>20, <1>21, <1>22

\* The edge to a corner comes from a corner.
LEMMA EdgeCorners ==
  ASSUME NEW ring \in Seq(Int \X Int), NEW i \in 1..Len(ring)
  PROVE  ring[i] \in Int \X Int /\ \E j \in 1..Len(ring) : Before(ring, i) = ring[j]
  <1>1. Len(ring) \in Nat
    OBVIOUS
  <1>2. (IF i = 1 THEN Len(ring) ELSE i - 1) \in 1..Len(ring)
    BY <1>1
  <1>3. ring[i] \in Int \X Int
    OBVIOUS
  <1>4. Before(ring, i) = ring[IF i = 1 THEN Len(ring) ELSE i - 1]
    BY DEF Before
  <1>5. QED
    BY <1>2, <1>3, <1>4, Zenon

\* The half-open ray cast of insideRing decides what a ray that has no corner cases
\* decides, for every area on the grid and every fix: a corner that the ray passes
\* through is neither counted twice nor missed.
THEOREM WithinIsCovered ==
  ASSUME NEW c \in Branches, NEW p \in Fixes
  PROVE  Within(c, p) <=> Covered(c, p, Far)
  <1>1. /\ c \in Shape /\ p \in Int \X Int /\ Far \in Nat \ {0} /\ c.area \in Seq(Int \X Int)
        /\ \A i \in 1..Len(c.area) : X(c.area[i]) - X(p) \in -Far + 1 .. Far - 1
    BY CheckInAssumption, FarAssumption DEF Shape
  <1>2. ASSUME NEW i \in 1..Len(c.area)
        PROVE  Crosses(p, Before(c.area, i), c.area[i])
                 <=> FlatRayMeets(p, Before(c.area, i), c.area[i], Far)
    <2>1. PICK j \in 1..Len(c.area) : Before(c.area, i) = c.area[j]
      BY <1>1, EdgeCorners
    <2>2. PICK a, b \in Int \X Int : a = c.area[j] /\ b = c.area[i]
      BY <1>1, EdgeCorners
    <2>3. QED
      BY <1>1, <2>1, <2>2, EdgeMet
  <1>3. {i \in 1..Len(c.area) : Crosses(p, Before(c.area, i), c.area[i])}
          = {i \in 1..Len(c.area) : FlatRayMeets(p, Before(c.area, i), c.area[i], Far)}
    BY <1>2
  <1>4. QED
    BY <1>3 DEF Within, Covered, InsideRing

-----------------------------------------------------------------------------
(* The gates: none refuses exactly when each is passed *)

\* Of some numbers one is the least.
LEMMA LeastOf ==
  ASSUME NEW N \in SUBSET Nat, N # {}
  PROVE  \E i \in N : \A j \in N : i <= j
  <1> DEFINE R == {ss \in Nat \X Nat : ss[1] < ss[2]}
  <1>1. IsWellFoundedOn(R, Nat)
    BY NatLessThanWellFounded DEF OpToRel
  <1>2. \A s \in Nat \X Nat : s[1] < s[2] => s \in R
    OBVIOUS
  <1> HIDE DEF R
  <1>3. PICK i \in N : \A j \in N : ~ (<<j, i>> \in R)
    BY <1>1, WFMin
  <1>4. \A j \in N : ~(j < i)
    BY <1>2, <1>3
  <1>5. QED
    BY <1>3, <1>4

\* What checkGates asks, in its order.
Asked(e, s, b, enrolled, within) ==
  << <<b.blocked, "branch_blocked">>,
     <<b.requireQr /\ ~b.location, "qr_required">>,
     <<~b.face /\ ~enrolled, "not_enrolled">>,
     <<s.integrity /\ ~e.marked, "integrity_failed">>,
     <<~b.location /\ e.mock, "mock">>,
     <<~b.location /\ ~e.accurate, "low_accuracy">>,
     <<~b.location /\ ~within, "out_of_range">>,
     <<~b.face /\ s.liveness /\ ~e.liveness, "liveness">>,
     <<~b.face /\ e.face = "none", "face_required">>,
     <<~b.face /\ e.face = "mismatch", "face_mismatch">> >>

\* The first of the questions answered yes names the refusal, and no refusal is "none".
LEMMA FirstRefusal ==
  ASSUME NEW asked, DOMAIN asked = 1..10,
         \A i \in 1..10 : asked[i][2] # "none"
  PROVE  (IF {k \in DOMAIN asked : asked[k][1]} = {} THEN "none"
          ELSE asked[CHOOSE i \in {k \in DOMAIN asked : asked[k][1]} :
                       \A j \in {k \in DOMAIN asked : asked[k][1]} : i <= j][2]) = "none"
           <=> \A i \in 1..10 : ~asked[i][1]
  <1>1. PICK refusing : refusing = {k \in DOMAIN asked : asked[k][1]}
    OBVIOUS
  <1>2. CASE refusing = {}
    BY <1>1, <1>2
  <1>3. CASE refusing # {}
    <2>1. \E i \in refusing : \A j \in refusing : i <= j
      <3>1. refusing \subseteq Nat
        BY <1>1
      <3>2. QED
        BY <3>1, <1>3, LeastOf
    <2>2. (CHOOSE i \in refusing : \A j \in refusing : i <= j) \in 1..10
      BY <1>1, <2>1
    <2>3. QED
      BY <1>1, <1>3, <2>2
  <1>4. QED
    BY <1>2, <1>3

LEMMA NoGateRefuses ==
  ASSUME NEW e, NEW s, NEW b, NEW enrolled, NEW within
  PROVE  CheckGates(e, s, b, enrolled, within) = "none"
           <=> /\ ~b.blocked
               /\ ~(b.requireQr /\ ~b.location)
               /\ ~(~b.face /\ ~enrolled)
               /\ ~(s.integrity /\ ~e.marked)
               /\ ~(~b.location /\ e.mock)
               /\ ~(~b.location /\ ~e.accurate)
               /\ ~(~b.location /\ ~within)
               /\ ~(~b.face /\ s.liveness /\ ~e.liveness)
               /\ ~(~b.face /\ e.face = "none")
               /\ ~(~b.face /\ e.face = "mismatch")
  <1>1. PICK asked : asked = Asked(e, s, b, enrolled, within)
    OBVIOUS
  <1>2. DOMAIN asked = 1..10
    BY <1>1 DEF Asked
  <1>3. \A i \in 1..10 : asked[i][2] # "none"
    BY <1>1 DEF Asked
  <1>4. CheckGates(e, s, b, enrolled, within)
          = IF {k \in DOMAIN Asked(e, s, b, enrolled, within) :
                  Asked(e, s, b, enrolled, within)[k][1]} = {} THEN "none"
            ELSE Asked(e, s, b, enrolled, within)
                   [CHOOSE i \in {k \in DOMAIN Asked(e, s, b, enrolled, within) :
                                    Asked(e, s, b, enrolled, within)[k][1]} :
                      \A j \in {k \in DOMAIN Asked(e, s, b, enrolled, within) :
                                 Asked(e, s, b, enrolled, within)[k][1]} : i <= j][2]
    BY DEF CheckGates, Asked
  <1>5. CheckGates(e, s, b, enrolled, within) = "none" <=> \A i \in 1..10 : ~asked[i][1]
    BY <1>1, <1>2, <1>3, <1>4, FirstRefusal
  <1>6. /\ asked[1][1] <=> b.blocked
        /\ asked[2][1] <=> (b.requireQr /\ ~b.location)
        /\ asked[3][1] <=> (~b.face /\ ~enrolled)
        /\ asked[4][1] <=> (s.integrity /\ ~e.marked)
        /\ asked[5][1] <=> (~b.location /\ e.mock)
        /\ asked[6][1] <=> (~b.location /\ ~e.accurate)
        /\ asked[7][1] <=> (~b.location /\ ~within)
        /\ asked[8][1] <=> (~b.face /\ s.liveness /\ ~e.liveness)
        /\ asked[9][1] <=> (~b.face /\ e.face = "none")
        /\ asked[10][1] <=> (~b.face /\ e.face = "mismatch")
    BY <1>1 DEF Asked
  <1>7. \A i \in 1..10 : i = 1 \/ i = 2 \/ i = 3 \/ i = 4 \/ i = 5 \/ i = 6 \/ i = 7 \/ i = 8
                        \/ i = 9 \/ i = 10
    OBVIOUS
  <1>8. (\A i \in 1..10 : ~asked[i][1])
          <=> /\ ~asked[1][1] /\ ~asked[2][1] /\ ~asked[3][1] /\ ~asked[4][1] /\ ~asked[5][1]
              /\ ~asked[6][1] /\ ~asked[7][1] /\ ~asked[8][1] /\ ~asked[9][1] /\ ~asked[10][1]
    BY <1>7
  <1>9. QED
    BY <1>5, <1>6, <1>8

-----------------------------------------------------------------------------
(* The check-in page: what a run under way knows to be so *)

\* A run j that was rendered up to date and that nothing has overtaken goes by the rules ru
\* and for the slot d that the server goes by; past the scanner a window w is open and the
\* page knows it (k); past the start a code that is required has opened one; past the
\* location the place is granted or was found in the circle of branch b; and what is sent
\* has the face it needs.  Of other runs it says only what the rendering asked.
Kept(j, ru, d, w, k, b) ==
  /\ ~PageBypass(j.rules, FALSE).blocked /\ j.rules.enrolled
  /\ j.fresh =>
       /\ j.rules = ru
       /\ j.pc # "decided" => d # "out" /\ j.type = TypeOf[d]
       /\ j.pc = "opened" => k /\ w = "open"
       /\ j.pc \in {"locating", "capturing", "submitting"} /\ PageBypass(ru, FALSE).requireQr
            => w = "open"
       /\ j.pc \in {"capturing", "submitting"}
            => AnyOn("location", ru.settings, ru.unit) \/ w = "open"
               \/ NoFurther(b, j.at, b.radius + Slack)
       /\ j.pc = "submitting" => AnyOn("face", ru.settings, ru.unit) \/ j.face = "match"

\* The inductive invariant of the page.
PageInv ==
  /\ PageTypeOK
  /\ \A r \in Runs : run[r] # Idle => Kept(run[r], rules, day, window, knows, branch)

\* A run stays as it was, or stops being fresh.
LEMMA KeptWhenStale ==
  ASSUME NEW j \in Run, NEW ru, NEW d, NEW w, NEW k, NEW b,
         NEW ru2, NEW d2, NEW w2, NEW k2, NEW b2,
         Kept(j, ru, d, w, k, b)
  PROVE  /\ [j EXCEPT !.fresh = FALSE] \in Run
         /\ [j EXCEPT !.fresh = FALSE].pc = j.pc
         /\ Kept([j EXCEPT !.fresh = FALSE], ru2, d2, w2, k2, b2)
  <1>1. PICK i : i = [j EXCEPT !.fresh = FALSE]
    OBVIOUS
  <1>2. i \in Run /\ i.pc = j.pc /\ i.rules = j.rules /\ i.fresh = FALSE
    BY <1>1 DEF Run
  <1>3. QED
    BY <1>1, <1>2 DEF Kept

\* A step of one run, which the rules, the day and the branch outlast.
LEMMA OneRun ==
  ASSUME PageInv, NEW r \in Runs, NEW j \in Run \cup {Idle},
         run' = [run EXCEPT ![r] = j],
         j # Idle => Kept(j, rules, day, window', knows', branch),
         UNCHANGED <<rules, day, edits, fixed, place>>,
         window' = window \/ window' = "open", lit' \in BOOLEAN,
         knows' = knows \/ knows' = TRUE \/ (knows' = FALSE /\ window # "open"),
         seen' \in [rules : Rulebook, day : {"due", "in", "out"}],
         phase' \in {"ready", "locating", "capturing", "submitting", "done", "failed"}
  PROVE  PageInv'
  <1>1. PageTypeOK'
    BY DEF PageInv, PageTypeOK, fixed
  <1>2. ASSUME NEW q \in Runs, run'[q] # Idle
        PROVE  Kept(run'[q], rules', day', window', knows', branch')
    <2>1. rules' = rules /\ day' = day /\ branch' = branch
      BY DEF fixed
    <2>2. CASE q = r
      BY <1>2, <2>1, <2>2 DEF PageInv, PageTypeOK
    <2>3. CASE q # r
      <3>1. run'[q] = run[q] /\ Kept(run[q], rules, day, window, knows, branch)
        BY <1>2, <2>3 DEF PageInv, PageTypeOK
      <3>2. Kept(run[q], rules, day, window', knows', branch)
        BY <3>1 DEF Kept, PageInv, PageTypeOK
      <3>3. QED
        BY <2>1, <3>1, <3>2
    <2>4. QED
      BY <2>2, <2>3
  <1>3. QED
    BY <1>1, <1>2 DEF PageInv

\* A run that ends or gives up.
LEMMA Finishes ==
  ASSUME PageInv, NEW r \in Runs, NEW shown \in {"ready", "done", "failed"},
         Finish(r, shown), UNCHANGED <<rules, day, edits, fixed, place>>,
         window' = window \/ window' = "open", lit' \in BOOLEAN,
         knows' = knows \/ knows' = WindowActive,
         seen' \in [rules : Rulebook, day : {"due", "in", "out"}]
  PROVE  PageInv'
  BY OneRun DEF Finish, WindowActive, PageInv, PageTypeOK

\* What a run knows when it starts or goes on from its scanner.
Ready(j) ==
  /\ ~PageBypass(j.rules, FALSE).blocked /\ j.rules.enrolled
  /\ j.fresh => /\ j.rules = rules /\ day # "out" /\ j.type = TypeOf[day]
                /\ PageBypass(rules, FALSE).requireQr => window = "open"

\* Past the location.
LEMMA GoesOn ==
  ASSUME PageInv, NEW r \in Runs, NEW job \in Run, Ready(job), Onward(r, job),
         job.fresh => AnyOn("location", rules.settings, rules.unit) \/ window = "open"
                      \/ FoundIn(job.at),
         lit' \in BOOLEAN,
         UNCHANGED <<server, fixed, place, seen, knows>>
  PROVE  PageInv'
  <1>0. /\ seen' \in [rules : Rulebook, day : {"due", "in", "out"}]
        /\ UNCHANGED <<rules, day, window, edits, fixed, place, knows>>
    BY DEF PageInv, PageTypeOK, server
  <1>1. CASE PageBypass(job.rules, FALSE).face
    <2>1. PICK j : j = [job EXCEPT !.pc = "submitting"]
      OBVIOUS
    <2>2. /\ j \in Run /\ j.pc = "submitting" /\ j.rules = job.rules /\ j.type = job.type
          /\ j.fresh = job.fresh /\ j.at = job.at
      BY <2>1 DEF Run
    <2>3. AnyOn("face", job.rules.settings, job.rules.unit)
      BY <1>1 DEF PageBypass, ResolveBypass
    <2>4. Kept(j, rules, day, window, knows, branch)
      BY <2>2, <2>3 DEF Kept, Ready, FoundIn
    <2>5. run' = [run EXCEPT ![r] = j] /\ phase' = "submitting"
      BY <1>1, <2>1 DEF Onward
    <2>6. QED
      BY <1>0, <2>2, <2>4, <2>5, OneRun
  <1>2. CASE ~PageBypass(job.rules, FALSE).face
    <2>1. PICK j : j = [job EXCEPT !.pc = "capturing"]
      OBVIOUS
    <2>2. /\ j \in Run /\ j.pc = "capturing" /\ j.rules = job.rules /\ j.type = job.type
          /\ j.fresh = job.fresh /\ j.at = job.at
      BY <2>1 DEF Run
    <2>3. Kept(j, rules, day, window, knows, branch)
      BY <2>2 DEF Kept, Ready, FoundIn
    <2>4. run' = [run EXCEPT ![r] = j] /\ phase' = "capturing"
      BY <1>2, <2>1 DEF Onward
    <2>5. QED
      BY <1>0, <2>2, <2>3, <2>4, OneRun
  <1>3. QED
    BY <1>1, <1>2

LEMMA Begins ==
  ASSUME PageInv, NEW r \in Runs, NEW job \in Run, Ready(job), Start(r, job),
         lit' \in BOOLEAN,
         UNCHANGED <<server, fixed, place, seen, knows>>
  PROVE  PageInv'
  <1>0. /\ seen' \in [rules : Rulebook, day : {"due", "in", "out"}]
        /\ UNCHANGED <<rules, day, window, edits, fixed, place, knows>>
    BY DEF PageInv, PageTypeOK, server
  <1>1. CASE job.rules.unit.block
    <2>1. Finish(r, "failed")
      BY <1>1 DEF Start
    <2>2. QED
      BY <1>0, <2>1, Finishes
  <1>2. CASE ~job.rules.unit.block /\ PageBypass(job.rules, WindowActive).location
    <2>1. Onward(r, job)
      BY <1>2 DEF Start
    <2>2. job.fresh => AnyOn("location", rules.settings, rules.unit) \/ window = "open"
      BY <1>2 DEF PageBypass, ResolveBypass, WindowActive, Ready
    <2>3. QED
      BY <2>1, <2>2, GoesOn
  <1>3. CASE ~job.rules.unit.block /\ ~PageBypass(job.rules, WindowActive).location
    <2>1. PICK j : j = [job EXCEPT !.pc = "locating"]
      OBVIOUS
    <2>2. /\ j \in Run /\ j.pc = "locating" /\ j.rules = job.rules /\ j.type = job.type
          /\ j.fresh = job.fresh
      BY <2>1 DEF Run
    <2>3. Kept(j, rules, day, window, knows, branch)
      BY <2>2 DEF Kept, Ready
    <2>4. run' = [run EXCEPT ![r] = j] /\ phase' = "locating"
      BY <1>3, <2>1 DEF Start
    <2>5. QED
      BY <1>0, <2>2, <2>3, <2>4, OneRun
  <1>4. QED
    BY <1>1, <1>2, <1>3

\* A page rendered again shows a window or does not.
LEMMA RenderedIs ==
  ASSUME PageInv, Rendered
  PROVE  lit' \in BOOLEAN
  <1>1. lit' = lit \/ lit' = (knows' /\ window' = "open")
    BY DEF Rendered, WindowActive
  <1>2. QED
    BY <1>1 DEF PageInv, PageTypeOK

\* A rendering handed to a run.
LEMMA SnapshotReady ==
  ASSUME PageInv, Actionable, NEW pc \in {"locating", "scanning"}
  PROVE  /\ Snapshot(pc) \in Run /\ Snapshot(pc).pc = pc
         /\ Snapshot(pc).rules = seen.rules
         /\ ~PageBypass(seen.rules, FALSE).blocked /\ seen.rules.enrolled
         /\ Snapshot(pc).fresh => /\ seen.rules = rules /\ day # "out"
                                  /\ Snapshot(pc).type = TypeOf[day]
                                  /\ lit = WindowActive
  <1>1. PICK ru \in Rulebook, d \in {"due", "in"} : ru = seen.rules /\ d = seen.day
    BY DEF PageInv, PageTypeOK, Actionable
  <1>2. TypeOf[d] \in {"check_in", "check_out"}
    BY DEF TypeOf
  <1>3. Snapshot(pc) \in Run /\ Snapshot(pc).pc = pc /\ Snapshot(pc).rules = seen.rules
    BY <1>1, <1>2 DEF Snapshot, Run, Fixes
  <1>4. Snapshot(pc).fresh => seen.rules = rules /\ seen.day = day /\ lit = WindowActive
    <2>1. Snapshot(pc).fresh = (seen = [rules |-> rules, day |-> day] /\ lit = WindowActive)
      BY DEF Snapshot
    <2>2. seen = [rules |-> rules, day |-> day] => seen.rules = rules /\ seen.day = day
      OBVIOUS
    <2>3. QED
      BY <2>1, <2>2
  <1>5. Snapshot(pc).type = TypeOf[seen.day]
    BY DEF Snapshot
  <1>6. QED
    BY <1>1, <1>3, <1>4, <1>5 DEF Actionable

LEMMA RunOf ==
  ASSUME PageInv, NEW r \in Runs, NEW pc, At(r, pc)
  PROVE  run[r] \in Run /\ run[r] # Idle /\ run[r].pc = pc
         /\ Kept(run[r], rules, day, window, knows, branch)
  BY DEF PageInv, PageTypeOK, At

\* What nobody but the page writes.
LEMMA PageKeeps ==
  ASSUME PageInv, UNCHANGED <<server, fixed, place>>
  PROVE  /\ UNCHANGED <<rules, day, edits, fixed, place>> /\ window' = window
         /\ seen' = seen => seen' \in [rules : Rulebook, day : {"due", "in", "out"}]
  BY DEF server, PageInv, PageTypeOK

\* The runs that stop being fresh.
LEMMA GoneStale ==
  ASSUME PageInv, NEW ru2, NEW d2, NEW w2,
         NEW q \in Runs, run[q] # Idle
  PROVE  /\ [run[q] EXCEPT !.fresh = FALSE] \in Run
         /\ [run[q] EXCEPT !.fresh = FALSE].pc = run[q].pc
         /\ Kept([run[q] EXCEPT !.fresh = FALSE], ru2, d2, w2, knows, branch)
  BY KeptWhenStale DEF PageInv, PageTypeOK

LEMMA EverybodyStale ==
  ASSUME PageInv, run' = AllStale, UNCHANGED <<fixed, place, seen, phase, knows, lit>>,
         rules' \in Rulebook, day' \in {"due", "in", "out"},
         window' \in {"never", "open", "over"}, edits' \in 0..Edits
  PROVE  PageInv'
  <1>1. ASSUME NEW q \in Runs
        PROVE  /\ run'[q] \in Run \cup {Idle}
               /\ run'[q] # Idle => Kept(run'[q], rules', day', window', knows', branch')
    <2>1. run'[q] = IF run[q] = Idle THEN Idle ELSE [run[q] EXCEPT !.fresh = FALSE]
      BY DEF AllStale
    <2>2. knows' = knows /\ branch' = branch
      BY DEF fixed
    <2>3. QED
      BY <2>1, <2>2, GoneStale
  <1>2. run' \in [Runs -> Run \cup {Idle}]
    BY <1>1 DEF AllStale
  <1>3. PageTypeOK'
    BY <1>2 DEF PageInv, PageTypeOK, fixed
  <1>4. QED
    BY <1>1, <1>3 DEF PageInv

-----------------------------------------------------------------------------
(* Every action keeps the invariant *)

LEMMA TapKeeps ==
  ASSUME PageInv, NEW r \in Runs, Tap(r)
  PROVE  PageInv'
  <1>1. /\ Actionable /\ (PageBypass(seen.rules, FALSE).requireQr => lit)
        /\ lit = WindowActive => (lit => window = "open")
    BY DEF Tap, TapEnabled, WindowActive
  <1>2. PICK job \in Run : job = Snapshot("locating")
    BY <1>1, SnapshotReady
  <1>3. Ready(job)
    BY <1>1, <1>2, SnapshotReady DEF Ready
  <1>4. QED
    BY <1>2, <1>3, Begins, RenderedIs DEF Tap

LEMMA LocateKeeps ==
  ASSUME PageInv, NEW r \in Runs, Locate(r)
  PROVE  PageInv'
  <1>1. /\ run[r] \in Run /\ run[r].pc = "locating"
        /\ Kept(run[r], rules, day, window, knows, branch)
    BY RunOf DEF Locate
  <1>2. PICK job : job = [run[r] EXCEPT !.at = place]
    OBVIOUS
  <1>3. place \in Fixes
    BY DEF PageInv, PageTypeOK, Fixes
  <1>4. /\ job \in Run /\ job.rules = run[r].rules /\ job.type = run[r].type
        /\ job.fresh = run[r].fresh /\ job.at = place
    BY <1>1, <1>2, <1>3 DEF Run
  <1>5. Ready(job)
    BY <1>1, <1>4 DEF Ready, Kept
  <1>6. Onward(r, job) /\ FoundIn(job.at)
    BY <1>2, <1>4 DEF Locate
  <1>7. QED
    BY <1>4, <1>5, <1>6, GoesOn, RenderedIs DEF Locate

LEMMA CaptureKeeps ==
  ASSUME PageInv, NEW r \in Runs, Capture(r)
  PROVE  PageInv'
  <1>1. /\ run[r] \in Run /\ run[r].pc = "capturing"
        /\ Kept(run[r], rules, day, window, knows, branch)
    BY RunOf DEF Capture
  <1>2. PICK job : job = [run[r] EXCEPT !.pc = "submitting", !.face = "match"]
    OBVIOUS
  <1>3. /\ job \in Run /\ job.rules = run[r].rules /\ job.type = run[r].type
        /\ job.fresh = run[r].fresh /\ job.at = run[r].at /\ job.face = "match"
        /\ job.pc = "submitting"
    BY <1>1, <1>2 DEF Run
  <1>4. Kept(job, rules, day, window, knows, branch)
    BY <1>1, <1>3 DEF Kept
  <1>5. run' = [run EXCEPT ![r] = job] /\ phase' = "submitting" /\ seen' = seen /\ knows' = knows
    BY <1>2 DEF Capture, PageInv, PageTypeOK
  <1>6. QED
    BY <1>3, <1>4, <1>5, PageKeeps, OneRun, RenderedIs DEF Capture

LEMMA DecideKeepsPage ==
  ASSUME PageInv, NEW r \in Runs, ServerDecides(r)
  PROVE  PageInv'
  <1>1. /\ run[r] \in Run /\ run[r] # Idle /\ run[r].pc = "submitting"
        /\ Kept(run[r], rules, day, window, knows, branch)
    BY RunOf DEF ServerDecides
  <1>2. PICK ok \in BOOLEAN : ok = (Answer(r) = "none" /\ SlotTakes(r))
    OBVIOUS
  <1>3. /\ run' = [(IF ok THEN Stale(r) ELSE run)
                     EXCEPT ![r] = [@ EXCEPT !.pc = "decided", !.ok = ok]]
        /\ day' = IF ~ok THEN day ELSE IF day = "due" THEN "in" ELSE "out"
        /\ UNCHANGED <<rules, window, edits, fixed, place, seen, phase, knows, lit>>
    BY <1>2 DEF ServerDecides
  <1>4. PICK job : job = [run[r] EXCEPT !.pc = "decided", !.ok = ok]
    OBVIOUS
  <1>5. /\ job \in Run /\ job.rules = run[r].rules /\ job.fresh = run[r].fresh
        /\ job.pc = "decided"
    BY <1>1, <1>4 DEF Run
  <1>6. Kept(job, rules, day', window, knows, branch)
    BY <1>1, <1>5 DEF Kept
  <1>7. ASSUME NEW q \in Runs
        PROVE  /\ run'[q] \in Run \cup {Idle}
               /\ run'[q] # Idle => Kept(run'[q], rules, day', window, knows, branch)
    <2>1. CASE q = r
      <3>1. run'[q] = job
        BY <1>3, <1>4, <2>1 DEF Stale, PageInv, PageTypeOK
      <3>2. QED
        BY <3>1, <1>5, <1>6
    <2>2. CASE q # r /\ ok /\ run[q] # Idle
      <3>1. run'[q] = [run[q] EXCEPT !.fresh = FALSE]
        BY <1>3, <2>2 DEF Stale, PageInv, PageTypeOK
      <3>2. QED
        BY <3>1, <2>2, GoneStale
    <2>3. CASE q # r /\ ~(ok /\ run[q] # Idle)
      <3>1. run'[q] = run[q]
        BY <1>3, <2>3 DEF Stale, PageInv, PageTypeOK
      <3>2. run[q] # Idle => day' = day
        BY <1>3, <2>3
      <3>3. run[q] # Idle => Kept(run[q], rules, day', window, knows, branch)
        BY <3>2 DEF PageInv
      <3>4. run[q] \in Run \cup {Idle}
        BY DEF PageInv, PageTypeOK
      <3>5. QED
        BY <3>1, <3>3, <3>4
    <2>4. QED
      BY <2>1, <2>2, <2>3
  <1>8. run' \in [Runs -> Run \cup {Idle}]
    <2>1. DOMAIN run' = Runs /\ run' = [q \in Runs |-> run'[q]]
      BY <1>3 DEF Stale, PageInv, PageTypeOK
    <2>2. QED
      BY <1>7, <2>1
  <1>9. day' \in {"due", "in", "out"}
    BY <1>3 DEF PageInv, PageTypeOK
  <1>10. PageTypeOK'
    BY <1>3, <1>8, <1>9 DEF PageInv, PageTypeOK, fixed
  <1>11. rules' = rules /\ window' = window /\ knows' = knows /\ branch' = branch
    BY <1>3 DEF fixed
  <1>12. QED
    BY <1>7, <1>10, <1>11 DEF PageInv

LEMMA ScannerKeeps ==
  ASSUME PageInv, NEW r \in Runs, OpenScanner(r) \/ Scan(r)
  PROVE  PageInv'
  <1>1. CASE OpenScanner(r)
    <2>1. Actionable
      BY <1>1 DEF OpenScanner, ScanEnabled
    <2>2. PICK job \in Run : job = Snapshot("scanning")
      BY <2>1, SnapshotReady
    <2>3. Kept(job, rules, day, window, knows, branch)
      BY <2>1, <2>2, SnapshotReady DEF Kept
    <2>4. run' = [run EXCEPT ![r] = job] /\ seen' = seen /\ knows' = knows /\ phase' = phase
          /\ UNCHANGED <<server, fixed, place>> /\ lit' \in BOOLEAN
      BY <1>1, <2>2, RenderedIs DEF OpenScanner
    <2>5. phase \in {"ready", "locating", "capturing", "submitting", "done", "failed"}
      BY DEF PageInv, PageTypeOK
    <2>6. QED
      BY <2>3, <2>4, <2>5, PageKeeps, OneRun
  <1>2. CASE Scan(r)
    <2>1. /\ run[r] \in Run /\ run[r].pc = "scanning"
          /\ Kept(run[r], rules, day, window, knows, branch)
      BY <1>2, RunOf DEF Scan
    <2>2. PICK job : job = [run[r] EXCEPT !.pc = "redeeming"]
      OBVIOUS
    <2>3. /\ job \in Run /\ job.rules = run[r].rules /\ job.type = run[r].type
          /\ job.fresh = run[r].fresh /\ job.pc = "redeeming"
      BY <2>1, <2>2 DEF Run
    <2>4. Kept(job, rules, day, window, knows, branch)
      BY <2>1, <2>3 DEF Kept
    <2>5. run' = [run EXCEPT ![r] = job] /\ seen' = seen /\ knows' = knows /\ phase' = phase
          /\ UNCHANGED <<server, fixed, place>>
      BY <1>2, <2>2 DEF Scan, PageInv, PageTypeOK
    <2>8. lit' \in BOOLEAN
      BY <1>2, RenderedIs DEF Scan
    <2>6. phase \in {"ready", "locating", "capturing", "submitting", "done", "failed"}
      BY DEF PageInv, PageTypeOK
    <2>7. QED
      BY <2>3, <2>4, <2>5, <2>6, <2>8, PageKeeps, OneRun
  <1>3. QED
    BY <1>1, <1>2

LEMMA RedeemKeeps ==
  ASSUME PageInv, NEW r \in Runs, Redeem(r)
  PROVE  PageInv'
  <1>0. /\ UNCHANGED <<rules, day, edits, fixed, place>> /\ window' = "open" /\ seen' = seen
        /\ seen \in [rules : Rulebook, day : {"due", "in", "out"}]
    BY DEF Redeem, PageInv, PageTypeOK
  <1>1. CASE knows' = TRUE /\ lit' = TRUE /\ run' = [run EXCEPT ![r].pc = "opened"]
             /\ UNCHANGED phase
    <2>1. /\ run[r] \in Run /\ run[r].pc = "redeeming"
          /\ Kept(run[r], rules, day, window, knows, branch)
      BY RunOf DEF Redeem
    <2>2. PICK job : job = [run[r] EXCEPT !.pc = "opened"]
      OBVIOUS
    <2>3. /\ job \in Run /\ job.rules = run[r].rules /\ job.type = run[r].type
          /\ job.fresh = run[r].fresh /\ job.pc = "opened"
      BY <2>1, <2>2 DEF Run
    <2>4. Kept(job, rules, day, window', knows', branch)
      BY <1>0, <1>1, <2>1, <2>3 DEF Kept
    <2>5. run' = [run EXCEPT ![r] = job]
      BY <1>1, <2>2 DEF PageInv, PageTypeOK
    <2>6. phase' \in {"ready", "locating", "capturing", "submitting", "done", "failed"}
      BY <1>1 DEF PageInv, PageTypeOK
    <2>7. QED
      BY <1>0, <1>1, <2>3, <2>4, <2>5, <2>6, OneRun
  <1>2. CASE Finish(r, "failed") /\ knows' = WindowActive /\ Rendered
    BY <1>0, <1>2, Finishes, RenderedIs
  <1>3. QED
    BY <1>1, <1>2 DEF Redeem

LEMMA RunAfterScanKeeps ==
  ASSUME PageInv, NEW r \in Runs, RunAfterScan(r)
  PROVE  PageInv'
  <1>1. /\ run[r] \in Run /\ run[r].pc = "opened"
        /\ Kept(run[r], rules, day, window, knows, branch)
    BY RunOf DEF RunAfterScan
  <1>2. Ready(run[r])
    BY <1>1 DEF Ready, Kept
  <1>3. QED
    BY <1>1, <1>2, Begins, RenderedIs DEF RunAfterScan

LEMMA EndsKeep ==
  ASSUME PageInv, NEW r \in Runs,
         \/ LocateFails(r) \/ LocateOutOfRange(r) \/ Cancel(r) \/ CaptureFails(r)
         \/ Answered(r) \/ Unanswered(r) \/ CloseScanner(r) \/ RedeemRefused(r)
  PROVE  PageInv'
  <1>0. UNCHANGED <<server, fixed, place>> /\ knows' = knows /\ lit' \in BOOLEAN
    BY RenderedIs DEF LocateFails, LocateOutOfRange, Cancel, CaptureFails, Answered, Unanswered,
           CloseScanner, RedeemRefused
  <1>1. seen' \in [rules : Rulebook, day : {"due", "in", "out"}]
    <2>1. seen' = seen \/ seen' = [seen EXCEPT !.day = day]
      BY DEF LocateFails, LocateOutOfRange, Cancel, CaptureFails, Answered, Unanswered,
             CloseScanner, RedeemRefused
    <2>2. QED
      BY <2>1 DEF PageInv, PageTypeOK
  <1>2. CASE CloseScanner(r)
    <2>1. run' = [run EXCEPT ![r] = Idle]
      BY <1>2 DEF CloseScanner
    <2>2. phase' \in {"ready", "locating", "capturing", "submitting", "done", "failed"}
      BY <1>2 DEF CloseScanner, PageInv, PageTypeOK
    <2>3. QED
      BY <1>0, <1>1, <2>1, <2>2, PageKeeps, OneRun
  <1>3. CASE ~CloseScanner(r)
    <2>1. \E shown \in {"ready", "done", "failed"} : Finish(r, shown)
      BY <1>3 DEF LocateFails, LocateOutOfRange, Cancel, CaptureFails, Answered, Unanswered,
                  RedeemRefused
    <2>2. QED
      BY <1>0, <1>1, <2>1, PageKeeps, Finishes
  <1>4. QED
    BY <1>2, <1>3

LEMMA WorldKeeps ==
  ASSUME PageInv, Render \/ Refetch \/ EditRules \/ DayMoves \/ WindowEnds \/ Walk \/ Reopen
  PROVE  PageInv'
  <1>1. CASE Refetch
    <2>1. seen' \in [rules : Rulebook, day : {"due", "in", "out"}]
      BY <1>1 DEF Refetch, PageInv, PageTypeOK
    <2>2. lit' \in BOOLEAN
      BY <1>1, RenderedIs DEF Refetch
    <2>3. QED
      BY <1>1, <2>1, <2>2 DEF Refetch, PageInv, PageTypeOK, server, fixed
  <1>2. CASE EditRules
    <2>1. edits' \in 0..Edits
      BY <1>2, CheckInAssumption DEF EditRules, PageInv, PageTypeOK
    <2>2. rules' \in Rulebook /\ run' = AllStale
          /\ UNCHANGED <<day, window, fixed, place, seen, phase, knows, lit>>
      BY <1>2 DEF EditRules
    <2>3. QED
      BY <2>1, <2>2, EverybodyStale DEF PageInv, PageTypeOK
  <1>3. CASE DayMoves
    <2>1. edits' \in 0..Edits
      BY <1>3, CheckInAssumption DEF DayMoves, PageInv, PageTypeOK
    <2>2. day' \in {"due", "in", "out"} /\ run' = AllStale
          /\ UNCHANGED <<rules, window, fixed, place, seen, phase, knows, lit>>
      BY <1>3 DEF DayMoves
    <2>3. QED
      BY <2>1, <2>2, EverybodyStale DEF PageInv, PageTypeOK
  <1>4. CASE WindowEnds
    <2>1. window' = "over" /\ run' = AllStale
          /\ UNCHANGED <<rules, day, edits, fixed, place, seen, phase, knows, lit>>
      BY <1>4 DEF WindowEnds
    <2>2. QED
      BY <2>1, EverybodyStale DEF PageInv, PageTypeOK
  <1>5. CASE Walk
    BY <1>5 DEF Walk, PageInv, PageTypeOK, server, fixed, page
  <1>6. CASE Reopen
    <2>1. lit' \in BOOLEAN
      BY <1>6 DEF Reopen, WindowActive
    <2>2. QED
      BY <1>6, <2>1 DEF Reopen, PageInv, PageTypeOK, server, fixed
  <1>7. CASE Render
    <2>1. lit' \in BOOLEAN
      BY <1>7 DEF Render, WindowActive
    <2>2. QED
      BY <1>7, <2>1 DEF Render, PageInv, PageTypeOK, server, fixed
  <1>8. QED
    BY <1>1, <1>2, <1>3, <1>4, <1>5, <1>6, <1>7

LEMMA PageStep ==
  PageInv /\ [PageNext]_pageVars => PageInv'
  <1> SUFFICES ASSUME PageInv, [PageNext]_pageVars
               PROVE  PageInv'
    OBVIOUS
  <1>1. CASE UNCHANGED pageVars
    BY <1>1 DEF pageVars, server, page, fixed, PageInv, PageTypeOK
  <1>2. ASSUME NEW r \in Runs, Tap(r) PROVE PageInv'
    BY <1>2, TapKeeps
  <1>3. ASSUME NEW r \in Runs, Locate(r) PROVE PageInv'
    BY <1>3, LocateKeeps
  <1>4. ASSUME NEW r \in Runs, Capture(r) PROVE PageInv'
    BY <1>4, CaptureKeeps
  <1>5. ASSUME NEW r \in Runs, ServerDecides(r) PROVE PageInv'
    BY <1>5, DecideKeepsPage
  <1>6. ASSUME NEW r \in Runs, OpenScanner(r) \/ Scan(r) PROVE PageInv'
    BY <1>6, ScannerKeeps
  <1>7. ASSUME NEW r \in Runs, Redeem(r) PROVE PageInv'
    BY <1>7, RedeemKeeps
  <1>8. ASSUME NEW r \in Runs, RunAfterScan(r) PROVE PageInv'
    BY <1>8, RunAfterScanKeeps
  <1>9. ASSUME NEW r \in Runs,
               \/ LocateFails(r) \/ LocateOutOfRange(r) \/ Cancel(r) \/ CaptureFails(r)
               \/ Answered(r) \/ Unanswered(r) \/ CloseScanner(r) \/ RedeemRefused(r)
        PROVE  PageInv'
    BY <1>9, EndsKeep
  <1>10. CASE Render \/ Refetch \/ EditRules \/ DayMoves \/ WindowEnds \/ Walk \/ Reopen
    BY <1>10, WorldKeeps
  <1>11. QED
    BY <1>1, <1>2, <1>3, <1>4, <1>5, <1>6, <1>7, <1>8, <1>9, <1>10 DEF PageNext

\* The page's state is well typed, and a run that nothing has overtaken knows what it
\* goes by, whatever staff, other runs and time do between two of its awaits.
THEOREM PageInductive == PageSpec => []PageInv
  <1>1. PageInit => PageInv
    <2> SUFFICES ASSUME PageInit PROVE PageInv
      OBVIOUS
    <2>1. PageTypeOK
      <3>1. 0 \in 0..Edits
        BY CheckInAssumption
      <3>2. run \in [Runs -> Run \cup {Idle}]
        BY DEF PageInit
      <3>3. knows \in BOOLEAN /\ seen \in [rules : Rulebook, day : {"due", "in", "out"}]
        BY DEF PageInit
      <3>4. QED
        BY <3>1, <3>2, <3>3 DEF PageInit, PageTypeOK
    <2>2. QED
      BY <2>1 DEF PageInit, PageInv
  <1>2. QED
    BY <1>1, PageStep, PTL DEF PageSpec

-----------------------------------------------------------------------------
(* What the server answers *)

LEMMA SentOf ==
  ASSUME PageTypeOK, NEW r \in Runs, run[r] \in Run
  PROVE  /\ Sent(r).at = run[r].at /\ Sent(r).at \in Fixes
         /\ Sent(r).accurate = TRUE /\ Sent(r).mock = FALSE /\ Sent(r).liveness = TRUE
         /\ Sent(r).face = run[r].face /\ Sent(r).face \in {"match", "none"}
         /\ Sent(r).marked = native
  BY DEF Sent, Run

\* The gates let through whom the rules entitle.
LEMMA AnswerIsEntitled ==
  ASSUME PageTypeOK, NEW r \in Runs, run[r] \in Run
  PROVE  Answer(r) = "none" <=> Entitled(Sent(r), rules)
  <1>1. PICK e : e = Sent(r)
    OBVIOUS
  <1>2. PICK s \in Settings, u \in Unit : s = rules.settings /\ u = rules.unit
    BY CheckInAssumption DEF PageTypeOK, Rules
  <1>3. PICK b : b = ResolveBypass(s, u, WindowCounts, FALSE)
    OBVIOUS
  <1>4. PICK within : within = Within(branch, e.at)
    OBVIOUS
  <1>5. within <=> Covered(branch, e.at, Far)
    BY <1>1, <1>4, SentOf, WithinIsCovered DEF PageTypeOK
  <1>6. /\ b.face = AnyOn("face", s, u)
        /\ b.location = (AnyOn("location", s, u) \/ WindowCounts \/ FALSE)
        /\ b.blocked = (s.method = "none" \/ u.block)
        /\ b.requireQr = (s.method = "qr" \/ u.requireQr)
    BY <1>3 DEF ResolveBypass
  <1>7. Answer(r) = IF ~b.face /\ (e.face = "none" \/ ~rules.enrolled) THEN "face_required"
                    ELSE CheckGates(e, s, b, rules.enrolled, within)
    BY <1>1, <1>2, <1>3, <1>4 DEF Answer, Decide
  <1>8. Answer(r) = "none"
          <=> /\ ~(~b.face /\ (e.face = "none" \/ ~rules.enrolled))
              /\ CheckGates(e, s, b, rules.enrolled, within) = "none"
    BY <1>7
  <1>9. Answer(r) = "none"
          <=> /\ ~b.blocked
              /\ ~(b.requireQr /\ ~b.location)
              /\ ~(~b.face /\ ~rules.enrolled)
              /\ ~(s.integrity /\ ~e.marked)
              /\ ~(~b.location /\ e.mock)
              /\ ~(~b.location /\ ~e.accurate)
              /\ ~(~b.location /\ ~within)
              /\ ~(~b.face /\ s.liveness /\ ~e.liveness)
              /\ ~(~b.face /\ e.face = "none")
              /\ ~(~b.face /\ e.face = "mismatch")
    BY <1>8, NoGateRefuses
  <1>10. /\ e.accurate = TRUE /\ e.mock = FALSE /\ e.liveness = TRUE
         /\ e.face = "match" \/ e.face = "none"
    BY <1>1, SentOf
  <1>11. Answer(r) = "none"
          <=> /\ s.method # "none" /\ ~u.block
              /\ s.integrity => e.marked
              /\ \/ AnyOn("location", s, u) \/ WindowCounts
                 \/ /\ s.method # "qr" /\ ~u.requireQr
                    /\ e.accurate /\ ~e.mock /\ within
              /\ \/ AnyOn("face", s, u)
                 \/ rules.enrolled /\ e.face = "match" /\ (s.liveness => e.liveness)
    BY <1>6, <1>9, <1>10
  <1>12. Entitled(e, rules)
          <=> /\ s.method # "none" /\ ~u.block
              /\ s.integrity => e.marked
              /\ \/ AnyOn("location", s, u) \/ WindowCounts
                 \/ /\ s.method # "qr" /\ ~u.requireQr
                    /\ e.accurate /\ ~e.mock /\ Covered(branch, e.at, Far)
              /\ \/ AnyOn("face", s, u)
                 \/ rules.enrolled /\ e.face = "match" /\ (s.liveness => e.liveness)
    BY <1>2 DEF Entitled, AnyOn
  <1>13. QED
    BY <1>1, <1>5, <1>11, <1>12

\* A request is decided by ServerDecides alone, and by what it finds.
LEMMA OnlyServerDecides ==
  ASSUME PageInv, [PageNext]_pageVars, NEW r \in Runs, Decides(r)
  PROVE  /\ run[r] \in Run /\ Kept(run[r], rules, day, window, knows, branch)
         /\ run[r].pc = "submitting"
         /\ run'[r].ok = (Answer(r) = "none" /\ SlotTakes(r))
  <1>0. /\ run[r] \in Run /\ run[r] # Idle /\ run[r].pc = "submitting"
        /\ Kept(run[r], rules, day, window, knows, branch)
        /\ run'[r] # Idle /\ run'[r].pc = "decided"
    BY RunOf DEF Decides
  <1>1. ASSUME run'[r] = run[r] \/ run'[r] = Idle \/ run'[r] = [run[r] EXCEPT !.fresh = FALSE]
        PROVE  FALSE
    BY <1>0, <1>1, KeptWhenStale
  <1>2. ASSUME NEW job \in Run, NEW pc \in {"locating", "capturing", "submitting", "redeeming", "opened"},
               run'[r] = [job EXCEPT !.pc = pc]
        PROVE  FALSE
    BY <1>0, <1>2 DEF Run
  <1>3. ASSUME NEW q \in Runs, q # r, NEW j, run' = [run EXCEPT ![q] = j]
        PROVE  FALSE
    BY <1>1, <1>3 DEF PageInv, PageTypeOK
  <1>4. ASSUME NEW q \in Runs, NEW shown, Finish(q, shown)
        PROVE  FALSE
    BY <1>1, <1>4 DEF Finish, PageInv, PageTypeOK
  <1>5. ASSUME run' = AllStale
        PROVE  FALSE
    BY <1>0, <1>1, <1>5 DEF AllStale
  <1>6. ASSUME NEW q \in Runs, q # r, ServerDecides(q)
        PROVE  FALSE
    <2>1. PICK ok, j : run' = [(IF ok THEN Stale(q) ELSE run) EXCEPT ![q] = j]
      BY <1>6 DEF ServerDecides
    <2>2. run'[r] = run[r] \/ run'[r] = [run[r] EXCEPT !.fresh = FALSE]
      BY <2>1, <1>6, <1>0 DEF Stale, PageInv, PageTypeOK
    <2>3. QED
      BY <2>2, <1>1
  <1>7. CASE ServerDecides(r)
    <2>1. PICK ok \in BOOLEAN : ok = (Answer(r) = "none" /\ SlotTakes(r))
      OBVIOUS
    <2>2. run' = [(IF ok THEN Stale(r) ELSE run)
                     EXCEPT ![r] = [@ EXCEPT !.pc = "decided", !.ok = ok]]
      BY <1>7, <2>1 DEF ServerDecides
    <2>3. run'[r] = [run[r] EXCEPT !.pc = "decided", !.ok = ok]
      BY <2>2 DEF Stale, PageInv, PageTypeOK
    <2>4. run'[r].ok = ok
      BY <1>0, <2>3 DEF Run
    <2>5. QED
      BY <1>0, <2>1, <2>4
  <1>8. CASE UNCHANGED run
    BY <1>1, <1>8
  <1>9. ASSUME NEW q \in Runs, Tap(q) \/ OpenScanner(q), q = r
        PROVE  FALSE
    BY <1>0, <1>9 DEF Tap, OpenScanner
  <1>10. ASSUME NEW q \in Runs,
                \/ LocateFails(q) \/ LocateOutOfRange(q) \/ Cancel(q) \/ CaptureFails(q)
                \/ Answered(q) \/ Unanswered(q) \/ RedeemRefused(q)
         PROVE  FALSE
    BY <1>4, <1>10 DEF LocateFails, LocateOutOfRange, Cancel, CaptureFails, Answered,
                       Unanswered, RedeemRefused
  <1>11. ASSUME NEW q \in Runs, NEW job \in Run, Onward(q, job)
         PROVE  FALSE
    <2>1. PICK pc \in {"submitting", "capturing"} : run' = [run EXCEPT ![q] = [job EXCEPT !.pc = pc]]
      BY <1>11 DEF Onward
    <2>2. CASE q = r
      <3>1. run'[r] = [job EXCEPT !.pc = pc]
        BY <2>1, <2>2 DEF PageInv, PageTypeOK
      <3>2. QED
        BY <3>1, <1>2
    <2>3. QED
      BY <2>1, <2>2, <1>3
  <1>12. ASSUME NEW q \in Runs, NEW job \in Run, Start(q, job)
         PROVE  FALSE
    <2>1. CASE Finish(q, "failed") \/ Onward(q, job)
      BY <2>1, <1>4, <1>11
    <2>2. CASE run' = [run EXCEPT ![q] = [job EXCEPT !.pc = "locating"]]
      <3>1. CASE q = r
        <4>1. run'[r] = [job EXCEPT !.pc = "locating"]
          BY <2>2, <3>1 DEF PageInv, PageTypeOK
        <4>2. QED
          BY <4>1, <1>2
      <3>2. QED
        BY <2>2, <3>1, <1>3
    <2>3. QED
      BY <1>12, <2>1, <2>2 DEF Start
  <1>13. ASSUME NEW q \in Runs, Tap(q)
         PROVE  FALSE
    <2>1. PICK job \in Run : job = Snapshot("locating")
      BY <1>13, SnapshotReady DEF Tap, TapEnabled
    <2>2. QED
      BY <2>1, <1>12, <1>13 DEF Tap
  <1>14. ASSUME NEW q \in Runs, Locate(q)
         PROVE  FALSE
    <2>1. run[q] \in Run
      BY <1>14, RunOf DEF Locate
    <2>2. PICK job : job = [run[q] EXCEPT !.at = place]
      OBVIOUS
    <2>3. job \in Run
      BY <2>1, <2>2 DEF Run, PageInv, PageTypeOK, Fixes
    <2>4. QED
      BY <2>2, <2>3, <1>11, <1>14 DEF Locate
  <1>15. ASSUME NEW q \in Runs,
                Capture(q) \/ Scan(q) \/ (Redeem(q) /\ run' = [run EXCEPT ![q].pc = "opened"])
         PROVE  FALSE
    <2>1. PICK job \in Run : job = run[q]
      BY <1>15, RunOf DEF Capture, Scan, Redeem
    <2>2. CASE q = r
      <3>1. \/ run'[r] = [[job EXCEPT !.face = "match"] EXCEPT !.pc = "submitting"]
            \/ run'[r] = [job EXCEPT !.pc = "redeeming"]
            \/ run'[r] = [job EXCEPT !.pc = "opened"]
        <4>1. CASE Capture(q)
          <5>1. run'[r] = [run[r] EXCEPT !.pc = "submitting", !.face = "match"]
            BY <4>1, <2>2 DEF Capture, PageInv, PageTypeOK
          <5>2. [job EXCEPT !.pc = "submitting", !.face = "match"]
                  = [[job EXCEPT !.face = "match"] EXCEPT !.pc = "submitting"]
            BY DEF Run
          <5>3. QED
            BY <5>1, <5>2, <2>1, <2>2
        <4>2. CASE Scan(q)
          BY <4>2, <2>1, <2>2 DEF Scan, PageInv, PageTypeOK
        <4>3. CASE run' = [run EXCEPT ![q].pc = "opened"]
          BY <4>3, <2>1, <2>2 DEF PageInv, PageTypeOK
        <4>4. QED
          BY <1>15, <4>1, <4>2, <4>3
      <3>2. [job EXCEPT !.face = "match"] \in Run
        BY DEF Run
      <3>3. QED
        BY <3>1, <3>2, <1>2
    <2>3. CASE q # r
      BY <2>3, <1>3, <1>15 DEF Capture, Scan
    <2>4. QED
      BY <2>2, <2>3
  <1>16. ASSUME NEW q \in Runs, Redeem(q)
         PROVE  FALSE
    BY <1>16, <1>15, <1>4 DEF Redeem
  <1>17. ASSUME NEW q \in Runs, OpenScanner(q) \/ CloseScanner(q)
         PROVE  FALSE
    <2>1. PICK j : run' = [run EXCEPT ![q] = j]
      BY <1>17 DEF OpenScanner, CloseScanner
    <2>2. CASE q = r
      BY <2>2, <1>17, <1>9, <1>1 DEF CloseScanner, PageInv, PageTypeOK
    <2>3. QED
      BY <2>1, <2>2, <1>3
  <1>18. ASSUME NEW q \in Runs, RunAfterScan(q)
         PROVE  FALSE
    BY <1>18, <1>12, RunOf DEF RunAfterScan
  <1>19. CASE Render \/ Refetch \/ EditRules \/ DayMoves \/ WindowEnds \/ Walk \/ Reopen
    <2>1. run' = run \/ run' = AllStale \/ run'[r] = Idle
      BY <1>19 DEF Render, Refetch, EditRules, DayMoves, WindowEnds, Walk, Reopen, page
    <2>2. QED
      BY <2>1, <1>1, <1>5
  <1>20. CASE UNCHANGED pageVars
    BY <1>20, <1>8 DEF pageVars, page
  <1>21. QED
    BY <1>6, <1>7, <1>10, <1>13, <1>14, <1>15, <1>16, <1>17, <1>18, <1>19, <1>20 DEF PageNext

-----------------------------------------------------------------------------
(* The two promises of a check-in *)

\* Whatever the page was working from, the server lets in exactly who is entitled by the
\* rules in force when it decides, for every branch, ring and position on the grid.
THEOREM LetInExactlyAsEntitled == PageSpec => LetInAsEntitled
  <1>1. PageInv /\ [PageNext]_pageVars
          => \A r \in Runs : Decides(r) =>
               (run'[r].ok <=> Entitled(Sent(r), rules) /\ SlotTakes(r))
    <2> SUFFICES ASSUME PageInv, [PageNext]_pageVars, NEW r \in Runs, Decides(r)
                 PROVE  run'[r].ok <=> Entitled(Sent(r), rules) /\ SlotTakes(r)
      OBVIOUS
    <2>1. run[r] \in Run /\ run'[r].ok = (Answer(r) = "none" /\ SlotTakes(r))
      BY OnlyServerDecides
    <2>2. Answer(r) = "none" <=> Entitled(Sent(r), rules)
      BY <2>1, AnswerIsEntitled DEF PageInv
    <2>3. QED
      BY <2>1, <2>2
  <1>2. QED
    BY <1>1, PageInductive, PTL DEF PageSpec, LetInAsEntitled

\* A fix the page found in a circle, and not near its edge, is in it for the server.
LEMMA NotNearTheEdge ==
  ASSUME PageTypeOK, NEW p \in Fixes, FoundIn(p), ~NearEdge(p)
  PROVE  InCircle(branch, p)
  <1>1. NoFurther(branch, p, branch.radius - Slack)
    BY DEF NearEdge, FoundOut
  <1>2. branch.radius \in Int /\ Slack \in Nat
    BY CheckInAssumption DEF PageTypeOK, Shape
  <1>3. PICK r \in Int, d \in Int : r = branch.radius /\ d = branch.radius - Slack
    BY <1>2
  <1>4. 0 <= d /\ d <= r
    BY <1>1, <1>2, <1>3 DEF NoFurther
  <1>5. d * d <= r * d /\ r * d <= r * r
    BY <1>4
  <1>6. X(p) \in Int /\ Y(p) \in Int /\ X(branch.at) \in Int /\ Y(branch.at) \in Int
    BY CheckInAssumption DEF PageTypeOK, Shape, X, Y
  <1>7. PICK q \in Int :
          q = (X(p) - X(branch.at)) * (X(p) - X(branch.at)) + (Y(p) - Y(branch.at)) * (Y(p) - Y(branch.at))
    BY <1>6
  <1>8. q <= d * d
    BY <1>1, <1>3, <1>7 DEF NoFurther
  <1>9. q <= r * r
    <2>1. \A a, b, c, e \in Int : a <= b /\ b <= c /\ c <= e => a <= e
      OBVIOUS
    <2>2. d * d \in Int /\ r * d \in Int /\ r * r \in Int
      OBVIOUS
    <2>3. QED
      BY <1>5, <1>8, <2>1, <2>2
  <1>10. QED
    BY <1>3, <1>4, <1>7, <1>9 DEF InCircle, NoFurther

\* The page mirrors the server: a request made from copies that are still true, rendered
\* since the last window ended, is let in, but for a fix near the edge of the circle.
THEOREM FreshPagesAreLetIn == PageSpec => FreshPageIsNotRefused
  <1>1. PageInv /\ [PageNext]_pageVars
          => \A r \in Runs : Decides(r) /\ run[r].fresh /\ pinned = "no"
               /\ ~HasRing(branch) /\ ~NearEdge(run[r].at)
               /\ (rules.settings.integrity => native) => run'[r].ok
    <2> SUFFICES ASSUME PageInv, [PageNext]_pageVars, NEW r \in Runs, Decides(r),
                        run[r].fresh, pinned = "no", ~HasRing(branch),
                        ~NearEdge(run[r].at),
                        rules.settings.integrity => native
                 PROVE  run'[r].ok
      OBVIOUS
    <2>1. /\ run[r] \in Run /\ Kept(run[r], rules, day, window, knows, branch)
          /\ run[r].pc = "submitting"
          /\ run'[r].ok = (Answer(r) = "none" /\ SlotTakes(r))
      BY OnlyServerDecides
    <2>2. /\ ~PageBypass(rules, FALSE).blocked /\ rules.enrolled
          /\ day # "out" /\ run[r].type = TypeOf[day]
          /\ PageBypass(rules, FALSE).requireQr => window = "open"
          /\ \/ AnyOn("location", rules.settings, rules.unit) \/ window = "open"
             \/ InCircle(branch, run[r].at)
          /\ AnyOn("face", rules.settings, rules.unit) \/ run[r].face = "match"
      <3>1. run[r].at \in Fixes
        BY <2>1 DEF Run
      <3>2. FoundIn(run[r].at) => InCircle(branch, run[r].at)
        BY <3>1, NotNearTheEdge DEF PageInv
      <3>3. QED
        BY <2>1, <3>2 DEF Kept, FoundIn
    <2>3. SlotTakes(r)
      BY <2>2 DEF SlotTakes
    <2>4. /\ PageBypass(rules, FALSE).blocked = (rules.settings.method = "none" \/ rules.unit.block)
          /\ PageBypass(rules, FALSE).requireQr
               = (rules.settings.method = "qr" \/ rules.unit.requireQr)
      BY DEF PageBypass, ResolveBypass
    <2>5. WindowCounts <=> window = "open"
      BY DEF WindowCounts
    <2>6. InCircle(branch, run[r].at) => Covered(branch, Sent(r).at, Far)
      BY <2>1, SentOf DEF Covered, PageInv
    <2>7. Entitled(Sent(r), rules)
      <3>1. /\ Sent(r).accurate = TRUE /\ Sent(r).mock = FALSE /\ Sent(r).liveness = TRUE
            /\ Sent(r).face = run[r].face /\ Sent(r).marked = native
        BY <2>1, SentOf DEF PageInv
      <3>2. /\ rules.settings.method # "none" /\ ~rules.unit.block
            /\ rules.settings.integrity => Sent(r).marked
            /\ \/ AnyOn("location", rules.settings, rules.unit) \/ WindowCounts
               \/ /\ rules.settings.method # "qr" /\ ~rules.unit.requireQr
                  /\ Covered(branch, Sent(r).at, Far)
            /\ AnyOn("face", rules.settings, rules.unit) \/ Sent(r).face = "match"
        BY <2>2, <2>4, <2>5, <2>6, <3>1
      <3>3. QED
        BY <2>2, <3>1, <3>2 DEF Entitled, AnyOn
    <2>8. Answer(r) = "none"
      BY <2>1, <2>7, AnswerIsEntitled DEF PageInv
    <2>9. QED
      BY <2>1, <2>3, <2>8
  <1>2. QED
    BY <1>1, PageInductive, PTL DEF PageSpec, FreshPageIsNotRefused

=============================================================================
