----------------------------- MODULE MCAttendance -----------------------------
(***************************************************************************)
(* Small instances of Attendance for TLC: which slots are in play, and     *)
(* which handlers run beside each other.                                   *)
(***************************************************************************)
EXTENDS Reports, TLC

CONSTANTS m1, morning, night, loose1, loose2

Slot(m, d, sh) == [member |-> m, day |-> d, shift |-> sh]

\* One member with a slot on each of two days.
TwoDays == {Slot(m1, 1, night), Slot(m1, 2, morning)}

\* One member, two shifts on one day.
OneDay == {Slot(m1, 1, night), Slot(m1, 1, morning)}

\* One rostered slot, and room for two rows without a shift.
WithLoose == {Slot(m1, 1, morning), Slot(m1, 1, loose1), Slot(m1, 1, loose2)}

\* A single slot.
OneSlot == {Slot(m1, 1, morning)}

Interchangeable == Permutations(Txns) \cup Permutations({morning, night})

-----------------------------------------------------------------------------
(* Requests that nothing overlapped.                                       *)

\* The transactions under way that were alone from their first statement.
VARIABLE alone

Idle(t) == pc[t] = "idle"

InitAlone == Init /\ alone = {}

NextAlone ==
  /\ Next
  /\ alone' = {t \in Txns : /\ ~Idle(t)'
                           /\ (Idle(t) \/ t \in alone)
                           /\ \A u \in Txns \ {t} : Idle(u) /\ Idle(u)'}

SpecAlone == InitAlone /\ [][NextAlone]_<<vars, alone>>

\* The answer is dropped: no property reads the one an earlier step sent.
Seen == <<att, roster, pc, op, ids, buf, radd, rdel, log, poisoned, alone>>

Orphans == {s \in Slots : Exists(s) /\ s \notin roster}

\* Deleting a roster day takes its attendance with it: a request that nothing
\* overlaps leaves attendance without a roster day only when it is the admin's
\* manual edit, which may write off the roster.
OrphansAreByHand ==
  [][(\E t \in alone : Idle(t)') /\ ~(Orphans' \subseteq Orphans)
        => Answers("manual_set")]_<<vars, alone>>
=============================================================================
