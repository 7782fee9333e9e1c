------------------------------- MODULE SlotLife -------------------------------
(***************************************************************************)
(* What a rostered slot may become: it waits, it is an absence, or someone *)
(* arrived, is inside, and left one way.  Nothing is ever taken back: an   *)
(* absence is final, so is the way someone arrived or left.                *)
(***************************************************************************)
CONSTANT Slots

VARIABLE life

Arrivals == {"present", "late"}
Departures == {"out", "early", "left"}

Moves ==
  {<<<<"upcoming">>, <<"absent">>>>}
    \cup {<<<<"upcoming">>, <<a, "open">>>> : a \in Arrivals}
    \cup {<<<<a, "open">>, <<a, d>>>> : a \in Arrivals, d \in Departures}

Init == life \in [Slots -> {<<"off">>, <<"upcoming">>}]

\* An hour may pass for several slots at once, and a job close several rows.
Next == \A s \in Slots : life'[s] = life[s] \/ <<life[s], life'[s]>> \in Moves

Spec == Init /\ [][Next]_life
=============================================================================
