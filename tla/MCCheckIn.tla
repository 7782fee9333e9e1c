------------------------------- MODULE MCCheckIn -------------------------------
(***************************************************************************)
(* CheckIn for TLC: a round branch and one with an area that has a bay,    *)
(* and rules that differ in every answer of the gates.                     *)
(***************************************************************************)
EXTENDS CheckIn, TLC

Both == [method |-> "both", off |-> {}, liveness |-> TRUE, integrity |-> FALSE]
Plain == [off |-> [l \in Level \ {"global"} |-> {}], block |-> FALSE, requireQr |-> FALSE,
          qrEnabled |-> TRUE]

SomeRules == {
  [settings |-> Both, unit |-> Plain, enrolled |-> TRUE],
  [settings |-> [Both EXCEPT !.method = "qr", !.integrity = TRUE], unit |-> Plain, enrolled |-> TRUE],
  [settings |-> Both,
   unit |-> [Plain EXCEPT !.off["member"] = {"face"}, !.off["group"] = {"location"}], enrolled |-> FALSE],
  [settings |-> Both, unit |-> [Plain EXCEPT !.block = TRUE], enrolled |-> TRUE] }

Round == [at |-> <<2, 2>>, radius |-> 2, area |-> <<>>]
Bay == [Round EXCEPT !.area = <<<<0, 0>>, <<6, 0>>, <<5, 2>>, <<6, 4>>, <<3, 2>>, <<0, 4>>>>]
SomeBranches == {Round, Bay}

\* In both, and level with two corners; in the bay, and near the edge of the circle; on the
\* edge of the area, and near the edge of the circle and not in it; outside both.
SomePositions == {<<2, 2>>, <<3, 3>>, <<5, 2>>, <<2, 7>>}

Nowhere == <<40, 40>>
\* Bound: with two runs under way it is the installed app, on the real clock, and the round branch.
Focus == (\A r \in Runs : run[r] # Idle) => native /\ pinned = "no" /\ ~HasRing(branch)

Interchangeable == Permutations(Runs)
=============================================================================
