------------------------------- MODULE Geofence -------------------------------
(***************************************************************************)
(* Is a fix inside a branch?  The plane of geofence.ts after its           *)
(* projection, on a grid: a point is a pair of integers, a branch is a     *)
(* circle, and an area drawn on the map, a ring of at least three corners, *)
(* takes the circle's place.                                               *)
(***************************************************************************)
EXTENDS Integers, Sequences, FiniteSets

X(p) == p[1]
Y(p) == p[2]

\* Twice the signed area of the triangle a, b, p: on which side of a-b p lies.
Side(a, b, p) == (X(b) - X(a)) * (Y(p) - Y(a)) - (Y(b) - Y(a)) * (X(p) - X(a))

\* The edge to corner i of a ring comes from the one before, the first's from the last.
Before(ring, i) == ring[IF i = 1 THEN Len(ring) ELSE i - 1]

\* The distance to the segment is nothing: on its line, and between its ends.
OnSegment(p, a, b) ==
  /\ Side(a, b, p) = 0
  /\ (X(p) - X(a)) * (X(p) - X(b)) <= 0
  /\ (Y(p) - Y(a)) * (Y(p) - Y(b)) <= 0

OnBoundary(p, ring) == \E i \in 1..Len(ring) : OnSegment(p, Before(ring, i), ring[i])

\* Mutant: both ends of an edge count, so a corner is met twice.
CrossesClosed(p, a, b) ==
  /\ (Y(a) >= Y(p) /\ Y(b) <= Y(p)) \/ (Y(b) >= Y(p) /\ Y(a) <= Y(p))
  /\ IF Y(b) > Y(a) THEN Side(a, b, p) > 0 ELSE Side(a, b, p) < 0

\* The ray going east from p meets the edge a-b, of whose ends the lower one counts.
Crosses(p, a, b) ==
  /\ (Y(a) > Y(p)) # (Y(b) > Y(p))
  /\ IF Y(b) > Y(a) THEN Side(a, b, p) > 0 ELSE Side(a, b, p) < 0

InsideRing(p, ring) ==
  Cardinality({i \in 1..Len(ring) : Crosses(p, Before(ring, i), ring[i])}) % 2 = 1

\* readRing: fewer than three corners is how a circle is stored.
HasRing(branch) == Len(branch.area) >= 3

\* No further than d from the centre.
NoFurther(branch, p, d) ==
  /\ d >= 0
  /\ (X(p) - X(branch.at)) * (X(p) - X(branch.at)) + (Y(p) - Y(branch.at)) * (Y(p) - Y(branch.at))
       <= d * d

InCircle(branch, p) == NoFurther(branch, p, branch.radius)

\* evaluateGeofence(...).within
Within(branch, p) ==
  IF HasRing(branch) THEN OnBoundary(p, branch.area) \/ InsideRing(p, branch.area)
  ELSE InCircle(branch, p)

-----------------------------------------------------------------------------
(* What it ought to mean *)

\* A ray so flat that it misses every corner of a ring no wider than Far, and so has
\* no corner cases, meets the edge a-b.
FlatRayMeets(p, a, b, Far) ==
  LET q == <<X(p) + Far, Y(p) + 1>>
  IN /\ (Side(p, q, a) > 0) # (Side(p, q, b) > 0)
     /\ Side(a, b, p) # 0
     /\ (Side(a, b, p) > 0) # (Side(a, b, <<X(p) + Far * Far, Y(p) + Far>>) > 0)

\* Covered by the area: on its edge, or cut off from far away by an odd number of edges.
Covered(branch, p, Far) ==
  IF HasRing(branch)
  THEN \/ OnBoundary(p, branch.area)
       \/ Cardinality({i \in 1..Len(branch.area) :
                         FlatRayMeets(p, Before(branch.area, i), branch.area[i], Far)}) % 2 = 1
  ELSE InCircle(branch, p)

=============================================================================
