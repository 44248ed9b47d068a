---------------------------- MODULE RaceGeometry ----------------------------
(***************************************************************************)
(* The geometry the race referee (modules/aa241x_mission) decides with:    *)
(* which side of a line the aircraft is on, whether it has left Lake Lag,  *)
(* whether it is in the start gate, and the difference of two bearings.    *)
(*                                                                         *)
(* Positions are records of whole metres, land positions [N, E] and        *)
(* aircraft positions [N, E, D]; bearings are whole multiples of the angle *)
(* Deg60 divides 60 degrees into.  Both replace C++ floats.                *)
(***************************************************************************)
EXTENDS Integers

CONSTANT Deg60          \* 60 degrees, in units of the angular resolution

ASSUME Deg60Assumption == Deg60 \in Nat \ {0}

\* `pi' of AA241xMission.h in these units.
Pi == 3 * Deg60

-----------------------------------------------------------------------------
\* sgnf(): the sign of val as -1, 0 or 1.
SgnF(val) == IF val > 0 THEN 1 ELSE IF val < 0 THEN -1 ELSE 0

\* line_side(): 1 when c is left of the line from a to b, -1 when right of it.
LineSide(a, b, c) ==
    SgnF((b.E - a.E) * (c.N - a.N) - (b.N - a.N) * (c.E - a.E))

\* angular_difference(): theta1 - theta0, wrapped once at +/- pi.
AngularDifference(theta1, theta0) ==
    LET deltaTheta == theta1 - theta0
    IN  CASE deltaTheta > Pi  -> deltaTheta - 2 * Pi
          [] deltaTheta < -Pi -> deltaTheta + 2 * Pi
          [] OTHER            -> deltaTheta

-----------------------------------------------------------------------------
\* The vertices of the field, clockwise, as check_field_bounds() lists them.
LakeBoundaries ==
    [i \in 0..8 |->
        CASE i = 0 -> [E |-> -173, N |->  143]
          [] i = 1 -> [E |->  -82, N |->  228]
          [] i = 2 -> [E |->  176, N |->   81]
          [] i = 3 -> [E |->  181, N |-> -138]
          [] i = 4 -> [E |->   54, N |-> -148]
          [] i = 5 -> [E |->   62, N |-> -219]
          [] i = 6 -> [E |->  -36, N |-> -216]
          [] i = 7 -> [E |-> -101, N |-> -142]
          [] i = 8 -> [E |-> -181, N |-> -112]]

\* Edges whose left side is outside, and the two inward corners, which are
\* outside only when the aircraft is left of both edges that meet there.
Convex == {0, 1, 2, 5, 8}
Concave == {3, 6}

LeftOfEdge(i, pos) ==
    LineSide(LakeBoundaries[i], LakeBoundaries[(i + 1) % 9], pos) > 0

\* The position test of check_field_bounds(), without its mission condition.
OffLake(pos) ==
    \/ \E i \in Convex : LeftOfEdge(i, pos)
    \/ \E i \in Concave : LeftOfEdge(i, pos) /\ LeftOfEdge(i + 1, pos)

-----------------------------------------------------------------------------
\* The start gate is the open-ended box gate[0]..gate[3]: check_start() and
\* check_finished() ask whether the aircraft is in it, or past its front line.
InGate(gate, pos) ==
    /\ LineSide(gate[0], gate[1], pos) > 0
    /\ LineSide(gate[1], gate[2], pos) > 0
    /\ LineSide(gate[2], gate[3], pos) > 0

PastGate(gate, pos) == LineSide(gate[1], gate[2], pos) < 0
=============================================================================
