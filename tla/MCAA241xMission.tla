-------------------------- MODULE MCAA241xMission --------------------------
(***************************************************************************)
(* The race course of the default parameters, with the tilt at -30 degrees *)
(* and whole metres, at an angular resolution of 60 degrees.               *)
(***************************************************************************)
EXTENDS AA241xMissionClaims, TLC

Land(e, n) == [E |-> e, N |-> n]
At(e, n, alt) == [E |-> e, N |-> n, D |-> -alt]

MCGate == 0 :> Land(-123, 146) @@ 1 :> Land(-118, 138)
            @@ 2 :> Land(-74, 163) @@ 3 :> Land(-79, 171)

\* Pylon -1 is the last word of _lake_boundaries and the two of _start_pylon:
\* its E is AAMIS_SPOS_N and its angle AAMIS_SPOS_E (-96 rad), N is arbitrary.
CourseWith(phantomAngle) ==
    -1 :> [E |-> 150, N |-> 0, angle |-> phantomAngle]
      @@ 0 :> [E |-> 115, N |-> 28, angle |-> 1]
      @@ 1 :> [E |-> -96, N |-> -94, angle |-> -1]
MCPylon == CourseWith(-92)

MCOrigin == At(0, 0, 0)

\* Position and the bearings from pylons -1, 0 and 1, in multiples of 60
\* degrees: on the ground, in the gate, three points past it that go clockwise
\* around both pylons, one in the keep-out of pylon 0, one off the lake.
Bearings(b, b0, b1) == -1 :> b @@ 0 :> b0 @@ 1 :> b1
AllBearings ==
       At(0, 0, 0)        :> Bearings(3, -3, 1)
    @@ At(-100, 160, 50)  :> Bearings(2, 2, 2)
    @@ At(140, 80, 50)    :> Bearings(2, 1, 1)
    @@ At(150, -120, 50)  :> Bearings(-2, -1, 0)
    @@ At(-116, -129, 50) :> Bearings(-3, -2, -2)
    @@ At(115, 29, 50)    :> Bearings(2, 2, 1)
    @@ At(250, 0, 50)     :> Bearings(0, 0, 0)
MCBearing == [pos \in Positions |-> AllBearings[pos]]

AllPositions == DOMAIN AllBearings
\* Without the keep-out.
CoursePositions == AllPositions \ {At(115, 29, 50)}

Par(fail, force, restart) ==
    [min_alt |-> 40, max_alt |-> 60, keepout_radius |-> 5,
     mis_fail |-> fail, force_start |-> force, mission_restart |-> restart]
RefereeParams == {Par(1, 0, 0), Par(1, 0, 1), Par(0, 1, 0)}
RaceParams == {Par(1, 0, 0)}
=============================================================================
