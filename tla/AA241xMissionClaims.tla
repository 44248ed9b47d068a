------------------------ MODULE AA241xMissionClaims ------------------------
(***************************************************************************)
(* What the comments of aa241x_mission and of its status message say of    *)
(* the referee, where its code does something else.                        *)
(***************************************************************************)
EXTENDS AA241xMission

\* "Reset turn if dropped out of mission": a race begins with no turn flown.
RaceBeginsWithNoTurn ==
    [][(~m.in_mission /\ m'.in_mission) => m'.turn_num = 0]_vars
=============================================================================
