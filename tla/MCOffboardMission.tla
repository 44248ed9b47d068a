------------------------- MODULE MCOffboardMission -------------------------
(***************************************************************************)
(* A mission that lands and then jumps far past its end, and one that      *)
(* jumps to itself until the navigator gives up.                           *)
(***************************************************************************)
EXTENDS OffboardMissionClaims

Land == [Waypoint EXCEPT !.nav_cmd = "land"]
Jump(to, repeat) == [Waypoint EXCEPT !.nav_cmd = "jump",
                                     !.do_jump_mission_index = to,
                                     !.do_jump_repeat_count = repeat]
MCMissions == {<<Land, Jump(7, 1)>>, <<Jump(0, 1)>>}
MCCurrents == {-1, 1}
=============================================================================
