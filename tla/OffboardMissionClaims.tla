----------------------- MODULE OffboardMissionClaims -----------------------
(***************************************************************************)
(* What a comment of mission.cpp says of the navigator and the code does   *)
(* not do.                                                                 *)
(***************************************************************************)
EXTENDS OffboardMission

\* mission.cpp:1209 "navigator may modify only sequence, write modified state
\* only if it changed": the state save_offboard_mission_state() writes has
\* the navigator's index as its sequence.
SavesSequence == writing = "save" => held.current_seq = current_index
=============================================================================
