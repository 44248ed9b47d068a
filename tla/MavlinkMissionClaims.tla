------------------------- MODULE MavlinkMissionClaims -------------------------
(***************************************************************************)
(* What the comments of MavlinkMissionManager say of transfers, where its  *)
(* code does something else.                                               *)
(***************************************************************************)
EXTENDS MavlinkMission

\* "use inactive storage for transmission": no manager writes over the items of
\* the mission that the navigator flies, whatever goes on over other links.
UploadsSpareActiveItems ==
    \A m \in Managers :
        Uploading(m) /\ count > 0 => transfer_dataman_id[m] # dataman_id
=============================================================================
