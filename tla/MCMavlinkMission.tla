--------------------------- MODULE MCMavlinkMission ---------------------------
(***************************************************************************)
(* Two MAVLink instances: m1 on the link of a ground station, m2 on a link *)
(* on which nobody speaks, or both on links of ground stations.            *)
(***************************************************************************)
EXTENDS MavlinkMissionClaims, TLC

CONSTANTS m1, m2, gcs

TwoManagers == {m1, m2}
OneLink == m1 :> {gcs} @@ m2 :> {}
TwoLinks == m1 :> {gcs} @@ m2 :> {gcs}
=============================================================================
