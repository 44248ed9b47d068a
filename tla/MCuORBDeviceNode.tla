-------------------------- MODULE MCuORBDeviceNode --------------------------
(***************************************************************************)
(* A small uORB topic: two publishers that preempt each other, a           *)
(* subscriber that sets and clears its rate and one that takes every       *)
(* message.                                                                *)
(***************************************************************************)
EXTENDS uORBDeviceNode, TLC

CONSTANTS p1, p2, s1, s2

MixedRates == s1 :> {0, 20} @@ s2 :> {}
=============================================================================
