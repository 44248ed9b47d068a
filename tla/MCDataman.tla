------------------------------ MODULE MCDataman ------------------------------
(***************************************************************************)
(* Two items of one kind, and data of the level for which it depends on    *)
(* the reason whether it outlives a reset.                                 *)
(***************************************************************************)
EXTENDS Dataman, TLC

MCKeys == <<<<0, 0>>, <<0, 1>>>>
MCData == [value : {"v"}, persistence : {1}]
=============================================================================
