-------------------------- MODULE MCGroundStation --------------------------
(***************************************************************************)
(* GroundStation with five packets of two devices, one too short for the   *)
(* decoder and one flagged as no position, a table of one record, and a    *)
(* chip whose buffer wraps after two packets.                              *)
(***************************************************************************)
EXTENDS GroundStation, TLC

CONSTANTS o1, o2

MCSender == 0 :> o1 @@ 1 :> o1 @@ 2 :> o2 @@ 3 :> o2 @@ 4 :> o1 @@ 5 :> o2
=============================================================================
