----------------------------- MODULE MCVarRate -----------------------------
(***************************************************************************)
(* VarRate with the codec of the speed, and every value up to a little     *)
(* beyond the largest that it can say.                                     *)
(***************************************************************************)
EXTENDS VarRate

UR2V8 == [thres |-> 256, signed |-> FALSE]

MCCodecs == {UR2V8}
=============================================================================
