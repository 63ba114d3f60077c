--------------------------- MODULE MCMultiDecoder ---------------------------
(***************************************************************************)
(* MultiDecoder with tables smaller than the number of devices, and the    *)
(* lengths just below and at those the decoder asks for.                   *)
(***************************************************************************)
EXTENDS MultiDecoder
=============================================================================
