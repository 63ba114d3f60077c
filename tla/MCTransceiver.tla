--------------------------- MODULE MCTransceiver ---------------------------
(***************************************************************************)
(* Transceiver with two calls of LoRaSend, the second of which may be      *)
(* refused or follow the first, and two attempts at a command.             *)
(***************************************************************************)
EXTENDS Transceiver
=============================================================================
