----------------------------- MODULE MCStartup -----------------------------
(***************************************************************************)
(* Startup with the priorities of the firmware, three handlers, names of   *)
(* up to three characters and one restart.                                 *)
(***************************************************************************)
EXTENDS Startup
=============================================================================
