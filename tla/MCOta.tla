------------------------------- MODULE MCOta -------------------------------
(***************************************************************************)
(* Ota with the delivered image and one update, request bodies of two      *)
(* pieces (the first of which erases the partition), and one leaked handle.*)
(***************************************************************************)
EXTENDS Ota
=============================================================================
