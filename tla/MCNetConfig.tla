---------------------------- MODULE MCNetConfig ----------------------------
(***************************************************************************)
(* NetConfig with a buffer of five bytes, in which a first piece of three  *)
(* or more makes the handler receive again, bodies that fit it, fill it or *)
(* are too long for it, with objects that end before they do or with them, *)
(* and three pairs of credentials, one of which does not fit its fields.   *)
(***************************************************************************)
EXTENDS NetConfig
=============================================================================
