---------------------------- MODULE MCCallModel ----------------------------
(***************************************************************************)
(* Instances of CallModel for TLC.                                         *)
(***************************************************************************)
EXTENDS CallModelProperties
=============================================================================
