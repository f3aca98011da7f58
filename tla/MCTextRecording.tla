-------------------------- MODULE MCTextRecording --------------------------
(***************************************************************************)
(* Instances of TextRecording for TLC.                                     *)
(***************************************************************************)
EXTENDS TextRecordingProperties
=============================================================================
