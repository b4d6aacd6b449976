----------------------------- MODULE MCRecorder -----------------------------
(***************************************************************************)
(* The instance of Recorder for TLC.                                       *)
(***************************************************************************)
EXTENDS Recorder
=============================================================================
