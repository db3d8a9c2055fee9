----------------------------- MODULE MCRecorder -----------------------------
(* Model checking Recorder: deques that grow from 2 to 3 and wrap. *)
EXTENDS Recorder

MCNoPts == -1000
=============================================================================
