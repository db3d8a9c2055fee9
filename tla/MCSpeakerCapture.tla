-------------------------- MODULE MCSpeakerCapture --------------------------
(* A small instance of SpeakerCapture: a queue of two frames and enough    *)
(* frames to overflow it several times.                                    *)
EXTENDS SpeakerCapture
=============================================================================
