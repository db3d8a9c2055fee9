-------------------------- MODULE MCAudioRegulator --------------------------
(* Model checking AudioRegulator: one sample is the target and the ring   *)
(* holds four, so that a frame of four, which compensation may make five, *)
(* finds it full, empty or wrapped.                                       *)
EXTENDS AudioRegulator
=============================================================================
