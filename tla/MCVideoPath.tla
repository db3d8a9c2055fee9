----------------------------- MODULE MCVideoPath -----------------------------
(* Model checking VideoPath: two sizes, and frames enough to skip one. *)
EXTENDS VideoPath
=============================================================================
