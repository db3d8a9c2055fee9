---------------------------- MODULE MCScreenHub ----------------------------
(* A small instance of ScreenHub for TLC.  Routes and viewers are          *)
(* interchangeable and only safety is checked, so symmetry is sound.       *)
EXTENDS ScreenHub, TLC

Symmetry == Permutations(Routes) \cup Permutations(Viewers)
=============================================================================
