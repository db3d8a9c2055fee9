-------------------------- MODULE MCScreenGeometry --------------------------
(* Sizes for TLC: portrait and landscape, more and less than the screen has.  *)
EXTENDS ScreenGeometry

SomeFrames == {<<4, 7>>, <<5, 3>>}
SomeWindows == {<<6, 6>>}
TheBounds == <<9, 6>>
TheScreen == <<11, 7>>
=============================================================================
