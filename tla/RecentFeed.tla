----------------------------- MODULE RecentFeed -----------------------------
(***************************************************************************)
(* What the speaker path promises for audio: frames are captured one after *)
(* another, and the ones handed to the connection to the phone are never   *)
(* repeated, never out of order, and at most Window frames behind the      *)
(* newest, however long a write takes.  Frames are known by their number.  *)
(***************************************************************************)
EXTENDS Naturals

CONSTANT Window   \* how many frames behind the newest one may be handed over

VARIABLES
  newest,   \* number of the newest captured frame, 0 before the first
  given     \* number of the last frame handed to the connection

Init == newest = 0 /\ given = 0

Capture == newest' = newest + 1 /\ UNCHANGED given

Give == /\ given' \in given + 1 .. newest
        /\ newest <= given' + Window
        /\ UNCHANGED newest

Next == Capture \/ Give

Spec == Init /\ [][Next]_<<newest, given>>
=============================================================================
