SPECIFICATION FairSpec
CONSTANTS
  Sizes = {s1, s2}
  FirstSize = s1
  Modes = {"fullscreen"}
  None = None
  MaxFrames = 3
  MaxSessions = 1
  MaxInputs = 2
  Failing = TRUE
INVARIANTS
  OneAnnouncementPerFrame
  WindowFollowsContent
  FrameKeepsItsSession
PROPERTIES
  NeverAnOlderFrame
  LastFrameArrives
  StreamCloses
CHECK_DEADLOCK FALSE
