SPECIFICATION FairSpec
CONSTANTS
  MinCap = 2
  MaxCap = 4
  Hole = Hole
  Ptses = {0, 1}
  Ticks = 2
  NoPts <- MCNoPts
  MaxVideo = 4
  MaxAudio = 1
INVARIANTS
  RecordingIsFaithful
  QueuesMatchTheLoop
PROPERTIES
  RecorderEnds
CHECK_DEADLOCK FALSE
