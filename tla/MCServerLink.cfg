SPECIFICATION FairSpec
CONSTANTS
  Options <- UserOptions
  Lists <- SomeLists
  LastPort = 2
  Attempts = 2
  Failing = TRUE
INVARIANTS
  InterruptIsSafe
  AnnouncedStreams
  NothingLeft
PROPERTIES
  KeepsPromise
CHECK_DEADLOCK FALSE
