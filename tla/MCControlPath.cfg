SPECIFICATION FairSpec
CONSTANTS
  Pads = {p1, p2}
  MaxGamepads = 1
  MaxKeys = 1
  Limit = 2
  Modes = {"sdk", "uhid", "aoa"}
  MaxInputs = 4
  Habits <- UserHabits
  Failing = TRUE
  None = None
INVARIANTS
  NothingStranded
  DeviceCanFollow
  LocksAreKnown
  NothingIsLeft
PROPERTIES
  EveryThreadEnds
CHECK_DEADLOCK FALSE
