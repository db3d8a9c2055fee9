SPECIFICATION FairSpec
CONSTANTS
  Routes = {1,2,3}
  NoRoute = 0
  Viewers = {}
  MaxCalls = 3
  Toggles = {"screen","mic","speaker"}
  MaxGeneration = 3
  MaxHeaders = 1
  MaxReplayConfigs = 1
INVARIANTS
  NothingLeaks
  WorkersMatchSessions
PROPERTIES
  StaleCallsChangeNothing
  CallsReturn
CHECK_DEADLOCK FALSE
