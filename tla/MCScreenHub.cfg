SPECIFICATION HubSpec
CONSTANTS
  Routes = {r1, r2, r3}
  Viewers = {v1, v2}
  NoRoute = NoRoute
  MaxGeneration = 3
  MaxHeaders = 2
  MaxReplayConfigs = 2
SYMMETRY Symmetry
INVARIANTS
  SessionOwnsTheHub
