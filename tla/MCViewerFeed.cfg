SPECIFICATION FairSpec
CONSTANTS
  Routes = {}
  Viewers = {}
  NoRoute = NoRoute
  MaxGeneration = 2
  MaxHeaders = 1
  MaxReplayConfigs = 1
  Clients = {c1}
  Publishers = {p1}
  NoClient = NoClient
  BroadcastCap = 1
  SendCap = 1
  BinCap = 2
  MaxAsks = 1
  Kinds = {"config"}
INVARIANTS
  MessagesInOrder
  StopClosesEveryone
PROPERTIES
  HeaderIsQueued
