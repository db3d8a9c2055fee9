SPECIFICATION FairSpec
CONSTANTS
  CommandLines <- SomeCommandLines
  Followed <- SomeSessions
INVARIANTS
  AcceptedIsConsistent
  UsedObjectsLive
  NothingSurvives
PROPERTIES
  TeardownEnds
  SessionEndsWithDevice
CHECK_DEADLOCK FALSE
