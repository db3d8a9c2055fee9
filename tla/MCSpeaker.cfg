SPECIFICATION CaptureFairSpec
CONSTANTS
  QueueFrames = 2
  MaxFrames = 6
PROPERTIES
  FeedSpec
  SessionReturns
