SPECIFICATION RegulatorSpec
CONSTANTS
  TargetBuffering = 1
  SampleRate = 3
  FrameSizes = {1, 4}
  PullSizes = {2}
  MaxSamples = 12
INVARIANTS
  PlaysTheStream
  LatencyBounded
CHECK_DEADLOCK FALSE
