SPECIFICATION Spec
CONSTANTS
  Frames <- SomeFrames
  Windows <- SomeWindows
  Bounds <- TheBounds
  Full <- TheScreen
  Orientations = {0, 3, 5, 6}
  Transforms = {1, 7}
  Fits = {"letterbox", "unscaled", "stretched"}
  MaxSteps = 3
  None = None
INVARIANTS
  ClickHitsWhatIsShown
  WindowFitsContent
  DisplayFollowsWindow
CHECK_DEADLOCK FALSE
