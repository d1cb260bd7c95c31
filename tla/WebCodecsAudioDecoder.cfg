CONSTANTS
  MaxDequeue = 1
  MaxFrames = 3
  MaxFormats = 2
  MaxResets = 2
SPECIFICATION AudioFairSpec
CHECK_DEADLOCK FALSE
INVARIANTS
  OutputPaired
PROPERTIES
  HandleFrameReturns
  StopReturns
