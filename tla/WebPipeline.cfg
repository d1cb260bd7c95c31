CONSTANTS
  Layouts = {"direct", "queued", "copied", "buffered", "captured", "raw"}
  QueueSize = 2
  MaxFrames = 4
  MaxStops = 2
SPECIFICATION FairSpec
CHECK_DEADLOCK FALSE
INVARIANTS
  FramesConserved
  WholePictures
PROPERTIES
  CallsReturn
  StopReturns
