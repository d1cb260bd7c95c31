CONSTANTS
    MaxDequeue = 2
    MaxFrames = 3
    MaxFormats = 2
    MaxResets = 1
SPECIFICATION FairSpec
INVARIANTS
    EveryOutputHasFrame
    OutputMatchesFrame
PROPERTIES
    HandleFrameReturns
    DrainedFormatReturns
CHECK_DEADLOCK FALSE
