CONSTANTS
    MaxDequeue = 2
    MaxFrames = 4
    MaxFormats = 2
    MaxResets = 0
SPECIFICATION FairSpec
PROPERTIES
    SetFormatReturns
CHECK_DEADLOCK FALSE
