CONSTANTS
    MaxStarts = 3
    Worker = {1, 2, 3, 4, 5, 6}
SPECIFICATION FairSpec
INVARIANTS
    ReaderUsable
    OneRun
PROPERTIES
    RequestServed
    StopReturns
    ImplementsHandover
CHECK_DEADLOCK FALSE
