CONSTANTS
    PoolSize = 2
    MaxCaps = 2
    MaxFrames = 3
    MaxStarts = 2
    MaxFlushes = 2
SPECIFICATION FairSpec
INVARIANTS
    SurfacesConserved
PROPERTIES
    RenderedInOrder
    FlushReturns
CHECK_DEADLOCK FALSE
