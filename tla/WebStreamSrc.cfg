CONSTANTS
    QueueMaxSize = 2
    FileSize = 4
    ChunkSizes = {1, 3}
    MaxFetches = 2
    MaxResets = 1
SPECIFICATION FairSpec
INVARIANTS
    ByteAccounting
    BytesInOrder
PROPERTIES
    CreateReturns
CHECK_DEADLOCK FALSE
