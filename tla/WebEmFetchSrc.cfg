CONSTANTS
    Sizes = {0, 2, 4}
    ChunkSize = 2
    BlockSize = 1
    Word = 5
    MaxSeeks = 2
    MaxStarts = 2
    MaxUris = 1

SPECIFICATION FairSpec

INVARIANTS
    InPlace
    Complete

PROPERTIES
    StreamEnds
    SeekReturns

CHECK_DEADLOCK FALSE
