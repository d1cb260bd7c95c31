CONSTANTS
    MaxStreams = 2
    MaxRequested = 1
    MaxLinks = 1
    Marks = {1}
SPECIFICATION TransportFairSpec
INVARIANTS
    AcceptedInOrder
    MarkApplied
PROPERTIES
    StreamsAccepted
CHECK_DEADLOCK FALSE
