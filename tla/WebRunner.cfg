CONSTANTS
    Clients = {c1, c2}
    None = None
    MaxSends = 2
SPECIFICATION FairSpec
INVARIANTS
    TypeOK
    SyncGuarantee
    SafeFree
PROPERTIES
    EveryCallReturns
    ImplementsExecutor
CHECK_DEADLOCK FALSE
