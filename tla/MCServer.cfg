SPECIFICATION Spec
CONSTANTS
    o1 = o1
    o2 = o2
    Symbols = {s1}
    Configured = {s1}
    OrderIDs = {o1, o2}
    Handlers = {h1}
    Batches <- MCBatches
    QueueSize = 1
    MaxEngines = 2
    MaxRequests = 3
INVARIANTS
    OrdersKept
    PauseHolds
    SnapshotFresh
PROPERTY ShutdownEnds
CHECK_DEADLOCK FALSE
