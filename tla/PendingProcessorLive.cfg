SPECIFICATION Spec
CONSTANTS
    d1 = d1
    d2 = d2
    b1 = b1
    b2 = b2
    w1 = w1
    w2 = w2
    None = None
    Docs <- TwoDocs
    Batches <- OneBatch
    Workers <- TwoWorkers
    Windows = 1
    WindowSize = 2
    Capacity = 1
    MaxConcurrent = 1
    ReprocessArchived = FALSE
    InitialStatuses <- NoRow
    MaxStops = 1
    MaxCrashes = 0
    MaxForgets = 0
    MaxFaults = 1
    MaxCopies = 1
CHECK_DEADLOCK FALSE
INVARIANTS
    BatchAccounting
PROPERTIES
    WaitReturnsUnlessDropped
