SPECIFICATION Spec
CONSTANTS
    d1 = d1
    d2 = d2
    b1 = b1
    b2 = b2
    w1 = w1
    w2 = w2
    None = None
    Docs <- OneDoc
    Batches <- TwoBatches
    Workers <- TwoWorkers
    Windows = 1
    WindowSize = 2
    Capacity = 1
    MaxConcurrent = 1
    ReprocessArchived = TRUE
    InitialStatuses <- NoRowOrArchived
    MaxStops = 1
    MaxCrashes = 1
    MaxForgets = 1
    MaxFaults = 1
    MaxCopies = 1
CHECK_DEADLOCK FALSE
SYMMETRY Symmetry
INVARIANTS
    TypeOK
    BatchAccounting
    SemaphoresExact
