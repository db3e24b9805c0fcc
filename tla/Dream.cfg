SPECIFICATION Spec
CONSTANTS
    a1 = a1
    e1 = e1
    e2 = e2
    m1 = m1
    k1 = k1
    r1 = r1
    r2 = r2
    c1 = c1
    c2 = c2
    None = None
    Audits <- OneAudit
    Edges <- OneEdge
    Merges <- OneMerge
    Communities <- OneCommunity
    Order <- FullOrder
    Runs <- TwoRuns
    Calls <- TwoCalls
    RunCap = 1
    DayCap = 1
    MaxCalls = 2
    MaxFaults = 2
    MaxCrashes = 1
    MaxCancels = 1
    MaxUndos = 1
    MaxDays = 1
SYMMETRY Symmetry
CHECK_DEADLOCK FALSE
INVARIANTS
    TypeOK
    MirrorOwed
    PlanApplied
PROPERTIES
    CheckpointAdvances
    ImplementsOutbox
