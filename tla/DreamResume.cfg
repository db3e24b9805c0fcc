SPECIFICATION Spec
CONSTANTS
    a1 = a1
    e1 = e1
    e2 = e2
    m1 = m1
    k1 = k1
    r1 = r1
    r2 = r2
    c1 = c1
    c2 = c2
    None = None
    Audits = {}
    Edges <- TwoEdges
    Merges = {}
    Communities = {}
    Order <- EdgeOrder
    Runs <- OneRun
    Calls <- OneCall
    RunCap = 0
    DayCap = 0
    MaxCalls = 2
    MaxFaults = 0
    MaxCrashes = 1
    MaxCancels = 0
    MaxUndos = 0
    MaxDays = 0
CHECK_DEADLOCK FALSE
INVARIANTS
    ResumeApplies
