SPECIFICATION Spec
CONSTANTS
    c1 = c1
    c2 = c2
    f1 = f1
    f2 = f2
    v1 = v1
    v2 = v2
    Callers <- TwoCallers
    Filters <- TwoFilters
    Summaries <- TwoSummaries
    BatchSize = 2
    SpaceCap = 3
    FilterCap = 3
    MaxUpsets = 1
    FlushThreshold = 1
    MaxBuffer = 1
    MaxEvents = 2
    MaxFailures = 1
CHECK_DEADLOCK FALSE
INVARIANTS
    TypeOK
    OnlyDecisions
    Accounted
PROPERTIES
    AllAnswered
    Settles
