SPECIFICATION Spec
CONSTANTS
    d1 = d1
    d2 = d2
    e1 = e1
    e2 = e2
    t1 = t1
    t2 = t2
    None = None
    Docs <- TwoDocs
    Entities <- OneEntity
    Tasks <- TwoTasks
    SameDocument = FALSE
    MaxReplaces = 3
    MaxReconciles = 0
    MaxFaults = 1
    MaxCrashes = 0
    MaxCopies = 2
SYMMETRY Symmetry
CHECK_DEADLOCK FALSE
INVARIANTS
    DroppedRetired
