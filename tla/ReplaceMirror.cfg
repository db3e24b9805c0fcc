SPECIFICATION Spec
CONSTANTS
    d1 = d1
    d2 = d2
    e1 = e1
    e2 = e2
    t1 = t1
    t2 = t2
    None = None
    Docs <- TwoDocs
    Entities <- TwoEntities
    Tasks <- OneTask
    SameDocument = FALSE
    MaxReplaces = 3
    MaxReconciles = 1
    MaxFaults = 2
    MaxCrashes = 1
    MaxCopies = 2
SYMMETRY Symmetry
CHECK_DEADLOCK FALSE
INVARIANTS
    TypeOK
    CommittedMirrored
    DroppedRetired
