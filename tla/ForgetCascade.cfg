SPECIFICATION Spec
CONSTANTS
    d1 = d1
    d2 = d2
    ea = ea
    eb = eb
    ec = ec
    rel = rel
    f1 = f1
    f2 = f2
    None = None
    Docs <- TwoDocs
    Entities <- ThreeEntities
    Rels <- OneRel
    Mentions <- SharedMentions
    Relates <- SharedRelates
    Ends <- EndsOfRel
    Forgets <- TwoForgets
    MaxCalls = 3
    MaxFaults = 1
CHECK_DEADLOCK FALSE
SYMMETRY Symmetry
INVARIANTS
    TypeOK
    StillReferencedKept
    
    NoneSourceless
