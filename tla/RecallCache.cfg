SPECIFICATION Spec
CONSTANTS
    n1 = n1
    n2 = n2
    q1 = q1
    q2 = q2
    r1 = r1
    r2 = r2
    w1 = w1
    w2 = w2
    None = None
    Namespaces <- OneNamespace
    Queries <- TwoQueries
    Recalls <- TwoRecalls
    Writers <- OneWriter
    WriteKinds <- EveryKind
    MaxSize = 1
    EpochsCap = 2
    MaxVersion = 3
SYMMETRY Symmetry
INVARIANTS
    TypeOK
    
