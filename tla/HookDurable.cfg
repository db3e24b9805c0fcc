SPECIFICATION Spec
CONSTANTS
    n1 = n1
    n2 = n2
    c1 = c1
    p1 = p1
    d1 = d1
    d2 = d2
    None = None
    Callbacks <- OneCallback
    Durables <- OneDurable
    Namespaces <- OneNamespace
    Dispatches <- OneDispatch
    Scope <- StableScopes
    Behaviour <- DispatchesAndHangs
    Filtered <- NoSub
    MaxVersion = 1
    Versioned <- OneNamespace
    MaxConnects = 2
    Present <- NoSub
    MaxDisturbances = 2
    Permits = 1
    SinkWired = TRUE
CHECK_DEADLOCK FALSE
INVARIANTS
    
    DurableKept
