SPECIFICATION Spec
CONSTANTS
    n1 = n1
    n2 = n2
    c1 = c1
    p1 = p1
    d1 = d1
    d2 = d2
    None = None
    Callbacks <- OneCallback
    Durables <- OneDurable
    Namespaces <- TwoNamespaces
    Dispatches <- TwoDispatches
    Scope <- StableScopes
    Behaviour <- DispatchesAndHangs
    Filtered <- OneDurable
    MaxVersion = 2
    Versioned <- OneNamespace
    MaxConnects = 0
    Present <- CallbackAndDurable
    MaxDisturbances = 1
    Permits = 1
    SinkWired = TRUE
CHECK_DEADLOCK FALSE
INVARIANTS
    TypeOK
    
    StaleHeals
PROPERTIES
    DispatchReturns
