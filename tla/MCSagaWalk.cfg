\* One instance starts over the rows of a writer that may die, again and again.
CONSTANTS
    w = w
    p1 = p1
    p2 = p2
    NoProc = NoProc
    NoKey = NoKey
    Proc <- MCPair
    Entity = {}
    HostOf <- MCOneHost
    PidNamespaceVerifiable = TRUE
    MaxOp = 2
    Request <- MCRequest
    Lease = 1
    GateTTL = 2
    NLegacy = 0
    LegacyRequest <- MCNoLegacy
    Recovering <- MCOne
    Wait = 2
    PageSize = 1
    MaxNeedsReview = 0
    GateAware = TRUE
    OperatorErrs = FALSE
SPECIFICATION RLiveSpec
PROPERTIES
    ReadyMeansDrained
    
CHECK_DEADLOCK FALSE
