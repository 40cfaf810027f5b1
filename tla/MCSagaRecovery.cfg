\* Two instances start together beside a writer that may die.
CONSTANTS
    w = w
    p1 = p1
    p2 = p2
    NoProc = NoProc
    NoKey = NoKey
    Proc <- MCProc
    Entity = {}
    HostOf <- MCOneHost
    PidNamespaceVerifiable = TRUE
    MaxOp = 1
    Request <- MCRequests
    Lease = 1
    GateTTL = 1
    NLegacy = 0
    LegacyRequest <- MCNoLegacy
    Recovering <- MCTwo
    Wait = 1
    PageSize = 1
    MaxNeedsReview = 0
    GateAware = TRUE
    OperatorErrs = FALSE
SPECIFICATION RSpec
SYMMETRY MCSymmetry
INVARIANTS
    RTypeOK
    ReplaysAlone
PROPERTIES
    ReadyMeansDrained
    OutlastsTheDead
CHECK_DEADLOCK FALSE
