\* Batch deletes beside merges (a single-target delete takes the same steps).
CONSTANTS
    p1 = p1
    p2 = p2
    e1 = e1
    e2 = e2
    NoProc = NoProc
    NoKey = NoKey
    Proc <- MCProc
    Entity <- MCTwo
    HostOf <- MCOneHost
    PidNamespaceVerifiable = TRUE
    MaxOp = 2
    Request <- MCRequest
    Lease = 2
    GateTTL = 1
    NLegacy = 0
    LegacyRequest <- MCNoLegacy
    Headroom = 1
    ServerBound = 1
    MaxPause = 0
    Kinds <- MergeDelete
    Decayable = {}
SPECIFICATION MSpec
SYMMETRY MCSymmetry
INVARIANT AppliedOnce
CHECK_DEADLOCK FALSE
