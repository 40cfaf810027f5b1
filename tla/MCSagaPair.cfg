\* Two processes merge and unmerge one pair of entities.
CONSTANTS
    p1 = p1
    p2 = p2
    e1 = e1
    e2 = e2
    NoProc = NoProc
    NoKey = NoKey
    Proc <- MCProc
    Entity <- MCTwo
    HostOf <- MCOneHost
    PidNamespaceVerifiable = TRUE
    MaxOp = 2
    Request <- MCRequest
    Lease = 3
    GateTTL = 1
    NLegacy = 0
    LegacyRequest <- MCNoLegacy
    Headroom = 2
    ServerBound = 1
    MaxPause = 1
    Kinds <- PairOnly
    Decayable = {}
SPECIFICATION MSpec
SYMMETRY MCSymmetry
INVARIANTS
    MTypeOK
    StatementOwned
    AppliedOnce
    NoDuplicateEntity
PROPERTIES
    MutationOnlyFenced
    CommitOnlyVerified
    ImplementsJournal
CHECK_DEADLOCK FALSE
