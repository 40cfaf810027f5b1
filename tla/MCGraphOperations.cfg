\* The journal's fences and claims, after an upgrade that left a legacy row.
CONSTANTS
    p1 = p1
    p2 = p2
    a = a
    b = b
    NoProc = NoProc
    NoKey = NoKey
    Proc <- MCProc
    Entity <- MCEntity
    HostOf <- MCOneHost
    PidNamespaceVerifiable = TRUE
    MaxOp = 3
    Request <- MCRequest
    Lease = 1
    GateTTL = 1
    NLegacy = 1
    LegacyRequest <- MCLegacy
SPECIFICATION Spec
INVARIANTS
    JTypeOK
    
    KeyFence
    AttestationIsCurrent
    OnlyPreparedOwned
PROPERTIES
    TerminalStable
    TakeoverOnlyFromTheLapsed
SYMMETRY ProcSymmetry
CHECK_DEADLOCK FALSE
