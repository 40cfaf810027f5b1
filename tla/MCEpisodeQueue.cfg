\* Two processes work on one episode; one of them may crash or shut down.
CONSTANTS
    c = c
    j = j
    p1 = p1
    p2 = p2
    Nobody = Nobody
    Gone = Gone
    NoEpisode = NoEpisode
    Episode <- OneEpisode
    Proc <- TwoProcs
    Projection <- NoProjection
    MaxAttempts = 2
    ContextCap = 2
    TransientCap = 1
    MaxFaults = 1
    MaxOps = 0
SPECIFICATION Spec
SYMMETRY ProcSymmetry
INVARIANTS
    QTypeOK
    DedupExact
    

    
CHECK_DEADLOCK FALSE
