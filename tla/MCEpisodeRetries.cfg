\* All the retries of one episode in one process, with an operator reset.
CONSTANTS
    c = c
    j = j
    p1 = p1
    p2 = p2
    Nobody = Nobody
    Gone = Gone
    NoEpisode = NoEpisode
    Episode <- OneEpisode
    Proc <- OneProc
    Projection <- NoProjection
    MaxAttempts = 2
    ContextCap = 3
    TransientCap = 2
    MaxFaults = 1
    MaxOps = 1
SPECIFICATION LiveSpec
INVARIANTS
    EveryClaimCounted
PROPERTIES
    EverySettles
CHECK_DEADLOCK FALSE
