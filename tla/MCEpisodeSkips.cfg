\* A client episode and the projection it may rely on.
CONSTANTS
    c = c
    j = j
    p1 = p1
    p2 = p2
    Nobody = Nobody
    Gone = Gone
    NoEpisode = NoEpisode
    Episode <- TwoEpisodes
    Proc <- OneProc
    Projection <- ClientProjection
    MaxAttempts = 1
    ContextCap = 1
    TransientCap = 1
    MaxFaults = 1
    MaxOps = 0
SPECIFICATION LiveSpec
PROPERTIES
    
    SkipsAreCovered
CHECK_DEADLOCK FALSE
