\* Two promotions of one snapshot race each other and the sweeper.
CONSTANTS
    a = a
    b = b
    sw = sw
    x = x
    y = y
    NoSnapshot = NoSnapshot
    Promoter <- TwoPromoters
    Sweeper <- OneSweeper
    Snapshot <- OneSnapshot
    MaxTries = 2
    Batches = 2
    RootLease = 1
    SweepLimit = 2
SPECIFICATION LiveSpec
INVARIANTS
    PTypeOK
    
    
    
PROPERTIES
    
    GarbageIsReclaimed
CHECK_DEADLOCK FALSE
