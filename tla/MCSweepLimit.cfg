\* A sweep that takes one root a pass, after two failed promotions.
CONSTANTS
    a = a
    b = b
    sw = sw
    x = x
    y = y
    NoSnapshot = NoSnapshot
    Promoter <- OnePromoter
    Sweeper <- OneSweeper
    Snapshot <- OneSnapshot
    MaxTries = 2
    Batches = 1
    RootLease = 1
    SweepLimit = 1
SPECIFICATION LiveSpec
PROPERTY GarbageIsReclaimed
CHECK_DEADLOCK FALSE
