\* Three tasks call, are cancelled and are late; the operator resets.
CONSTANTS
    c1 = c1
    c2 = c2
    c3 = c3
    Free = Free
    Caller <- MCCaller
    Threshold = 2
    Cooldown = 2
    QuotaCooldown = 3
SPECIFICATION LiveSpec
INVARIANTS
    BTypeOK
    NotWedged
PROPERTIES
    BillingPause
    KeepsProbing
