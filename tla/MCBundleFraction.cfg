SPECIFICATION FairSpec
CONSTANTS
    Worker = {w1, w2}
    Release = {v1}
    Second <- Clock
    Micro <- Clock
    MaxAttempts = 3
    MaxFaults = 0
    None = None
PROPERTY VerifiedIsDelivered
CHECK_DEADLOCK FALSE
