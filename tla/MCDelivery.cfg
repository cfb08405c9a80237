SPECIFICATION MCFairSpec
CONSTANTS
    Worker = {w1, w2}
    Release = {v1, v2}
    Second <- Clock
    Micro <- Clock
    MaxAttempts = 3
    MaxFaults = 2
    None = None
    p1 = p1
    p2 = p2
    Job = {"stamp"}
    QueueAttempts = 2
    ReplayGrant = 1
    OperatorBound = 0
    QueueFaults = 1
INVARIANT BundlesAreSound
PROPERTIES
    WholeSecondsAreDelivered
    QueueDrains
CHECK_DEADLOCK FALSE
