SPECIFICATION MCFairSpec
CONSTANTS
    None = None
    Worker = {w1, w2}
    Hook = {h1}
    FinalConfirmations = 2
    LeaseFor = 1
    Horizon = 2
    BaseDelay = 1
    MaxDelay = 1
    MaxAttempts = 2
    Reports = {"other"}
    MaxClock = 4
    LastEnqueue = 0
    MaxVersion = 1
    MaxObservations = 0
    Calendar = {a, b}
    Foreign = {x}
    Commitment = {k1, k2, k3}
    Long = {k3}
    Call = {c1}
    Slots = 1
    MaxUpgrades = 2
    MaxPending = 2
    MaxCancels = 1
    Host = {h}
    Asker = {q1}
    Address = {public, private}
    Public = {public}
    Connections = 1
    MaxChanges = 1
PROPERTIES
    EveryNoticeSettles
    ServersAreHeard
CHECK_DEADLOCK FALSE
