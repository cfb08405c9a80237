SPECIFICATION MCSpec
CONSTANTS
    w1 = w1
    w2 = w2
    w3 = w3
    h1 = h1
    h2 = h2
    None = None
    Worker = {w1, w2, w3}
    Hook = {h1, h2}
    FinalConfirmations = 2
    LeaseFor = 1
    Horizon = 5
    BaseDelay = 1
    MaxDelay = 3
    MaxAttempts = 4
    Reports = {"delivered", "failure"}
    MaxClock = 8
    LastEnqueue = 0
    MaxVersion = 2
    MaxObservations = 2
SYMMETRY Processes
CHECK_DEADLOCK FALSE
INVARIANTS
    OutboxIsSound
PROPERTIES
    OutcomesAreFinal
