SPECIFICATION FairSpec
CONSTANTS
    p1 = p1
    p2 = p2
    Job = {"stamp"}
    Call = {p1, p2}
    WorkerOf <- SharedWorker
    MaxAttempts = 2
    ReplayGrant = 1
    OperatorBound = 0
    MaxFaults = 1
    None = None
PROPERTIES
    CrashedRunsRecover
