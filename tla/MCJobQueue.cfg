SPECIFICATION Spec
CONSTANTS
    p1 = p1
    p2 = p2
    Job = {"stamp"}
    Call = {p1, p2}
    WorkerOf <- SharedWorker
    MaxAttempts = 2
    ReplayGrant = 1
    OperatorBound = 3
    MaxFaults = 2
    None = None
SYMMETRY CallSymmetry
INVARIANTS
    TypeOK
    RunnableHasIntent
    TasksFollowIntents
    OneFencedRun
    HistoryExplainsState
    FailureIsEscalated
PROPERTIES
    ImplementsContract
