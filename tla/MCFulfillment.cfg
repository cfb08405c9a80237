SPECIFICATION MCSpec
CONSTANTS
    r1 = r1
    r2 = r2
    c1 = c1
    c2 = c2
    d1 = d1
    Run = {r1, r2}
    Calendar = {c1, c2}
    Customer = {d1}
    FinalConfirmations = 2
    MaxStamps = 3
    MaxTip = 2
    MaxChecks = 3
    MaxRequests = 1
    MaxFaults = 2
    Returns = {"refunded", "disputed"}
    MaxDownloads = 2
    None = None
SYMMETRY Symmetry
VIEW View
CHECK_DEADLOCK FALSE
INVARIANTS
    TypeOK
    OneSubmissionTime
    VersionsGrow
    VerificationsAreAttested
    ConfirmedOnEvidence
    NoticesAreBacked
    NoOrderForgotten
    StatusIsTrue
PROPERTIES
    DownloadsAreCurrent
