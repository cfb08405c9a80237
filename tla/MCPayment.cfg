SPECIFICATION Spec
CONSTANTS
    h1 = h1
    h2 = h2
    p1 = p1
    p2 = p2
    Order = {"order"}
    Handler = {h1, h2}
    Price = {p1, p2}
    Part = {"part"}
    Worked = {"stamping"}
    MaxFaults = 0
    None = None
VIEW SafetyView
CONSTRAINT Bounded
SYMMETRY RequestSymmetry
INVARIANTS
    TypeOK
    LedgerIsTrue
    WorkFollowsMoney
    AcceptedEventsTakeEffect
PROPERTIES
    OnlyRotationRejectsMoney
    TriggerNeverRefuses
