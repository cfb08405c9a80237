SPECIFICATION Spec
CONSTANTS
    Calendar = {a, b}
    Foreign = {x}
    Commitment = {k1, k2, k3}
    Long = {k3}
    Faulty = {b}
    Call = {c1, c2}
    Slots = 2
    MaxUpgrades = 2
    MaxPending = 3
    MaxCancels = 1
    None = None
SYMMETRY Symmetric
INVARIANT CallsAreSound
PROPERTY ProofOnlyGrows
CHECK_DEADLOCK FALSE
