SPECIFICATION MCSpec
CONSTANTS
    p1 = p1
    p2 = p2
    q1 = q1
    q2 = q2
    q3 = q3
    Provider = {p1, p2}
    MaxLiars = 1
    MinimumConfirmations = 2
    MaxSkew = 1
    MaxBlocks = 4
    MaxReorgs = 1
    MaxAttestations = 2
    Request = {q1, q2, q3}
    Host = {h1}
    Address = {a1, a2, private}
    Public = {a1, a2}
    Slots = 2
    MaxChanges = 1
    None = None
SYMMETRY Symmetry
CHECK_DEADLOCK FALSE
INVARIANTS
    VerdictsAreTrue
    LookupIsShared
PROPERTIES
    NodeAnswersTruly
