SPECIFICATION MCSpec
CONSTANTS
    r1 = r1
    r2 = r2
    r3 = r3
    c1 = c1
    c2 = c2
    p1 = p1
    p2 = p2
    None = None
    Request = {r1, r2, r3}
    Client = {c1, c2}
    Price = {p1, p2}
    MaxOrders = 2
    MaxLeases = 4
    MaxTokens = 5
    MaxSessions = 3
    checkout = checkout
    status = status
    Endpoint = {checkout, status}
    Address = {a1, a2}
    Limit <- LimitOf
    BodyLimit = 1
    MaxDelay = 1
    MaxWindow = 2
    Reader = {reader}
    Code = {1, 2, 3}
    Sentinel = 1
    CSV <- Exports
    MinimumRows = 2
    MaxUpdates = 2
    MaxFaults = 1
SYMMETRY Symmetry
CHECK_DEADLOCK FALSE
INVARIANTS
    OneCheckoutPerKey
    TokensAreSingle
    LimitsHold
    SnapshotIsWhole
