SPECIFICATION FairSpec
CONSTANTS
    h1 = h1
    h2 = h2
    p1 = p1
    p2 = p2
    Order = {"order"}
    Handler = {h1}
    Price = {p1, p2}
    Part = {}
    Worked = {}
    MaxFaults = 1
    None = None
PROPERTIES
    PaidOrdersAreStamped
    RefundsAreRecorded
