SPECIFICATION FairSpec
CONSTANTS
    r1 = r1
    r2 = r2
    r3 = r3
    Requests = {r1, r2, r3}
    k1 = k1
    k2 = k2
    Keys = {k1, k2}
    n1 = n1
    n2 = n2
    Slots = {n1, n2}
    None = None
    Confs <- Settings
    MaxSize = 1
    Sizes = {1}
    Tries = 1
INVARIANTS TypeOK CountIsKept  SizeIsKept
PROPERTIES RequestsEnd InactiveGo
CHECK_DEADLOCK FALSE
