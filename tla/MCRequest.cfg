SPECIFICATION FairSpec
CONSTANTS
    m = m
    s = s
    t = t
    u = u
    Main = m
    Subs = {s, t, u}
    NoRequest = NoRequest
    Data = Data
    Sites <- Pages
INVARIANTS TypeOK InOrder CountIsKept NoAlert
PROPERTIES RequestEnds
CHECK_DEADLOCK FALSE
