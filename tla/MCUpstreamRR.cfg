SPECIFICATION FairSpec
CONSTANTS
    Workers = {w1, w2}
    a = a
    b = b
    c = c
    Peers = {a, b, c}
    NoPeer = NoPeer
    Upstreams <- Shapes
    Weight <- Weights
    MaxFails <- Limits
    Down = {}
    FailTimeout = 1
    NextTries = 2
    Lag = 1
    MaxTime = 4
    MaxRequests = 3
    MaxCrashes = 1
INVARIANTS ConnsAreHeld ViewIsFresh OneProbe ProportionalService
PROPERTIES RequestsEnd
CHECK_DEADLOCK FALSE
