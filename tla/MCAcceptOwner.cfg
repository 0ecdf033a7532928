SPECIFICATION Spec
CONSTANTS
    Workers = {w1, w2}
    Helpers = {h1}
    Listeners = {l1}
    Free = Free
    ConnectionN = 1
    Eighth = 1
    MultiAccept = FALSE
    MaxBacklog = 1
    MaxFaults = 0
INVARIANT OwnerListens
CHECK_DEADLOCK FALSE
