SPECIFICATION FairSpec
CONSTANTS
    Workers = {w1, w2}
    Helpers = {}
    Listeners = {l1, l2}
    Free = Free
    ConnectionN = 1
    Eighth = 1
    MultiAccept = FALSE
    MaxBacklog = 1
    MaxFaults = 1
INVARIANTS OwnerInCriticalStretch HeldMeansListening NoThunderingHerd
PROPERTY EventuallyAccepted
CHECK_DEADLOCK FALSE
