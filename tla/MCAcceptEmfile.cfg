SPECIFICATION FairSpec
CONSTANTS
    Workers = {w1, w2}
    Helpers = {}
    Listeners = {l1}
    Free = Free
    ConnectionN = 1
    Eighth = 1
    MultiAccept = FALSE
    MaxBacklog = 1
    MaxFaults = 1
PROPERTY CompetesAgain
CHECK_DEADLOCK FALSE
