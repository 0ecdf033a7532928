SPECIFICATION Spec
CONSTANTS
    Roster <- WorkerOnly
    Binary = "new binary"
    MaxProcs = 5
    Signals = {"TERM", "QUIT", "HUP", "WINCH", "USR2"}
    KillAfter = 1
    MaxSignals = 4
    MaxCrashes = 0
    MaxForkFails = 0
INVARIANT LeavesNoOrphan
CHECK_DEADLOCK FALSE
