SPECIFICATION FairSpec
CONSTANTS
    Roster <- WorkerLoader
    Binary = "new binary"
    MaxProcs = 5
    Signals = {"TERM", "QUIT", "HUP", "WINCH", "USR2"}
    KillAfter = 1
    MaxSignals = 2
    MaxCrashes = 1
    MaxForkFails = 1
INVARIANTS EveryKidHasItsEntry ExitingWasTold OldTurnedOut ExitsLast
PROPERTIES NoSpawnAtTheEnd EndsInTheEnd ComesBack
CHECK_DEADLOCK FALSE
