CONSTANTS
    p1 = p1
    p2 = p2
    p3 = p3
    Procs <- ThreeProcs
    Master = master
    Free = free
    SpinMax = 4
    NCpu = 2
    MaxFaults = 2
SPECIFICATION FairSpec
INVARIANTS
    MutualExclusion
    TokenConservation
    NoLostWakeup
PROPERTIES
    ImplementsMutex
    FreeLockIsTaken
