CONSTANTS
    t1 = t1
    t2 = t2
    t3 = t3
    k1 = k1
    k2 = k2
    k3 = k3
    Threads <- ThreeThreads
    Tasks <- ThreeTasks
    ExitTask = exit
    NoTask = none
    MaxQueue = 1
SPECIFICATION FairSpec
INVARIANTS
    WaitingCount
    OnePlace
    NoTaskStranded
    DoneIsNotified
    JoinsOneByOne
PROPERTIES
    TasksComplete
    DestroyReturns
    ImplementsService
