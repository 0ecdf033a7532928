CONSTANTS
    p1 = p1
    p2 = p2
    p3 = p3
    Procs <- ThreeProcs
    Master = master
    Free = free
    SpinMax = 2
    NCpu = 2
    MaxFaults = 1
SPECIFICATION Spec
INVARIANT SleepsOnlyUntilRelease
