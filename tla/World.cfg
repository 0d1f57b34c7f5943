SPECIFICATION PartSpec
CONSTANTS
    p1 = p1
    p2 = p2
    a = a
    b = b
    k1 = k1
    none = none
    target = target
    Procs = {p1, p2, k1}
    Host <- Hosts
    LockOf <- Hosts
    Threshold = 2
    BeatWithin = 1
    JudgeWithin = 1
    MaxTime = 4
    MaxStarts = 4
SYMMETRY Interchange
INVARIANTS ScanComplete CutIsExact RestoredWhole OneWriter
CHECK_DEADLOCK FALSE
