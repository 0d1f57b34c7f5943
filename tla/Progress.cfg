SPECIFICATION PartSpec
CONSTANTS
    p1 = p1
    p2 = p2
    a = a
    b = b
    c3 = c3
    k1 = k1
    none = none
    Commands = {p1}
    Linger = TRUE
    MaxCalls = 1
    MaxWatches = 1
    MaxFaults = 1
INVARIANTS LeasedStoreInPlace ServesWhole StreamsWithinCap
PROPERTIES WaitsEnd
CHECK_DEADLOCK FALSE
