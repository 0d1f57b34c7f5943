SPECIFICATION PartSpec
CONSTANTS
    p1 = p1
    p2 = p2
    n1 = n1
    n2 = n2
    m1 = m1
    a = a
    b = b
    none = none
    Threads = {p1, p2}
    Nobody = Nobody
    Batch = 2
    Floor = 0
    MaxToken = 8
    Revisions = {2, 4}
    MaxFaults = 1
    MaxCrashes = 2
SYMMETRY Interchange
INVARIANTS TokensUnique RaisedBelowClock TablesAsAcknowledged TxnsAsTold
CHECK_DEADLOCK FALSE
