SPECIFICATION PartSpec
CONSTANTS
    p1 = p1
    p2 = p2
    w1 = w1
    r1 = r1
    k1 = k1
    c1 = c1
    c2 = c2
    l1 = l1
    l2 = l2
    Chunks = {c1}
    Writers = {p1, p2}
    Readers = {k1}
    Nobody = Nobody
    MaxAttempts = 1
    MaxStarts = 2
    MaxChanges = 1
    MaxReads = 1
    MaxMishaps = 2
SYMMETRY Interchange
INVARIANTS ReadersSeeCommitted StableCopyIsCurrent CacheKeepsWrites RowsAsWritten FilesReplay
CHECK_DEADLOCK FALSE
