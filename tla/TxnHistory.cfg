CONSTANTS
  t1 = t1
  t2 = t2
  w1 = w1
  w2 = w2
  Chunks = {1, 2}
  Txns = {t1, t2}
  Writers = {w1}
  HistoryLimit = 1
  MaxVersion = 3
SPECIFICATION Spec
SYMMETRY Interchange
CHECK_DEADLOCK FALSE
INVARIANT SnapshotReads
INVARIANT Serializable
INVARIANT ConflictsAreReal
INVARIANT HistoryBounded
INVARIANT NeverAllWaiting
