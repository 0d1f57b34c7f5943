SPECIFICATION Spec
CONSTANTS
    p1 = p1
    p2 = p2
    s1 = s1
    none = none
SYMMETRY Interchange
INVARIANTS FrontierIsDurable SlotHistoryKept SlotDeliversExactly
CHECK_DEADLOCK FALSE
