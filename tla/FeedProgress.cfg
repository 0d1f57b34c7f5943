SPECIFICATION Spec
CONSTANTS
    p1 = p1
    p2 = p2
    r1 = r1
    none = none
INVARIANTS ChargesBalance
PROPERTIES ConsumersServed
CHECK_DEADLOCK FALSE
