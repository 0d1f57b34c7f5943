SPECIFICATION Spec
CONSTANTS
    Settings <- MCSettings
    c1 = c1
    c2 = c2
    t1 = t1
    t2 = t2
SYMMETRY Interchange
INVARIANTS TxnAllOrNothing AnswersHold OpensAgain
CHECK_DEADLOCK FALSE
