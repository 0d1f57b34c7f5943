SPECIFICATION Spec
CONSTANTS
    Settings <- MCSettings
    c1 = c1
    c2 = c2
    b1 = b1
    b2 = b2
SYMMETRY Interchange
INVARIANTS PromisedWritesSurvive RejectedLeavesNothing ReloadAgrees FloorMakesPublishStrict
CHECK_DEADLOCK FALSE
