SPECIFICATION Spec
CONSTANTS
    TxDepth = 3
    EarlyAgain = FALSE
    Faulty = FALSE
    Batch = 4
    CqTry = 2
    MaxOps = 10
INVARIANTS
    BatchSignals
CHECK_DEADLOCK FALSE
