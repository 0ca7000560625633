SPECIFICATION Spec
CONSTANTS
    TxDepth = 3
    EarlyAgain = FALSE
    Faulty = FALSE
    Batch = 4
    CqTry = 3
    MaxOps = 10
INVARIANTS
    SyncAfterRma
CHECK_DEADLOCK FALSE
