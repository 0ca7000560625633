\* No faults, no early refusals: only a batch larger than the endpoint.
SPECIFICATION FairSpec
CONSTANTS
    TxDepth = 2
    EarlyAgain = FALSE
    Faulty = FALSE
    Batch = 3
    ReadMax = 2
    MaxOps = 6
PROPERTIES
    Terminates
CHECK_DEADLOCK FALSE
