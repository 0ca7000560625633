SPECIFICATION FairSpec
CONSTANTS
    TxDepth = 5
    EarlyAgain = TRUE
    Faulty = TRUE
    Batch = 4
    CqTry = 3
    MaxOps = 8
INVARIANTS
    TypeOK
    WindowKept
    DriftLaw
    StatsExact
PROPERTIES
    EndsUnlessDrift
    ImplementsFlow
CHECK_DEADLOCK FALSE
