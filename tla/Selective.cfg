SPECIFICATION FairSpec
CONSTANTS
    TxDepth = 3
    EarlyAgain = TRUE
    Faulty = TRUE
    Batch = 4
    CqTry = 3
    MaxOps = 10
INVARIANTS
    TypeOK
    CountLaw
    OneSignalled
    SteadySignals
PROPERTIES
    EndsUnlessOvercount
CHECK_DEADLOCK FALSE
