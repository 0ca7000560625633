SPECIFICATION FairSpec
CONSTANTS
    Threads = 2
    MaxOps = 2
    MayFail = TRUE
INVARIANTS
    TypeOK
    StatusTrue
    MeasuresConnected
    StopsForReason
    OpsTrue
    RowsTrue
PROPERTIES
    EndsUnlessDesync
