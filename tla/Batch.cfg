\* Both endpoints; the endpoint has room for more than the batch, and refuses
\* posts early; posts and operations fail.
SPECIFICATION FairSpec
CONSTANTS
    TxDepth = 4
    EarlyAgain = TRUE
    Faulty = TRUE
    Batch = 3
    ReadMax = 2
    MaxOps = 8
INVARIANTS
    TypeOK
    WindowKept
    DrainExact
    StatsExact
PROPERTIES
    SoleReaderTerminates
    ImplementsFlow
\* The dgram worker may spin for ever on an empty CQ: that is a state without
\* a step (run batch_hang).
CHECK_DEADLOCK FALSE
