SPECIFICATION FairSpec
\* A chunk holds three messages.
CONSTANTS
    TransferSize = 2
    MaxXferSize = 3
    Sizes = {3, 4, 6}
    CqSize = 4
    MaxCalls = 4
    MayFail = TRUE
INVARIANTS
    TypeOK
    ChunkLaw
    NoMismatch
PROPERTIES
    EndsUnlessStarved
\* A client that has forgotten both chunks waits for ever.
CHECK_DEADLOCK FALSE
