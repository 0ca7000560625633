SPECIFICATION FairSpec
CONSTANTS
    Kinds = {"ping_pong", "latency", "batch", "selective", "capability", "rma", "rma_batch"}
    Rounds = 2
    Dgram = TRUE
    WindowSize = 64
    MaxFaults = 2
INVARIANTS
    TypeOK
    RightMessage
    ReceivePosted
    TagsAgree
    Meeting
    MemoryThere
    LockStep
PROPERTIES
    AgreedEnd
\* A side whose peer has left waits for ever in rx().
CHECK_DEADLOCK FALSE
