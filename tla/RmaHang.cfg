\* Nothing fails and nothing is lost.
SPECIFICATION FairSpec
CONSTANTS
    Kinds = {"rma"}
    Rounds = 2
    Dgram = FALSE
    WindowSize = 64
    MaxFaults = 0
PROPERTIES
    LastSyncReturns
CHECK_DEADLOCK FALSE
