\* Nothing fails and nothing is lost; the two clocks are read independently.
SPECIFICATION FairSpec
CONSTANTS
    Kinds = {"ping_pong"}
    Rounds = 2
    Dgram = FALSE
    WindowSize = 64
    MaxFaults = 0
PROPERTIES
    BothEnd
CHECK_DEADLOCK FALSE
