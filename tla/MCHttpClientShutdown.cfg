SPECIFICATION FairSpec
CONSTANTS
    ConnectTimeout = 1
    TotalTimeout = 2
    MaxTime = 3
    MaxAddresses = 1
    Chunks = 1
    StatusRoom = 1
    MaxBody = 1
    MaxSignals = 1
    Endless = TRUE
PROPERTIES
    ShutdownEndsCall
CHECK_DEADLOCK FALSE
