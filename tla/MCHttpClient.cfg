SPECIFICATION FairSpec
CONSTANTS
    ConnectTimeout = 2
    TotalTimeout = 4
    MaxTime = 5
    MaxAddresses = 2
    Chunks = 2
    StatusRoom = 2
    MaxBody = 1
    MaxSignals = 2
    Endless = FALSE
INVARIANTS
    TypeOK
    NoWaitPastDeadline
    NoWaitOverShutdown
    
    SocketsClosed
PROPERTIES
    CallReturns
CHECK_DEADLOCK FALSE
