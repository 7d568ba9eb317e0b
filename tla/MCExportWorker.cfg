SPECIFICATION FairSpec
CONSTANTS
    Capacity = 2
    MaxBatch = 3
    MaxEdits = 2
INVARIANTS
    TypeOK
    NoSleepOnPendingSignal
    BatchFitsBuffer
    ReloadNotLost
    OneFailurePerWakeup
PROPERTIES
    SignalsServed
    QueueServed
