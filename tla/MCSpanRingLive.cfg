SPECIFICATION FairSpec
CONSTANTS
    Backends = {b1, b2}
    Readers = {r1, r2}
    Worker = worker
    NoOne = noone
    Capacity = 1
    MaxBatch = 1
    MaxOffered = 2
PROPERTIES
    LockReleased
    EnqueueReturns
