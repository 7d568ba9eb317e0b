SPECIFICATION Spec
CONSTANTS
    Backends = {b1, b2}
    Readers = {r1}
    Worker = worker
    NoOne = noone
    Capacity = 2
    MaxBatch = 2
    MaxOffered = 4
SYMMETRY Symmetry
INVARIANTS
    TypeOK
    LockExclusion
    RingConsistent
    NothingLost
    ExportedWereDequeued
    HeldOnce
    StatusIsSnapshot
PROPERTIES
    ImplementsQueue
