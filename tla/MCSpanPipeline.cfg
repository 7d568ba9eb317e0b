SPECIFICATION Spec
CONSTANTS
    Backends = {b1, b2}
    Executions <- SomeExecutions
    Capacity = 2
    MaxBatch = 2
    MaxStatements = 2
    MaxFaults = 1
SYMMETRY Symmetry
INVARIANTS
    TypeOK
    TraceIsFaithful
    OrphansAreLosses
    ExportedAtMostOnce
CHECK_DEADLOCK FALSE
