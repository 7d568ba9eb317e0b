SPECIFICATION Spec
CONSTANTS
    Values <- SomeValues
    Words <- DollarWords
    MaxText = 7
    Numbers = {"80"}
    Names = {"x"}
    HostSize = 2
    PortSize = 2
    PathSize = 2
    MaxUrl = 1
    PlannedStatements = {}
    Instruments = {}
    MaxWorkers = 0
    MaxTime = 0
    Spans = {}
    MaxBatch = 0
INVARIANT LiteralIsNoContext
