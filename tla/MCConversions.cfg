SPECIFICATION Spec
CONSTANTS
    Values <- SomeValues
    Words <- SomeWords
    MaxText = 6
    Numbers = {"80"}
    Names = {"x"}
    HostSize = 3
    PortSize = 3
    PathSize = 3
    MaxUrl = 6
    PlannedStatements <- SomeStatements
    Instruments <- SomeInstruments
    MaxWorkers = 3
    MaxTime = 5
    Spans <- SomeSpans
    MaxBatch = 2
INVARIANTS
    
    UrlIsItsParts
    StatisticsAreExact
    
    DocumentReadsBack
