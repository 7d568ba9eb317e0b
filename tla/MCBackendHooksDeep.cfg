SPECIFICATION Spec
CONSTANTS
    QueryDescs = {q1, q2}
    PlannedStmts = {p1, p2}
    Texts <- TracedTexts
    Modes = {"all"}
    MaxActiveSpans = 2
    MaxCalls = 3
    MaxIds = 3
    Environment = {"copy"}
SYMMETRY Symmetry
INVARIANTS
    ReportedOnce
    NoOrphans
