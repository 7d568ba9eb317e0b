SPECIFICATION Spec
CONSTANTS
    QueryDescs = {q1, q2}
    PlannedStmts = {p1, p2}
    Texts <- AllTexts
    Modes = {"none", "top-level", "all"}
    MaxActiveSpans = 1
    MaxCalls = 2
    MaxIds = 2
    Environment = {"copy"}
SYMMETRY Symmetry
INVARIANTS
    TypeOK
    ContextIsOwn
    
PROPERTIES
    EligibleIsTraced
