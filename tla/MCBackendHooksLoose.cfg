SPECIFICATION Spec
CONSTANTS
    QueryDescs = {q1, q2}
    PlannedStmts = {p1, p2}
    Texts <- TracedTexts
    Modes = {"all"}
    MaxActiveSpans = 2
    MaxCalls = 2
    MaxIds = 2
    Environment = {"suspend", "copy", "recycle", "commit"}
SYMMETRY Symmetry
INVARIANTS
    PlannerSpanHasParent
    ParentInSameTransaction
