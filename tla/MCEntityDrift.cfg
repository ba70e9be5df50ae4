SPECIFICATION MCSpec
CONSTANTS
    l1 = l1
    d1 = d1
    d2 = d2
    p1 = p1
    p2 = p2
    Links = {l1}
    DecisionIds = {d1}
    Appenders = {p1}
    Unlocked = Unlocked
    MaxTime = 2
    MaxEvents = 1
    Bundles = {}
    Edges = {}
    Merge = Merge
    Queries = {}
    All = All
    Limit = 1
INVARIANTS
    ProjectionIsFold
CHECK_DEADLOCK FALSE
