SPECIFICATION MCSpec
CONSTANTS
    l1 = l1
    d1 = d1
    d2 = d2
    p1 = p1
    p2 = p2
    Links = {l1}
    DecisionIds = {d1, d2}
    Appenders = {p1, p2}
    Unlocked = Unlocked
    MaxTime = 2
    MaxEvents = 2
    Bundles <- MCBundles
    Edges <- MCEdges
    Merge = Merge
    Queries <- MCQueries
    All = All
    Limit = 1
INVARIANTS
    FoldIsLastWord
    NoRelationshipLost
    TimelineIsWhole
PROPERTIES
    RebuildRestores
SYMMETRY Symmetry
CHECK_DEADLOCK FALSE
