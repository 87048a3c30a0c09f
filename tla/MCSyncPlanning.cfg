CONSTANTS
    d1 = d1
    d2 = d2
    d3 = d3
    p1 = p1
    p2 = p2
    c1 = c1
    c2 = c2
    None = None
    Ids <- MCIds
    Paths <- MCPaths
    Contents <- MCContents
    StoredSnapshots <- MCStoredSnapshots
SPECIFICATION Spec
INVARIANTS
    PlanIsThreeWayMerge
    TakeoverPushesOrAsks
    PendingMatchesPlan
CHECK_DEADLOCK FALSE
