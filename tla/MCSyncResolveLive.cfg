CONSTANTS
    d1 = d1
    d2 = d2
    d3 = d3
    p1 = p1
    p2 = p2
    c1 = c1
    c2 = c2
    None = None
    Ids = {d1, d2, d3}
    Paths <- MCPaths
    Contents <- MCContents
    IdOrder <- MCIdOrder
    Backends = {"git", "gitlab"}
    EditsDuringRound = FALSE
    SharedPaths = FALSE
    MaxEdits = 1
    MaxForeign = 1
    MaxFailures = 1
SPECIFICATION MCFairSpec
VIEW SeenAndCrossed
PROPERTIES
    AnswersSettle
    Settles
