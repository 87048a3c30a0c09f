CONSTANTS
    d1 = d1
    d2 = d2
    d3 = d3
    p1 = p1
    p2 = p2
    c1 = c1
    c2 = c2
    None = None
    Ids = {d1, d2, d3}
    Paths <- MCPaths
    Contents <- MCContents
    IdOrder <- MCIdOrder
    Backends = {"git"}
    EditsDuringRound = TRUE
    SharedPaths = FALSE
    MaxEdits = 1
    MaxForeign = 0
    MaxFailures = 0
SPECIFICATION Spec
PROPERTY
    NoLocalVersionLost
