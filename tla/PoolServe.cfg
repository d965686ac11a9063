SPECIFICATION FairSpec
CONSTANTS
    N = 2
    Garbage = {0, 3}
    PipeCap = 1
    Backlog = 1
    Outcomes = {"keep", "close", "cgi"}
    MaxConn = 2
    MaxTerm = 1
    MaxCrash = 1
INVARIANTS ChildReapBacked
PROPERTIES TermEndsChildren ConnectionsServed
CHECK_DEADLOCK FALSE
