SPECIFICATION FairSpec
CONSTANTS
    N = 2
    Garbage = {0}
    PipeCap = 2
    Backlog = 2
    Outcomes = {"keep"}
    MaxConn = 2
    MaxTerm = 0
    MaxCrash = 0
PROPERTIES ConnectionsServed
CHECK_DEADLOCK FALSE
