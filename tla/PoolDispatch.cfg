SPECIFICATION Spec
CONSTANTS
    N = 2
    Garbage = {0, 1}
    PipeCap = 2
    Backlog = 3
    Outcomes = {"close"}
    MaxConn = 3
    MaxTerm = 1
    MaxCrash = 1
INVARIANTS TypeOK AcceptBacked PipeEdgeBacked FullPipeIsRead RoundRobin ReapBacked NoBusyReap MarkedIsReaped
CHECK_DEADLOCK FALSE
