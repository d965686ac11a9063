SPECIFICATION Spec
CONSTANTS
    Fds = {5, 6}
    Threads = {t1, t2, t3}
    MaxConn = 3
    MaxPiece = 3
INVARIANTS SoleReader NewsIsSeen
CHECK_DEADLOCK FALSE
