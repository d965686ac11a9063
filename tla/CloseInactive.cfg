SPECIFICATION Spec
CONSTANTS
    Fds = {5, 6}
    Timers = {1, 2}
    Backlog = 2
    MaxConn = 3
    MaxUnread = 2
INVARIANTS TypeOK TimerPerConn EventsAreCurrent
CHECK_DEADLOCK FALSE
