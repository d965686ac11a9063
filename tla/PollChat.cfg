SPECIFICATION Spec
CONSTANTS
    USER_LIMIT = 2
    Fds = {5, 6, 7}
    MaxConn = 4
    MaxUnread = 1
INVARIANTS EntriesMatch NothingPassedOver
PROPERTIES LeaverDropped
CHECK_DEADLOCK FALSE
