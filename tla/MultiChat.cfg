SPECIFICATION Spec
CONSTANTS
    USER_LIMIT = 1
    MaxConn = 3
    MaxText = 2
INVARIANTS CountedAreKnown NothingOlder
PROPERTIES StopsWhenAllReaped
CHECK_DEADLOCK FALSE
