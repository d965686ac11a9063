SPECIFICATION FairSpec
CONSTANTS
    Workers = {w1, w2, w3}
    m_max_request = 1
    MaxTask = 5
INVARIANTS PostsMatch TakenOnce
PROPERTIES TasksServed
CHECK_DEADLOCK FALSE
