SPECIFICATION Spec
CONSTANTS
    Timers = {t1, t2, t3}
    Null = null
    Times = {0, 1, 2, 3}
INVARIANTS TypeOK WellLinked
PROPERTIES RunsDueInOrder CallsReturn
CHECK_DEADLOCK FALSE
