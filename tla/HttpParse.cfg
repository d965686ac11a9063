SPECIFICATION Spec
CONSTANTS
    BUFFER_SIZE = 7
INVARIANTS CutIndependent GotIsEarned ServedUnended
CHECK_DEADLOCK FALSE
