SPECIFICATION WheelSpec
CONSTANTS
    N = 3
    SI = 2
    WheelTimers = {t1, t2, t3}
    Timeouts = {0, 2, 5, 6, 13}
INVARIANTS WheelTypeOK InOneSlot
PROPERTIES FiresOnItsTick
CHECK_DEADLOCK FALSE
