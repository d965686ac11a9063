SPECIFICATION ConnSpec
CONSTANTS
    MaxLen = 5
    Capacity = 4
    Streams <- MCStreams
INVARIANTS ConnTypeOK NameIsFirstLine NoRequestDropped NothingStranded
PROPERTIES Answered
CHECK_DEADLOCK FALSE
