SPECIFICATION Spec
CONSTANTS
    Sessions <- MCSessions
    MaxHeld = 2
    QueueSize = 6
    Length = 3
INVARIANTS ExactReadable NothingInvented ReadsAreLines
PROPERTIES EnterEndsRead
CHECK_DEADLOCK FALSE
