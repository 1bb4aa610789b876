SPECIFICATION Spec
CONSTANTS
    Sessions <- CdSessions
    MaxHeld = 1
    QueueSize = 4
    Length = 127
INVARIANT ExactText
CHECK_DEADLOCK FALSE
