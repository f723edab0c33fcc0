\* Commands still queued when the loop is told to stop.
CONSTANTS
    QueueDepth = 2
    MaxCommands = 3
    MaxKeyframes = 0
SPECIFICATION Spec
INVARIANTS
    DrainedWhenDone
CHECK_DEADLOCK FALSE
