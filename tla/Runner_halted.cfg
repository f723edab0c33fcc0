\* A command accepted after a halt.
CONSTANTS
    QueueDepth = 2
    MaxCommands = 3
    MaxKeyframes = 0
SPECIFICATION Spec
INVARIANTS
    NeverSilentlyDropped
CHECK_DEADLOCK FALSE
