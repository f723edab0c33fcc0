\* A keyframe the degraded lane refuses in a quiet market.
CONSTANTS
    QueueDepth = 2
    MaxCommands = 2
    MaxKeyframes = 2
SPECIFICATION FairSpec
PROPERTIES
    RefusalsGetReported
CHECK_DEADLOCK FALSE
