\* An order on a connection that never breaks, with room in every channel.
CONSTANTS
    Asked = {1, 2}
    MaxPrice = 2
    MaxQueued = 2
    PubDepth = 4
    SendBuffer = 4
    MaxTaps = 2
    MaxFills = 2
    MaxBreaks = 0
SPECIFICATION Spec
INVARIANTS
    RowsSettle
CHECK_DEADLOCK FALSE
