\* Two presenters at once: the echo and the line come apart.
CONSTANTS
    p1 = p1
    p2 = p2
    Presenters = {p1, p2}
    Ring = 1
    CtrlDepth = 2
    Delays = {1}
    DropRates = {0}
    MaxFrames = 1
    MaxRequests = 2
SPECIFICATION Spec
SYMMETRY Symmetry
INVARIANTS
    EchoIsLive
CHECK_DEADLOCK FALSE
