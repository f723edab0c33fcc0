\* Frames, toggles, the timer and the end of the line in every order, over queues
\* of two and a control channel of one.
CONSTANTS
    p1 = p1
    p2 = p2
    Presenters = {p1, p2}
    Ring = 2
    CtrlDepth = 1
    Delays = {0, 2}
    DropRates = {0, 2}
    MaxFrames = 4
    MaxRequests = 2
SPECIFICATION FairSpec
INVARIANTS
    TypeOK
    Accounted
    TimerRunsWhilePending
PROPERTIES
    ImplementsLossyFifo
    FramesMoveOn
    ConfigureReturns
CHECK_DEADLOCK FALSE
