\* Commands, keyframes, a halt and the end of the loop in every order.
CONSTANTS
    QueueDepth = 2
    MaxCommands = 5
    MaxKeyframes = 2
SPECIFICATION FairSpec
INVARIANTS
    TypeOK
    LanesAgree
    OnlyGoodBooksShown
    ReportsAddUp
PROPERTIES
    ImplementsLossyFifo
    CommandsAreReceived
CHECK_DEADLOCK FALSE
