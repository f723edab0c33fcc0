\* A trade, a halt, a toggle, a broken socket and a restart of the server in every order.
CONSTANTS
    LineDepth = 1
    PubDepth = 2
    SendBuffer = 2
    Flaky = {"stale"}
    MaxLives = 2
    MaxCommands = 2
SPECIFICATION FairSpec
INVARIANTS
    TypeOK
    BooksInOrder
PROPERTIES
    ImplementsMirror
    SnapsBack
    LateJoinerSeesAll
CHECK_DEADLOCK FALSE
