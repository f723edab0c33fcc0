\* A projector and a phone come, stay, stop reading, vanish or hang up, while frames are
\* published and the server may be interrupted at any moment.
CONSTANTS
    projector = projector
    phone = phone
    Conns = {projector, phone}
    Topics = {"book", "stats"}
    TopicsOf <- MCTopicsOf
    Faults <- MCFaults
    SendBuffer = 2
    UnregDepth = 1
    MaxFrames = 2
SPECIFICATION FairSpec
INVARIANTS
    TypeOK
    JoinIsGapless
    NoPanic
    CleanClose
PROPERTIES
    ConnectionsEnd
    ShutdownEnds
CHECK_DEADLOCK FALSE
