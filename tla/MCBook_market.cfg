\* Every command, good and bad, from two sessions, with int64 cut down to -4 .. 3, so
\* that the ledger, the notionals and the cached totals overflow within two orders: the
\* engine implements the abstract market, keeps what it promises a client about its
\* orders, and balances its accounts modulo 2^w.
CONSTANTS
    alice = alice
    bob = bob
    Sessions = {alice, bob}
    Int64Half = 4
    Prices = {0, 1, 2}
    Qtys = {0, 1, 3}
    Depth = 1
    MaxCommands = 4
SPECIFICATION Spec
INVARIANTS
    TypeOK
    IndexMatchesLadder
    NoFalseHalt
    SnapshotAddsUp
    ConservedMidSweep
PROPERTIES
    LeavesFilledOrReleased
    ImplementsPriceTime
CHECK_DEADLOCK FALSE
