\* Longer runs of good commands from one session: sweeps over several levels and
\* several orders a level, partial fills, cancels in the middle of a queue; a sweep that
\* was started comes to an end.
CONSTANTS
    alice = alice
    bob = bob
    Sessions = {alice}
    Int64Half = 1000000
    Prices = {1, 2}
    Qtys = {1, 2}
    Depth = 1
    MaxCommands = 5
SPECIFICATION FairSpec
INVARIANTS
    NotCrossed
    Inductive
    NoFalseHalt
    SweepInOrder
    TotalsHonest
PROPERTIES
    FillsBestMaker
    NoQueueJump
    ApplyReturns
CHECK_DEADLOCK FALSE
