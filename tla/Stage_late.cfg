\* Two books and a halt, of which the second book may still be in the chaos line when a
\* pane that has lost its connection joins again.
CONSTANTS
    LineDepth = 1
    PubDepth = 1
    SendBuffer = 2
    Flaky = {"stale"}
    MaxLives = 1
    MaxCommands = 3
SPECIFICATION FairSpec
PROPERTIES
    LateJoinerSeesAll
CHECK_DEADLOCK FALSE
