\* Two targets of which one answers, two rotations, queries that may fail.
CONSTANTS
    N = 2
    Reachable = {1}
    BackoffInitial = 5
    BackoffMax = 18
    MaxAttempt = 4
    Requests = {r1, r2}
    DBFaults = TRUE
    Configured = cfg
    Nil = Nil
SPECIFICATION FairSpec
INVARIANTS DelayInBounds ValidAgentPersists TokenKept
PROPERTIES Reconnects
CHECK_DEADLOCK FALSE
