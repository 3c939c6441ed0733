\* Two chunks on stdout and one on stderr, a short queue, one reconnection.
CONSTANTS
    Writes <- MCWrites
    Cap = 2
    MaxSessions = 2
SPECIFICATION FairSpec
INVARIANTS OutputInOrder ResultLast
PROPERTIES TaskConcludes
CHECK_DEADLOCK FALSE
