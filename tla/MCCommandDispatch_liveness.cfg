\* No faults; queues of one, so that a full outCh drops results.
CONSTANTS
    Servers = {s1}
    Keys = {k1}
    Requests = {r1, r2}
    SendCap = 1
    OutCap = 1
    Faults = {}
    Nil = Nil
SPECIFICATION FairSpec
PROPERTIES HandedOverConcludes
CHECK_DEADLOCK FALSE
