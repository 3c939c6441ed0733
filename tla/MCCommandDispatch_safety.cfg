\* Two requests that may share a key, one server, every fault.
CONSTANTS
    Servers = {s1}
    Keys = {k1}
    Requests = {r1, r2}
    SendCap = 1
    OutCap = 2
    Faults = {"db", "stream", "agent"}
    Nil = Nil
SPECIFICATION Spec
SYMMETRY Symmetry
INVARIANTS AtMostOncePerKey RetriesAgree RejectedNeverRuns ResultTruthful
PROPERTIES ResultStable ImplementsIdempotentExecution
