SPECIFICATION Spec
CONSTANTS
    Addresses = {a}
    Ports = {"22", "bad"}
    Submits = {1, 2}
    MaxLate = 1
    MaxFaults = 1
INVARIANTS PayloadFits OneRecord AnnouncedTrue
CHECK_DEADLOCK FALSE
PROPERTY AgentNoticed
