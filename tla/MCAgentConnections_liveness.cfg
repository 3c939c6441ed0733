\* A connection of each kind, and a user's edits.
CONSTANTS
    WS = {w1}
    GRPC = {g1}
    Clients = {}
    Edits = TRUE
    Nil = Nil
SPECIFICATION FairSpec
PROPERTIES ReportsHeal
CHECK_DEADLOCK FALSE
