\* Two connections of each kind and a client.
CONSTANTS
    WS = {w1, w2}
    GRPC = {g1, g2}
    Clients = {k1}
    Edits = FALSE
    Nil = Nil
SPECIFICATION Spec
SYMMETRY Symmetry
INVARIANTS HubSound OnlineHasAgent ViewAtRest
CHECK_DEADLOCK FALSE
