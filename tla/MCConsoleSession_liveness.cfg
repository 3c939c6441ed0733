SPECIFICATION Spec
CONSTANTS
    t1 = t1
    t2 = t2
    u1 = u1
    u2 = u2
    s1 = s1
    s2 = s2
    Tabs <- OneTab
    Users <- SoleUser
    Kinds <- Fetch
    Slots <- TwoCalls
    MaxPairs = 2
    MaxMishaps = 1
CHECK_DEADLOCK FALSE
INVARIANT ExecutedOnce
PROPERTY Settles
