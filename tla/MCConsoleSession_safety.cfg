SPECIFICATION Spec
CONSTANTS
    t1 = t1
    t2 = t2
    u1 = u1
    u2 = u2
    s1 = s1
    s2 = s2
    Tabs <- TwoTabs
    Users <- TwoUsers
    Kinds <- JSON
    Slots <- TwoCalls
    MaxPairs = 3
    MaxMishaps = 0
SYMMETRY Symmetry
CHECK_DEADLOCK FALSE
INVARIANTS StaysSignedIn SignedOut OneUser
