\* Every page of the console.
CONSTANTS
    Pages <- MCPages
    Slots = {s1, s2}
    MaxSends = 2
    MaxFlights = 2
    MaxFaults = 1
    MaxViews = 1
    Gaps <- MCGaps
    Doubles <- MCDoubles
    Closers <- MCClosers
    Yankers <- MCYankers
    Wipers <- MCWipers
    Racers <- MCRacers
    Frozen <- MCFrozen
SYMMETRY Perms
SPECIFICATION Spec
INVARIANTS SettledFresh RightChoice SentOnce ClosesOwn StaysAway EditsKept
CHECK_DEADLOCK FALSE
