SPECIFICATION FairSpec
CONSTANTS
    t1 = t1
    t2 = t2
    t3 = t3
    k1 = k1
    sA = sA
    sB = sB
    h1 = h1
    x = x
    y = y
    None = None
    Tasks = {t1, t2, t3}
    Keys = {k1}
    Schemas = {sA, sB}
    Hashes = {h1}
    Texts = {x, y}
    TextOf <- MCTextOf
    Stored <- MCStored
    Calls <- MCCalls
    MaxFaults = 1
INVARIANTS
    EndedLeavesNothing
    AnsweredRanOnce
    CloseReleases
PROPERTIES
    CallsEnd
CHECK_DEADLOCK FALSE
