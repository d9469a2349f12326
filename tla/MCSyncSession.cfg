SPECIFICATION FairSpec
CONSTANTS
    t1 = t1
    t2 = t2
    t3 = t3
    p1 = p1
    p2 = p2
    None = None
    Threads = {t1, t2, t3}
    Paths = {p1, p2}
    MaxSessions = 2
    MaxCalls = 4
    MaxFaults = 1
INVARIANTS
    DrainedBeforeTeardown
    NoSessionForgotten
PROPERTIES
    CallsReturn
CHECK_DEADLOCK FALSE
