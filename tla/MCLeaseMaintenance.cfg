SPECIFICATION Spec
CONSTANTS
    k1 = k1
    h1 = h1
    r1 = r1
    f1 = f1
    Me = Me
    Contender = Contender
    None = None
    Keys = {k1}
    Hashes = {h1}
    Requests <- MCRequests
    Identities = {Me, Contender}
    Results = {r1}
    Failures = {f1}
    Times <- MCTimes
    Durations = {2}
    Duration = 2
    MaxFence = 3
    MaxFaults = 2
    LostReplies = TRUE
    Interrupts = TRUE
INVARIANTS
    PublishesStoredLease
    StaleMeansNotLive
    NoRenewerOutlivesHandle
    CleanExitPublished
PROPERTIES
    CallsReturn
