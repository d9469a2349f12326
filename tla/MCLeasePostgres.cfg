SPECIFICATION Spec
CONSTANTS
    k1 = k1
    h1 = h1
    a = a
    b = b
    r1 = r1
    f1 = f1
    s1 = s1
    s2 = s2
    s3 = s3
    None = None
    Keys = {k1}
    Hashes = {h1}
    Requests <- MCRequests
    Identities = {a}
    Results = {r1}
    Failures = {}
    Times <- MCTimes
    Durations = {1}
    MaxFence = 2
    Sessions = {s1, s2, s3}
INVARIANTS
    NoFalseCorruption
PROPERTIES
    ImplementsAuthority
    CallsEnd
