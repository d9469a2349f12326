SPECIFICATION SafeSpec
CONSTANTS
    k1 = k1
    k2 = k2
    k3 = k3
    sA = sA
    v1 = v1
    v2 = v2
    bad = bad
    s1 = s1
    s2 = s2
    s3 = s3
    None = None
    Schemas = {sA}
    Records = {v1, v2}
    Keys = {k1, k2, k3}
    Damaged = {bad}
    Sessions = {s1, s2}
    Calls <- MCEvictCalls
    ChunkSize = 2
    MaxLife = 1
    MaxEnlisted = 2
    BindStoredOnly = TRUE
SYMMETRY SessionSymmetry
VIEW WithoutReads
INVARIANTS
    OneWinnerPerLife
    EvictedOnce
    NoPartialEviction
    NoDanglingRead
