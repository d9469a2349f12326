SPECIFICATION Spec
CONSTANTS
    k1 = k1
    k2 = k2
    sA = sA
    sB = sB
    v1 = v1
    v2 = v2
    bad = bad
    None = None
    Keys = {k1, k2}
    Schemas = {sA, sB}
    Records = {v1, v2}
    Damaged = {bad}
INVARIANTS
    ReferenceMeansOneRecord
    StoredStays
    OneWinner
