SPECIFICATION Spec
CONSTANTS
    p1 = p1
    p2 = p2
    p3 = p3
    d1 = d1
    d2 = d2
    big = big
    a1 = a1
    a2 = a2
    man = man
    side = side
    None = None
    Publishers = {p1, p2, p3}
    Documents = {d1, d2, big}
    Unencodable = {big}
    Names <- AllNames
    Manifest = man
    SidecarName = side
    Caps <- SomeCaps
    MaxProduced = 5
    Artifacts = {a1, a2}
    MaxLength = 2
    Limits <- SomeLimits
    MaxChanges = 1
    MaxFaults = 2
SYMMETRY Symmetry
INVARIANTS
    ReadsOneDocument
    OutcomeTruthful
    ManifestMeansComplete
    VerifiedMeansExact
    SidecarKeepsHeadAndTail
CHECK_DEADLOCK FALSE
