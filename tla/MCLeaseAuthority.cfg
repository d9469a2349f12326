SPECIFICATION TimedSpec
CONSTANTS
    k1 = k1
    h1 = h1
    h2 = h2
    a = a
    b = b
    r1 = r1
    r2 = r2
    f1 = f1
    None = None
    Keys = {k1}
    Hashes = {h1, h2}
    Requests <- MCRequests
    Identities = {a, b}
    Results = {r1, r2}
    Failures = {f1}
    Times <- MCTimes
    Durations <- MCDurations
    MaxFence = 3
INVARIANTS
    TypeOK
    OneHolderPerFence
    ReportedStaysAuthoritative
    TerminalOfNewestFence
    NoRedriveOneHolder
    HolderRecoversLease
    PublicationIdempotent
    OlderLeasesExpired
    RecoveryOnlyAfterExpiry
PROPERTIES
    RowEvolution
