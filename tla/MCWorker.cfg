SPECIFICATION Spec
CONSTANTS
    Offense = {1, 2}
    NoRow = NoRow
    NoClaim = NoClaim
    NoOne = NoOne
    Magnitude = {2, 7}
    Thread = {t1, t2}
    Submission <- LeaseTraffic
    Lease = 4
    HttpTimeout = 1
    ClaimWait = 1
    MarkWait = 1
    MaxAttempts = 2
    MaxConnErrors = 1
    BatchPerRun = 1
    LowMagMax = 3
    Ttl = 1
    Retention = 2
    HoldSeconds = {}
    MaxNow = 5
INVARIANTS
    TypeOK
    OneThreadPerOffense
    ClaimStaysCurrent
    OvershootBounded
SYMMETRY ThreadSymmetry
