SPECIFICATION Spec
CONSTANTS
    Offense = {1, 2}
    NoRow = NoRow
    NoClaim = NoClaim
    NoOne = NoOne
    Magnitude = {2, 7}
    Thread = {t1, t2}
    Submission <- LeaseTraffic
    Lease = 2
    HttpTimeout = 1
    ClaimWait = 0
    MarkWait = 0
    MaxAttempts = 2
    MaxConnErrors = 1
    BatchPerRun = 0
    LowMagMax = 3
    Ttl = 1
    Retention = 2
    HoldSeconds = {}
    MaxNow = 3
PROPERTIES
    ImplementsLeasedQueue
SYMMETRY ThreadSymmetry
