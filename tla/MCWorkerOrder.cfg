SPECIFICATION Spec
CONSTANTS
    Offense = {1, 2, 3}
    NoRow = NoRow
    NoClaim = NoClaim
    NoOne = NoOne
    Magnitude = {2, 7}
    Thread = {t1}
    Submission <- OrderTraffic
    Lease = 1
    HttpTimeout = 0
    ClaimWait = 0
    MarkWait = 0
    MaxAttempts = 2
    MaxConnErrors = 1
    BatchPerRun = 0
    LowMagMax = 3
    Ttl = 1
    Retention = 2
    HoldSeconds = {1}
    MaxNow = 2
INVARIANTS
    PositionFollowsClaimOrder
PROPERTIES
    LoudestFirst
