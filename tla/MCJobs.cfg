SPECIFICATION JobsSpec
CONSTANTS
    Object <- Files
    NoHash = "none"
    Lookback = 3
    DedupTime = 4
    ReportItems = 1
    AqlRows = 2
    Day = 2
    Late = 1
    MaxEvents = 3
    XdrLookback = 3
    XdrPage = 2
    XdrCap = 3
    XdrItems = 1
    XdrDay = 2
    MaxAlerts = 4
    Endpoint = {"e1", "e2", "e3"}
    HostOf <- HostNames
    Reinstalled = {"e2"}
    Guarded = {"e3"}
    SilentDays = 2
    MaxPerRun = 2
    BatchSize = 1
    MaxLines = 1
    Leaving = {"e2"}
    MaxRows = 2
    MaxTroubles = 1
    Address = {"a1", "a2"}
    Internal = {"a2"}
    StaleAfter = 2
    LookbackTime = 3
    MaxAdds = 1
    MaxMishaps = 2
    Provider = {"p1", "p2"}
    RangesOf <- Ranges
    StaticRanges <- StaticCidrs
    FeedAddress = {3, 4, 5, 6}
    MaxIps = 2
    MaxCdnFailures = 2
INVARIANTS
    JobsTypeOK
    NothingMissed
    EffectsRecorded
PROPERTIES
    ReportedOnce
    RemovalsJustified
    ListsSafe
    CleanupSeesReturns
    ListsSettle
