SPECIFICATION FairSpec
CONSTANTS
    Offense = {1}
    NoRow = NoRow
    Magnitude = {6}
    Thread = {t1, t2}
    Handler = {h1, h2}
    NoHandler = NoHandler
    Nothing = Nothing
    HttpTimeout = 2
    LockWait = 1
    Lease = 4
    Stale = 6
    Life = 6
    MaxAttempts = 2
    Analysts = TRUE
    MaxFaults = 1
INVARIANTS
    TypeOK
    OneAnalysis
    DoneMeansAnalysed
    OneVerdictNote
PROPERTIES
    AutomaticSettles
    StuckMarkFreed
