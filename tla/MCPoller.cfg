SPECIFICATION Spec
CONSTANTS
    Offense = {1}
    NoRow = NoRow
    Nobody = Nobody
    Magnitude = {2, 6}
    Sound = {1}
    ByName = {}
    ByRule = {1}
    Asked = {1}
    Changing = {1}
    Horizon = 4
    Window = 2
    ErrorRetry = 1
    Interval = 2
    LoudMin = 6
    MaxNew = 1
    MaxRetriage = 1
    LowMagMax = 3
    Ttl = 2
    Retention = 3
    MaxFaults = 1
INVARIANTS
    TypeOK
    FreshVerdictStands
PROPERTIES
    SweptStaysOut
    AnalystKept
