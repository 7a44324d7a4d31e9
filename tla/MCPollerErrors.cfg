SPECIFICATION Spec
CONSTANTS
    Offense = {1}
    NoRow = NoRow
    Nobody = Nobody
    Magnitude = {2, 6}
    Sound = {1}
    ByName = {1}
    ByRule = {1}
    Asked = {}
    Changing = {1}
    Horizon = 4
    Window = 2
    ErrorRetry = 1
    Interval = 2
    LoudMin = 6
    MaxNew = 1
    MaxRetriage = 1
    LowMagMax = 3
    Ttl = 2
    Retention = 3
    MaxFaults = 0
PROPERTIES
    ErrorRowsRest
