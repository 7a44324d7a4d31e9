SPECIFICATION RivalSpec
CONSTANTS
    Offense = {1, 2}
    NoRow = NoRow
    Nobody = Nobody
    Magnitude = {6}
    Sound = {1, 2}
    ByName = {1, 2}
    ByRule = {}
    Asked = {}
    Changing = {}
    Horizon = 3
    Window = 1
    ErrorRetry = 1
    Interval = 2
    LoudMin = 6
    MaxNew = 1
    MaxRetriage = 1
    LowMagMax = 3
    Ttl = 1
    Retention = 2
    MaxFaults = 0
PROPERTIES
    NewIsQueued
    LoudIsRevisited
