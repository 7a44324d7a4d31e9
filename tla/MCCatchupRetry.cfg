SPECIFICATION ServicesSpec
CONSTANTS
    Session = {s1, s2}
    Thread = {t1}
    Nobody = Nobody
    HoldSeconds = 4
    GraceSeconds = 3
    WaitSeconds = 2
    StreamTimeout = 5
    Patience = 1
    Costs <- Histories
    Budget = 3
    Updater = {"cron", "deploy"}
    LastCommit = 4
    Req <- Requirements
    Installs <- Installable
    PassesSmoke <- SmokeResult
    Starts <- Compatible
    MaxAccidents = 1
    Old = {1, 2, 3}
    UseCase <- Label
    Matches <- Matching
    LoudnessOf <- Loudness
    Started <- SameStart
    Absent = Absent
    Recent = {3}
    LowMagMax = 3
    Outcome <- Outcomes
    Listed = {2}
    Asked <- ByHand
    Option <- CommandLines
    Workers = 1
    GiveUpAfter = 1
    MaxFaults = 1
PROPERTY
    RetriedIsQueued
