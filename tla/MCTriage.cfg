SPECIFICATION Spec
CONSTANTS
    Run = {r1}
    Request <- AnyRequest
    Case <- AllCases
    Score = {3, 4, 6, 7}
    Aql = {"a", "b", "c", "default"}
    DefaultAql = "default"
    CloseMax = 6
    ScoreFloor = 9
    CleanupMax = 3
    EscalateThreshold = 6
    EscalateEnabled = TRUE
    RequiresTier2 = TRUE
    FallbackToDefault = TRUE
    MaxLenses = 2
    Provider = {"llm01", "ollama", "vertex"}
    NoProvider = ""
    Primary = "llm01"
    Manual = ""
    Fallback = "ollama"
    Heavy = "vertex"
    MaxFaults = 1
    NoVerdict = NoVerdict
INVARIANTS
    TypeOK
    NeverClosedBlind
    RetriesLeaveNoTrace
    UnblockOnlyReviewed
    CompromiseStaysOpen
