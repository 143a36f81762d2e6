SPECIFICATION Spec
CONSTANTS
    Raws <- AllRaws
    Configs <- AllConfigs
    Codes <- AllCodes
    Platforms <- AllPlatforms
    Invalid = Invalid
    None = None
    Partial = Partial
    Loaded <- LoadedPairs
    PlanStatus <- Statuses
    Lags = {1, 2}
    Observed = "observed"
    Replicates = {"surrogate"}
    Failed = Failed
    Scores <- ScoresOfAll
    Tie = 0
    Tolerance = 2
    MaxEdits = 2
INVARIANTS
    ExactReplayRunsTheRecordedCode
