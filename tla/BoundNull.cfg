SPECIFICATION CSpec
CONSTANTS
    None = None
    MaxBlockCount = 3
    Nulls <- AllNulls
    Values <- Bits
    Strangers <- Neighbours
    Disturbed <- DisturbedNulls
    MaxDrifts = 1
    Calibrated <- RunNulls
    Planned <- RunReplicates
    MaxWrites <- RunWrites
INVARIANTS
    AppliedIsExact
    AppliedTokenIsOwned
    ScoredIsExact
    UndisturbedRunIsNotRefused
