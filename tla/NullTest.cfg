SPECIFICATION TestSpec
CONSTANTS
    MaxBlockCount = 5
    MaxExactStates = 24
    Requests <- AllRequests
    Lengths = {3, 4, 5}
    Scores <- Levels
    Caps <- WorkCaps
    Nulls <- SmallNulls
    WordBits = 1
INVARIANTS
    ReportAgreesWithDecision
    CollisionsAreExceedances
    RefusedPlanNeverRejects
    PassedPlanCanReject
    CompleteTestKeepsItsLevel
    AttemptsAreUniform
    EveryStateHasOneDraw
