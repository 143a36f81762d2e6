SPECIFICATION FairSpec
CONSTANTS
    Candidates <- Pair
    Rule = "max_absolute"
    Tolerance = 1
    Failure = Failure
    Estimates <- SignedEstimates
    StateCount = 3
    NullStatuses = {"enabled", "disabled"}
    Plans <- HonestPlans
    Faults = {}
    Restorable = {}
    MaxReplicates = 2
    MaxResultRows = 4
    MaxTokenUnits = 2
    MaxWork = 1000
    ObservedLength = 4
    TokenUnits = 1
    NoValue = NoValue
INVARIANTS
    BoundsBracketEveryCompletion
    EnumeratedPValueIsExact
    LabelIsFirstNearMaximum
PROPERTIES
    HonestRunReturns
