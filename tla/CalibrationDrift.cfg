SPECIFICATION FairSpec
CONSTANTS
    Candidates <- Single
    Rule = "max_absolute"
    Tolerance = 1
    Failure = Failure
    Estimates <- UnsignedEstimates
    StateCount = 2
    NullStatuses = {"enabled", "disabled"}
    Plans <- DriftPlans
    Faults <- EveryFault
    Restorable <- PutBack
    MaxReplicates = 3
    MaxResultRows = 2
    MaxTokenUnits = 3
    MaxWork = 1000
    ObservedLength = 4
    TokenUnits = 1
    NoValue = NoValue
INVARIANTS
    TypeOK
    ReturnedCountsAreTrue
    LoopRunsOnIntactSlots
    DriftIsNeverReturned
PROPERTIES
    ImplementsTest
    RunEnds
