SPECIFICATION Spec
CONSTANTS
    Candidates <- Lags
    Rule = "max_absolute"
    Tolerance = 1
    Failure = Failure
    MaxBlockCount = 3
    Estimates <- SignedEstimates
    Pairs = {"here", "elsewhere"}
    Plans <- AllPlans
    NoValue = NoValue
    LeastSupport = 2
    Lengths <- SomeLengths
    Runs <- SomeRuns
    Budgets <- SomeBudgets
    Limits <- SomeLimits
INVARIANTS
    AcceptedIsWhatRunsReport
    AcceptedResultSurvivesStorage
    DecodedIsConsistent
    EditsShow
