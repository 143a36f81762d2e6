SPECIFICATION Spec
CONSTANTS
    MaxBlockCount = 3
    MaxExactStates = 24
    Requests <- SampledRequests
    Lengths = {4, 5}
    Scores <- Bits
    Caps <- WorkCaps
INVARIANTS
    OversizedPlanCostsNoArithmetic
