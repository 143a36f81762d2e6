SPECIFICATION Spec
CONSTANTS
    MaxBlockCount = 3
    MaxExactStates = 24
    Requests <- LongLagRequests
    Lengths = {3, 4}
    Scores <- Bits
    Caps <- WorkCaps
INVARIANTS
    ExecutablePlanIsBound
