SPECIFICATION FairSpec
CONSTANTS
    Inputs <- SmallInputs
    Chunk = 2
    HeaderSize = 1
    MaxDirectory = 2
    MaxMember = 3
    MaxTotal = 6
    MaxHeader = 1
    MaxElements = 2
    MaxRecord = 3
    MaxRows = 2
    MaxLag = 1
    NoArray = NoArray
INVARIANTS
    LoadedIsDescribed
    LimitsHold
PROPERTIES
    DecodingEnds
