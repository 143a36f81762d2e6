SPECIFICATION Spec
CONSTANTS
    Addresses = {a1, a2}
    Objects <- ThreeObjects
    Resolvers = {c1, c2}
    Requests <- SomeRequests
    None = None
    MaxMeddles = 1
SYMMETRY ResolverSymmetry
INVARIANTS
    RecordsFollowTheirResolutions
PROPERTIES
    HonestResolutionIsOwned
    AcceptedIsWhatWasResolved
