SPECIFICATION Spec
CONSTANTS
    a = a
    b = b
    w1 = w1
    w2 = w2
    Writers <- TwoWriters
    Inodes = {1, 2, 3, 4}
    Names <- TwoNames
    Payloads <- TwoPayloads
    Garbage = Garbage
    None = None
    Link = Link
    Calls <- SomeCalls
    MaxIncidents = 2
INVARIANTS
    SavedRecordStays
    SavedRecordIsDurable
    ReadIsOneMoment
    SavedRecordIsReadable
PROPERTY
    ImplementsRegister
