SPECIFICATION IngesterSpec
CONSTANTS
    K = 2
    MaxStamp = 2
    MaxArrivals = 4
    U64 = 256
    Rejected = Rejected
    Malformed = Malformed
    Fill <- MCFill
    Stamp <- MCStamp
    RawEvent <- MCRawEvent
    RawLine <- MCRawLine
    Canon <- MCCanon
INVARIANTS
    IngesterTypeOK
    OneCopyPerEvent
    ConflictsAreReal
    Accounting
    GapsCountMissing
    QuarantinedOnce
PROPERTIES
    ArrivalsAdvanceFrontier
    ImplementsSequencer
