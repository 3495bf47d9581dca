SPECIFICATION Spec
CONSTANTS
    K = 2
    MaxSeq = 3
    MaxStamp = 2
    Fill <- MCFill
    Stamp <- MCStamp
INVARIANTS
    TypeOK
    TapeInSortKeyOrder
    PublishedIsFinal
    DrainLeavesOnlyUnsafe
    SealedTapeIsComplete
PROPERTIES
    ImplementsTape
