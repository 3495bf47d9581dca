SPECIFICATION PipelineSpec
CONSTANTS
    K = 2
    MaxArrivals = 10
    U64 = 256
    Rejected = Rejected
    Malformed = Malformed
    Blank = Blank
    Dollar = 1000
    I64Max = 200
    I128Max = 100000
    Fill <- MCFill
    Stamp <- MCStamp
    RawEvent <- MCRawEvent
    RawLine <- MCRawLine
    Canon <- MCCanon
    Specs <- MCSpecs
    Input <- MCInput
INVARIANTS
    VenuesArePublishedAlone
    FirstCopyInFileWins
    NoTextIsLost
    TapeAppliesButForOverflow
    PositionsIndependentOfInterleave
    BooksBalance
