SPECIFICATION FairHarness
CONSTANTS
    K = 2
    MaxArrivals = 6
    MaxClock = 3
    U64 = 256
    Rejected = Rejected
    Malformed = Malformed
    Blank = Blank
    Fill <- MCFill
    Stamp <- MCStamp
    RawEvent <- MCRawEvent
    RawLine <- MCRawLine
    Canon <- MCCanon
    Source <- MCSource
INVARIANTS
    TicksFinishTheTape
    ReplayReproducesTape
PROPERTIES
    Terminates
