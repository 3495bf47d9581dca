SPECIFICATION FairSpec
CONSTANTS
    K = 2
    MaxSeq = 2
    MaxStamp = 2
    Fill <- MCFill
    Stamp <- MCStamp
PROPERTIES
    SafeFillsArePublished
    FlushPublishesAll
