SPECIFICATION Spec
CONSTANTS
    Dollar = 1000
    I64Max = 400
    I128Max = 10000000
    Whole = 10
    PriceDigits = 3
    QtyDigits = 1
    Grain = 500
    Precision = 5000
    NotFinite = NotFinite
    CandidateSpec <- MCCandidateSpec
    HlEvent <- MCHlEvent
    PmEvent <- MCPmEvent
INVARIANTS
    TypeOK
    OneEconomyPerInstrument
    HlFillsAreExact
    CanonicalFillsAreValid
    ComplementsAgree
    FeeIsNearest
CHECK_DEADLOCK FALSE
