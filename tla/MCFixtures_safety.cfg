SPECIFICATION GeneratorSpec
CONSTANTS
    Dollar = 1000000
    I64Max = 2000000000
    I128Max = 2147483647
    Whole = 100000
    PriceDigits = 6
    QtyDigits = 5
    Grain = 2
    Precision = 5000
    NotFinite = NotFinite
    CandidateSpec <- MCStandardSpec
    HlEvent <- MCHlEvent
    PmEvent <- MCPmEvent
    Lines <- MCLines
    SwapEvery <- MCSwapEvery
    DupEvery <- MCDupEvery
    Rounds = 25
    BtcTicks = {133, 134}
    EthTicks = {68, 81}
    PmTicks = {100, 5001, 9900}
    Lots = {1, 10, 100}
    Fees = {100, 10000}
    Sizes = {1, 20}
    MatchedBase = 133
    PoisonDollars <- MCPoisonDollars
INVARIANTS
    EventsMeanWhatWasDrawn
    StreamIsAsPlanted
    MatchedConserves
