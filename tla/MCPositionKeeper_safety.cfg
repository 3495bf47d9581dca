SPECIFICATION Spec
CONSTANTS
    Dollar = 200
    I64Max = 200
    I128Max = 50000
    MaxFills = 4
    Specs <- MCSpecs
    FillInput <- MCFillInput
INVARIANTS
    TypeOK
    CashIdentity
    NeverInvalidPosition
    EntryPriceInRange
    NetQtyHasMirror
    DeltaAccountsForFill
