CONSTANTS
    Texts <- MCTexts
SPECIFICATION ScanSpec
INVARIANTS
    SetOffIdentifiersAreFound
    FindingsAreWholeTokens
    OneWrongDigitIsNoticed
CHECK_DEADLOCK FALSE
