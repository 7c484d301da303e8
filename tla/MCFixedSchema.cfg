CONSTANTS
    Type <- MCType
    Root = 8
    Cell <- MCCell
    Accounts <- MCAccounts
SPECIFICATION Spec
INVARIANTS
    OpenViewConverts
    DiagnoseAgreesWithReaders
    EqualMeansShownAlike
    RefusedConversionDropsWhatItBuilt
PROPERTIES
    InitializeIsAllOrNothing
