CONSTANTS
    Radix <- MCRadix
    UsizeMax <- MCUsizeMax
    Inline <- MCInline
    Tails <- MCTails
    HeaderSize <- MCHeaderSize
    Slot <- MCSlot
    Accounts <- MCAccounts
    InlineValues <- MCInlineValues
    Offers <- MCOffers
    FullValidation = TRUE
    Sizes = {8, 11, 15}
    Spare = 99
SPECIFICATION Spec
INVARIANTS
    KeptTailsSurvive
    CopiesStayInBounds
    FailureLeavesBytes
    WriterStaysConsistent
    ProjectionIsTheCommittedSize
PROPERTIES
    VacatedBytesAreZeroed
    ImplementsValue
