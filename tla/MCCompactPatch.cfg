CONSTANTS
    Radix <- MCRadix
    UsizeMax <- MCUsizeMax
    Inline <- MCInline
    Tails <- MCTails
    HeaderSize <- MCHeaderSize
    Slot <- MCSlot
    Accounts <- MCAccounts
    InlineValues <- MCInlineValues
    Offers <- MCOffers
    FullValidation = FALSE
    Patches <- MCPatches
    Planned <- MCPlanned
SPECIFICATION PatchSpec
INVARIANTS
    FailedCallLeavesNoTrace
    PreflightIsExact
    SuccessfulCallStoresValue
    PlannedUpdateSucceeds
    AccountStaysReadable
