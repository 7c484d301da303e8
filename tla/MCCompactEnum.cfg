CONSTANTS
    Radix = 5
    UsizeMax = 20
    TagSize = 1
    Variants <- MCVariants
    Accounts <- MCAccounts
    Patches <- MCPatches
SPECIFICATION Spec
INVARIANTS
    AcceptedBytesAreCanonical
    VacatedBytesAreZeroed
PROPERTIES
    ImplementsVariantCell
