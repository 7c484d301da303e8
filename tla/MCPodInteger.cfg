CONSTANTS
    Radix = 4
    Width = 2
    Signed = TRUE
SPECIFICATION IntegerSpec
INVARIANTS
    UpdatesAreNotLost
