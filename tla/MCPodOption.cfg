CONSTANTS
    a = a
    b = b
    Cell <- MCCell
    TagMax = 3
    Payload <- MCPayload
    Legal <- MCLegal
    Given <- MCLegal
SPECIFICATION OptionSpec
INVARIANTS
    WrittenOptionsAreCanonical
    EqualOptionsHashEqual
PROPERTIES
    ImplementsOption
