CONSTANTS
    N = 2
    TextCap = 3
    Texts <- MCTexts
    PrefixMax = 5
    UsizeMax = 4
    Byte = {0, 1, 2}
    Chunk = 3
SPECIFICATION Spec
INVARIANTS
    WireIsCanonical
    ReadersAcceptCanonicalOnly
