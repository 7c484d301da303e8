CONSTANTS
    N = 4
    PrefixMax = 6
    UsizeMax = 5
    Elem = {0, 1, 2, 3, 9}
    Zero = 0
    Legal = {0, 1, 2, 3, 9}
    Chars <- MCChars
    Continuation = {9}
    Offered <- MCOffered
SPECIFICATION Spec
INVARIANTS
    StaysUtf8
    VacatedBytesAreZero
PROPERTIES
    ImplementsBoundedText
