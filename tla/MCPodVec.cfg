CONSTANTS
    N = 3
    PrefixMax = 6
    UsizeMax = 5
    Elem = {"zero", "one", "bad"}
    Zero = "zero"
    Legal = {"zero", "one"}
    Given = {"zero", "one"}
    MaxInput = 4
SPECIFICATION Spec
INVARIANTS
    VacatedSlotsAreZero
    RetainLosesNothing
PROPERTIES
    ValidStaysValid
    ImplementsBoundedVec
