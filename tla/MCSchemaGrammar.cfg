CONSTANTS
    Declarable <- MCDeclarable
    MaxDepth = 5
    MaxFields = 2
SPECIFICATION GrammarSpec
INVARIANTS
    StoredAsDeclared
CHECK_DEADLOCK FALSE
