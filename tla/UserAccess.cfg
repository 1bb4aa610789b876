SPECIFICATION Spec
CONSTANTS
    Word = 10
    UserBase = 3
    UserLimit = 8
    MaxPath = 3
    UnameMin = 3
    UnameSize = 2
INVARIANTS AccessInsideWindow WritesInsideBuffer StringExact
