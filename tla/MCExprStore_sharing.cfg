SPECIFICATION Spec
CONSTANTS
    Ids = {a, b, c, d}
    Arities = {2}
    Null = Null
    MaxHeld = 2
    MaxCount = 3
    MaxNodes = 8
CONSTRAINT Bounds
SYMMETRY Symmetry
INVARIANTS
    TypeOK
    NoDangling
    CountsCover
    TrieExact
PROPERTY ImplementsTermMap
CHECK_DEADLOCK FALSE
