SPECIFICATION Spec
CONSTANTS
    Ids = {a, b, c, d}
    Arities = {1, 2}
    Null = Null
    MaxHeld = 1
    MaxCount = 3
    MaxNodes = 8
CONSTRAINT Bounds
SYMMETRY Symmetry
INVARIANT Shared
CHECK_DEADLOCK FALSE
