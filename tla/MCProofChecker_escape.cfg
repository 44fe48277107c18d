SPECIFICATION FreeSpec
CONSTANTS
    Names = {p, q}
    Formulas <- MCFormulas
    Normalize <- MCNormalize
    Files = {}
    EoAssertions = TRUE
    MaxSize = 3
    MaxAssumptions = 2
    MaxBindings = 1
CONSTRAINT Bounds
INVARIANT VisibleCovered
CHECK_DEADLOCK FALSE
