SPECIFICATION NestedSpec
CONSTANTS
    Names = {p}
    Formulas <- MCFormulas
    Normalize <- MCNormalize
    Files = {f, g}
    EoAssertions = TRUE
    MaxSize = 3
    MaxAssumptions = 2
    MaxBindings = 1
CONSTRAINT Bounds
INVARIANT AssumptionsChecked
CHECK_DEADLOCK FALSE
