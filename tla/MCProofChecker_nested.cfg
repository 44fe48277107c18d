SPECIFICATION ValidatingSpec
CONSTANTS
    Names = {p, q}
    Formulas <- MCFormulas
    Normalize <- MCNormalize
    Files = {f, g}
    EoAssertions = TRUE
    MaxSize = 3
    MaxAssumptions = 2
    MaxBindings = 1
CONSTRAINT Bounds
SYMMETRY Symmetry
INVARIANTS
    TypeOK
    ProofsCovered
    ScopesAligned
    AssumptionsChecked
    Validated
CHECK_DEADLOCK FALSE
