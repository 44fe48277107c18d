SPECIFICATION Spec
CONSTANTS
    Names = {x, y}
    Exprs = {a, b}
    Rules = {r}
    RuleSymTable = TRUE
    Null = Null
    MaxDepth = 2
    MaxDecls = 3
    MaxChain = 4
CONSTRAINT Bounds
SYMMETRY Symmetry
INVARIANTS
    TypeOK
    CtxMonotone
    DeclsBound
CHECK_DEADLOCK FALSE
