SPECIFICATION FreshSpec
CONSTANTS
    Names = {x, y}
    Exprs = {a, b, c, d, e}
    Rules = {r}
    RuleSymTable = TRUE
    Null = Null
    MaxDepth = 2
    MaxDecls = 4
    MaxChain = 5
CONSTRAINT Bounds
SYMMETRY Symmetry
INVARIANTS
    UndoExact
PROPERTY ImplementsScopedEnv
CHECK_DEADLOCK FALSE
