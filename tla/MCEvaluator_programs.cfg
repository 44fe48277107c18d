SPECIFICATION HSpec
CONSTANTS
    Terms <- MCTerms
    Kind <- KindOf
    Kids <- ChildrenOf
    IsGround <- GroundTerm
    IsEvaluatable <- EvaluatableTerm
    Make <- MkExpr
    Interpret <- RunProgram
    LiteralOp <- RunOperator
    LiteralOps <- OperatorKinds
    True <- TrueTerm
    Null <- NullTerm
    Programs <- MCPrograms
    Answers <- MCAnswers
    Meaning <- Evaluation
    Inputs <- MCInputs
INVARIANTS TypeOK FramesAligned TrieKept InterpretedOnce ResultRight
PROPERTY Terminates
CHECK_DEADLOCK FALSE
