SPECIFICATION HSpec
CONSTANTS
    Terms <- MCTerms
    Kind <- KindOf
    Kids <- ChildrenOf
    IsGround <- GroundTerm
    IsEvaluatable <- EvaluatableTerm
    Make <- MkExpr
    Interpret <- RunProgram
    LiteralOp <- RunOperator
    LiteralOps <- OperatorKinds
    True <- TrueTerm
    Null <- NullTerm
    Programs <- RecursivePrograms
    Answers <- MCAnswers
    Meaning <- Evaluation
    Inputs <- RecursiveInputs
INVARIANT ResultRight
CHECK_DEADLOCK FALSE
