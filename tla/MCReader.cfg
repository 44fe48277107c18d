SPECIFICATION Spec
CONSTANTS
    UintMax = 15
    ColumnMax = 15
    BufferSize = 2
    LexLet = TRUE
    MaxPeeked = 2
    Texts <- MCTexts
    Printables <- MCPrintables
    Operands <- MCOperands
INVARIANT TokensAsSpecified
INVARIANT LocationRight
INVARIANT DeliveredInOrder
INVARIANT PrintedReadsBack
INVARIANT StringsRoundTrip
INVARIANT ExtractSelects
INVARIANT DivisionRecomposes
INVARIANT BitVectorsWrap
INVARIANT ValueHasOpType
PROPERTY ScanEnds
CHECK_DEADLOCK FALSE
