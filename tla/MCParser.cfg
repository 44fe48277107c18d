SPECIFICATION Spec
CONSTANTS
    LookupVars = TRUE
    RuleSymTable = TRUE
    Oracles = {"oracle"}
    Texts <- MCTexts
    Asts <- MCAsts
    Whole <- MCWhole
INVARIANT NoAbort
INVARIANT CommandsEnd
INVARIANT TextsNotStale
INVARIANT ListsAsSequences
INVARIANT DefinitionsClosed
PROPERTY ReadsAsWritten
PROPERTY ScopesRestored
CHECK_DEADLOCK FALSE
