SPECIFICATION MatchSpec
CONSTANTS
    DimNames = {"m", "n"}
    Inf = 9
    Malformed = Malformed
    Null = Null
    Calls <- MCCalls
INVARIANTS
    MatchIsSound
    DeterminedMatchIsFound
    DimListsDecided
    SchemaMatchesItself
    BuiltSchemaFits
    BuiltSchemaIsReadable
CHECK_DEADLOCK FALSE
