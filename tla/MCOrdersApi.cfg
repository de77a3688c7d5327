SPECIFICATION MCSpec
CONSTANTS
    IntBits = 3
    Int64Bits = 4
    DoubleLimit = 881
    Words <- MCWords
    IntWords <- MCIntWords
    FloatWords <- MCFloatWords
    Names = {"order_id", "random_string"}
    Methods <- MCMethods
    Patterns <- MCPatterns
    Paths <- MCPaths
    MaxCalls = 8
    Controllers = {"orders"}
    Routes <- MCRoutes
    Threads = {"io"}
    Requests <- MCRequests
    Texts <- MCTexts
    Tokens <- MCTokens
    Extremes <- MCExtremes
    MaxLength = 4
INVARIANTS
    ClientIsUnderstood
    IdsAreReadOrRefused
    NoRouteIsHidden
    ImplementsTypedParams
PROPERTY
    ImplementsRouter
