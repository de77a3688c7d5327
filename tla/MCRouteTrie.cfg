SPECIFICATION TextSpec
CONSTANTS
    get = get
    put = put
    MaxDepth = 2
    MaxLength = 5
    Texts <- MCTexts
    Words <- MCWords
    IntWords <- MCIntWords
    FloatWords <- MCFloatWords
    Names <- MCNames
    Methods = {get, put}
    Patterns <- MCPatterns
    Paths <- MCPaths
    MaxCalls = 3
SYMMETRY Symmetry
INVARIANTS
    LookupIsExact
    NoAmbiguousSiblings
    OrderDoesNotMatter
    ListingIsReadable
    SlashesOnlySeparate
PROPERTY
    AddIsConservative
CHECK_DEADLOCK FALSE
