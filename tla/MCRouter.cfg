SPECIFICATION RouterSpec
CONSTANTS
    users = users
    admin = admin
    t1 = t1
    t2 = t2
    list = list
    seven = seven
    id = id
    key = key
    Words <- MCWords
    IntWords <- MCIntWords
    FloatWords <- MCIntWords
    Names = {id, key}
    Methods = {"get", "post"}
    Patterns <- MCPatterns
    Paths <- MCPaths
    MaxCalls = 6
    Controllers = {users, admin}
    Routes <- MCRoutes
    Threads = {t1, t2}
    Requests <- MCRequests
SYMMETRY Symmetry
INVARIANTS
    RefsAreExact
    UnavailableMeansReleased
    AnsweredByItsRoute
PROPERTY
    GoneForGood
