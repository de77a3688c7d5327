SPECIFICATION ServiceSpec
CONSTANTS
    Conns = {c1}
    MaxRequests = 1
    MaxConnections = 1
INVARIANT
    ForcedCloseIsDone
