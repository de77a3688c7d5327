SPECIFICATION Spec
CONSTANTS
    Conns = {c1, c2}
    MaxRequests = 1
    MaxConnections = 2
PROPERTY
    ForceReachesEverySession
CHECK_DEADLOCK FALSE
