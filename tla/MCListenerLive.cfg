SPECIFICATION Spec
CONSTANTS
    Conns = {c1, c2}
    MaxRequests = 1
    MaxConnections = 2
PROPERTY
    ShutdownCompletes
CHECK_DEADLOCK FALSE
