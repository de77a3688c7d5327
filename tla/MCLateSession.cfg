SPECIFICATION ServiceSpec
CONSTANTS
    Conns = {c1, c2}
    MaxRequests = 1
    MaxConnections = 2
INVARIANT
    GracefulStopIsComplete
