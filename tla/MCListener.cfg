SPECIFICATION Spec
CONSTANTS
    Conns = {c1, c2, c3}
    MaxRequests = 1
    MaxConnections = 2
SYMMETRY Symmetry
INVARIANTS
    TypeOK
    RegistryMatchesSessions
    DrainIsNoticed
    OneLateSession
PROPERTIES
    ImplementsDrain
CHECK_DEADLOCK FALSE
