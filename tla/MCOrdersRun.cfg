SPECIFICATION RunSpec
CONSTANTS
    Conns = {1, 2}
    Calls <- TwoCalls
    MaxRequests = 2
    MaxScript = 1
    Sendable <- MCSendable
INVARIANTS
    ReturnedMeansExecuted
PROPERTY
    ProcessEnds
CHECK_DEADLOCK FALSE
