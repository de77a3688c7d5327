SPECIFICATION MCSpec
CONSTANTS
    Conns = {c1}
    MaxRequests = 2
    MaxScript = 3
    Sendable <- MCSendable
INVARIANTS
    ConnTypeOK
    SingleOperation
    RequestBound
    AtMostOneRequestAfterClosing
    AnswersAreInOrder
    OnlyEarlyRequestsAreLost
    EndIsAnnounced
    RejectedClientIsTold
PROPERTIES
    EveryConnectionCloses
    ImplementsSession
CHECK_DEADLOCK FALSE
