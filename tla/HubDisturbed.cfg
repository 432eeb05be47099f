SPECIFICATION Spec
CONSTANTS
    power = power
    speed = speed
    v1 = v1
    v2 = v2
    NoValue = NoValue
    Dps <- MCPower
    Transition <- MCPower
    Ignored <- MCNone
    Values <- MCValues
    SPACING = 2
    TIMEOUT = 1
    MAX_RETRIES = 2
    MAX_RECONCILIATION_ATTEMPTS = 2
    MaxQueue = 2
    Disturbances <- MCAll
SYMMETRY MCSymmetry
INVARIANTS
    TypeOK
    InFlightIsHead
    OneReadbackNext
    ReadbackHasReason
    AttemptsClear
    HandshakeHasRequest
    AuthorityFromReadback
    IInv
PROPERTIES
    QueueIsFifo
    PendingIsKept
    KeepsTransitions
