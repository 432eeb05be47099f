SPECIFICATION FairSpec
CONSTANTS
    power = power
    speed = speed
    v1 = v1
    v2 = v2
    NoValue = NoValue
    Dps <- MCPower
    Transition <- MCPower
    Ignored <- MCNone
    Values <- MCValues
    SPACING = 0
    TIMEOUT = 1
    MAX_RETRIES = 2
    MAX_RECONCILIATION_ATTEMPTS = 2
    MaxQueue = 2
    Disturbances <- MCNone
INVARIANTS
    AttemptsBounded
    RouteHasReadback
PROPERTIES
    OneShotNotRetried
    LostReportIsReadBack
    ReconciliationEnds
    HandshakeEnds
    QueueMoves
