SPECIFICATION Spec
CONSTANTS
    NoValue = NoValue
    Dps <- MCDps
    Transition <- MCTransition
    Values <- MCValues
    Speeds <- MCSpeeds
    MaxDp = 5
    SPACING = 0
    TIMEOUT = 1
    MAX_RETRIES = 2
    MAX_RECONCILIATION_ATTEMPTS = 2
    MaxAhead = 3
    AmidReadback = FALSE
INVARIANTS
    AxesPrevail
    SpeedPrevails
PROPERTIES
    SettingNeedsPower
