SPECIFICATION Spec
CONSTANTS
    NoValue = NoValue
    Dps <- MCDps
    Transition <- MCTransition
    Values <- MCValues
    MaxDp = 8
    SPACING = 0
    TIMEOUT = 1
    MAX_RETRIES = 2
    MAX_RECONCILIATION_ATTEMPTS = 2
    AllowWhileOff = FALSE
    MaxAhead = 3
    AmidReadback = FALSE
    OffWhenDark = FALSE
INVARIANTS
    RequestsPrevail
    SettingsPrevail
    NoFlash
PROPERTIES
    SettingNeedsPower
