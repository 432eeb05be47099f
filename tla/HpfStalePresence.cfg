SPECIFICATION Spec
CONSTANTS
    NoValue = NoValue
    Dps <- MCDps
    Transition <- MCTransition
    Values <- MCValues
    Moved <- MCMoved
    Degrees <- MCDegrees
    Widths <- MCWidths
    MaxDp = 48
    SPACING = 0
    TIMEOUT = 1
    MAX_RETRIES = 2
    MAX_RECONCILIATION_ATTEMPTS = 2
    REST = 0
    TRAVEL = 1
    DEBOUNCE = 2
    MaxAhead = 0
    MaxReports = 1
    SensedWhileOff = TRUE
    Parts <- MCPresence
INVARIANTS
    PresenceFresh
