SPECIFICATION Spec
CONSTANTS
    NoValue = NoValue
    Dps <- MCDps
    Transition <- MCTransition
    Values <- MCValues
    MaxDp = 28
    SPACING = 0
    TIMEOUT = 1
    MAX_RETRIES = 2
    MAX_RECONCILIATION_ATTEMPTS = 2
    Presets <- MCPresets
    NONE = "None"
    Looks <- MCLooks
    MaxAhead = 3
INVARIANTS
    ChoicePrevails
    PowerPrevails
PROPERTIES
    ReportsNotAnswered
