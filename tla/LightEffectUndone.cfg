SPECIFICATION Spec
CONSTANTS
    NoValue = NoValue
    Dps <- MCDps
    Transition <- MCTransition
    Values <- MCValues
    Effects <- MCTwo
    Levels <- MCTwo
    Colours <- MCTwo
    Calls <- MCEffects
    MaxDp = 13
    SPACING = 0
    TIMEOUT = 1
    MAX_RETRIES = 2
    MAX_RECONCILIATION_ATTEMPTS = 2
    MaxAhead = 1
    Crossing = FALSE
    Overlapping = TRUE
INVARIANTS
    EffectPrevails
