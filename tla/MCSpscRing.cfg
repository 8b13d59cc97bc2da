CONSTANTS
    Capacity = 4
    Values = {a, b, c}
    Erase = TRUE
    Nothing = Nothing
SPECIFICATION Spec
INVARIANTS
    NoSlotRace
    PreflightHonoured
    SecretsErased
PROPERTY RingIsFifo
