SPECIFICATION Spec
CONSTANTS
    Callers = {alice, bob}
    Assets = {usdt}
    Labels = {core, hedge}
    Authorities = {alice, bob}
    Salts = {salt}
    Foreign = {clone}
    None = zero
INVARIANTS
    RegistryConsistent
    PredictionKept
CHECK_DEADLOCK FALSE
