SPECIFICATION Spec
CONSTANTS
    Grants = {g1, g2}
    Workers = {w1, w2}
    Reconciler = rec
    None = none
    DbOf <- OneClickhouse
    LateEffects = FALSE
    MaxFaults = 0
SYMMETRY FullSymmetry
INVARIANTS
    ActiveIsBacked
    PasswordIsTracked
