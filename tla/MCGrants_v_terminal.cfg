SPECIFICATION Spec
CONSTANTS
    Grants = {g1}
    Workers = {w1, w2}
    Reconciler = rec
    None = none
    DbOf <- OnePostgres
    LateEffects = FALSE
    MaxFaults = 0
PROPERTIES
    TerminalIsFinal
