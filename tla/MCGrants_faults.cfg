SPECIFICATION FairSpec
CONSTANTS
    Grants = {g1}
    Workers = {w1, w2}
    Reconciler = rec
    None = none
    DbOf <- OnePostgres
    LateEffects = TRUE
    MaxFaults = 2
INVARIANTS
    TypeOK
    TerminalIsClean
    IInv
PROPERTIES
    AccessOnlyShrinks
    DueIsFinished
    LeftoverIsNoticed
    ImplementsAccess
