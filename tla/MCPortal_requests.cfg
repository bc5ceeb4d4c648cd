SPECIFICATION FairSpec
CONSTANTS
    Tasks = {t1, t2}
    Pages = {p1}
    Reconciler = reconciler
    None = none
    Dbs = {"postgres"}
    Limit <- OneEach
    PoolSize = 2
    Requests <- MCRequests
INVARIANTS
    TypeOK
    SharedIsAccountedFor
    EffectsAreChecked
    RefusedMeansUntouched
PROPERTY RequestsAreAnswered
