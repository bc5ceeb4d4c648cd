SPECIFICATION Spec
CONSTANTS
    t1 = t1
    t2 = t2
    odd = odd
    s1 = s1
    s2 = s2
    Tables = {t1, t2, odd}
    Sequences = {s1, s2}
    Plain = {t1, t2, s1, s2}
    Requests <- MCRequests
    TtlMin = 1
    TtlMax = 3
    Free = free
    Gone = gone
    None = none
    MaxDdl = 2
INVARIANTS
    TypeOK
    OnlyWhatWasAsked
    IssuedIsComplete
    InsertsWork
