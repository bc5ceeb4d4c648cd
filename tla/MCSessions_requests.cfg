SPECIFICATION FairSpec
CONSTANTS
    Sessions = {s1, s2}
    Threads = {t1, t2}
    None = none
    MaxFaults = 1
INVARIANTS
    TypeOK
    TokensAreOwned
    RemovedRightsAreNoticed
PROPERTIES
    EndedStaysEnded
    AgedSessionsEnd
