SPECIFICATION FairSpec
CONSTANTS
    Clients = {c1, c2}
    Nobody = nobody
    MaxTries = 2
    MaxFaults = 2
INVARIANTS
    TypeOK
    OnlySlowLoginsSurvive
PROPERTIES
    ExpiredRoleGoes
    TornDownRoleGoes
    KeepsAccess
CHECK_DEADLOCK FALSE
