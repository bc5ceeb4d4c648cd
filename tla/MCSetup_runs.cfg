SPECIFICATION FairSpec
CONSTANTS
    Dbs = {postgres, clickhouse}
    None = none
    MaxFaults = 4
INVARIANTS
    TypeOK
    IdentityOutlivesRoot
    ProbesGoBeforeRoot
PROPERTIES
    SetupConverges
