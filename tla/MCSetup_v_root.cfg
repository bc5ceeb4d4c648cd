SPECIFICATION Spec
CONSTANTS
    Dbs = {postgres, clickhouse}
    None = none
    MaxFaults = 2
INVARIANT NoRootIsLeft
