SPECIFICATION FairSpec
CONSTANTS
    Calls = {c1, c2, c3}
    MaxFaults = 3
INVARIANTS
    TypeOK
    ReturnConfirms
    LeftoversHaveACause
PROPERTIES
    HelperAccessEnds
\* The calls of the instance come to an end.
CHECK_DEADLOCK FALSE
