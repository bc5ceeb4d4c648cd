SPECIFICATION FairSpec
CONSTANTS
    Threads = {t1, t2}
    None = none
    Disturbed = TRUE
    MaxTokens = 3
INVARIANTS
    TypeOK
    LiveTokensAreKnown
PROPERTIES
    ForbiddenIsExplained
    CallsEnd
