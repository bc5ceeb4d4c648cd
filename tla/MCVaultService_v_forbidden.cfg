SPECIFICATION Spec
CONSTANTS
    Threads = {t1, t2}
    None = none
    Disturbed = FALSE
    MaxTokens = 4
PROPERTY SecondForbiddenIsReal
