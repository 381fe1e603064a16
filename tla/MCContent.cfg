CONSTANTS
    Server = {srv}
    Ffi = {app}
    Overlap = FALSE
    NULL = NULL
    MaxVersion = 3
    MaxRows = 3
    MaxCrashes = 2
SPECIFICATION FairSpec
INVARIANTS
    TypeOK
    ValidatorMatchesContent
PROPERTY NewContentArrives
CHECK_DEADLOCK FALSE
