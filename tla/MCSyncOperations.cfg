CONSTANTS
    Devices = {a, b}
    Writers = {a}
    Feeds = {f}
    Groups = {g}
    Notes = {n}
    Values = {x}
    NULL = NULL
    Synced = {}
    Unjournaled = TRUE
    MaxEvents = 2
    Calls = {c1}
    BatchLimit = 1
    MaxAttempts = 1
    Second = 2
    RecordsMayFail = FALSE
    MaxCrashes = 0
SPECIFICATION FairSpec
INVARIANT TypeOK
PROPERTY PendingReachCloud
CHECK_DEADLOCK FALSE
