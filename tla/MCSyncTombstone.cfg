CONSTANTS
    Devices = {a, b}
    Writers = {a}
    Feeds = {f}
    Groups = {}
    Notes = {}
    Values = {x}
    NULL = NULL
    Synced = {}
    Unjournaled = FALSE
    MaxEvents = 3
    Calls = {c1}
    BatchLimit = 2
    MaxAttempts = 1
    Second = 2
    RecordsMayFail = FALSE
    MaxCrashes = 0
SPECIFICATION Spec
INVARIANT TombstonesAreReplayed
CHECK_DEADLOCK FALSE
