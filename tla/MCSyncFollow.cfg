CONSTANTS
    Devices = {a, b}
    Writers = {a}
    Feeds = {f}
    Groups = {g}
    Notes = {n}
    Values = {x, y}
    NULL = NULL
    Synced = {f, g}
    Unjournaled = FALSE
    MaxEvents = 2
    Calls = {c1}
    BatchLimit = 1
    MaxAttempts = 1
    Second = 3
    RecordsMayFail = FALSE
    MaxCrashes = 1
SPECIFICATION Spec
INVARIANTS
    ProcessedIsUploaded
    
    CaughtUpDevicesAgree
CHECK_DEADLOCK FALSE
