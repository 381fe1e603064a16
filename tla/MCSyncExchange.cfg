CONSTANTS
    Devices = {a, b}
    Writers = {a, b}
    Feeds = {}
    Groups = {}
    Notes = {n}
    Values = {x}
    NULL = NULL
    Synced = {}
    Unjournaled = FALSE
    MaxEvents = 2
    Calls = {c1, c2}
    BatchLimit = 1
    MaxAttempts = 1
    Second = 2
    RecordsMayFail = FALSE
    MaxCrashes = 0
SPECIFICATION Spec
SYMMETRY Symmetry
INVARIANTS
    ProcessedIsUploaded
    
CHECK_DEADLOCK FALSE
