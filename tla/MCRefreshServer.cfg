CONSTANTS
    Feeds = {f1, f2}
    Groups = {}
    Intervals = {1}
    NULL = NULL
    DayCap = 2
    MaxFailures = 3
    MaxLate = 1
    Server = {srv}
    Ffi = {}
    OnDemand = {}
    BatchLimit = 1
    MaxCrashes = 0
SPECIFICATION JobSpec
INVARIANTS
    JobTypeOK
    CountIsConsecutive
    JobAgreesWithFeed
PROPERTY NoFeedStarves
CHECK_DEADLOCK FALSE
