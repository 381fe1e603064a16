CONSTANTS
    Feeds = {f}
    Items <- TwoItems
    Minutes = {0}
    Policies <- Loud
    Refreshers = {r}
    Pollers = {p1, p2}
    ListLimit = 2
    LongInterval = 1
    NULL = NULL
    MaxEvents = 2
    MaxCrashes = 1
    MaxChanges = 0
SPECIFICATION FairSpec
INVARIANT NotifiedAtMostOnce
PROPERTY ImplementsQueue
CHECK_DEADLOCK FALSE
