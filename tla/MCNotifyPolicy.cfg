CONSTANTS
    Feeds = {f, g}
    Items <- TheItems
    Minutes = {0, 1}
    Policies <- ThePolicies
    Refreshers = {r}
    Pollers = {}
    ListLimit = 2
    LongInterval = 1
    NULL = NULL
    MaxEvents = 2
    MaxCrashes = 0
    MaxChanges = 1
SPECIFICATION Spec
INVARIANTS
    TypeOK
    NotifiedAtMostOnce
    DuplicatesWereDecided
PROPERTY IntervalIsKept
SYMMETRY FeedsAreAlike
CHECK_DEADLOCK FALSE
