CONSTANTS
    Feeds = {f1}
    Groups = {g1, g2}
    Intervals = {1, 2}
    NULL = NULL
    DayCap = 8
    MaxFailures = 3
    MaxLate = 0
SYMMETRY Symmetry
SPECIFICATION Spec
INVARIANTS
    TypeOK
    WaitWithinPolicy
    NeverDueEarly
    QuietWhenDisabled
PROPERTY BackoffNeverShrinks
CHECK_DEADLOCK FALSE
