CONSTANTS
    Clients = {c1, c2}
    Feeds = {"f", "g"}
    Documents <- TheDocuments
    Notes = {"n"}
    NoteUrl = "noteurl"
    Texts = {"page"}
    Patches <- ThePatches
    OldItems <- TheOldItems
    NULL = NULL
    MaxCalls = 4
    MaxCrashes = 1
SPECIFICATION Spec
INVARIANTS
    TypeOK
    IndexIsCurrent
    FlagsAreWanted
    
    OrphansAreLate
    
    NoDuplicateArticles
    ListsMatchCounts
CHECK_DEADLOCK FALSE
