CONSTANTS
    Clients = {srv, app}
    Bridge = {app}
    Urls = {1, 2, 3}
    Words <- TheWords
    CommentTitles = {}
    SiteUrls <- TheSiteUrls
    ServerPaths <- ThePaths
    BridgePaths <- ThePaths
    Web <- TheWeb
    Inputs = {1, 2}
    Titles = {"mine"}
    News = News
    LowerNews = LowerNews
    Names = {News, LowerNews}
    Lower <- TheLower
    Alphabet <- TheAlphabet
    Blank = Blank
    Documents <- TheDocuments
    NULL = NULL
    MaxCalls = 3
    MaxCrashes = 1
SPECIFICATION Spec
INVARIANTS
    TypeOK
    RankingIsDeterministic
    ImportsAreComplete
    ArticlesAtOnce
    GroupsAreDistinct
    
CHECK_DEADLOCK FALSE
