\* Each part of the browser on its own small instance; MCBrowser says which takes steps.
SPECIFICATION Spec
CONSTANTS
    p1 = p1
    p2 = p2
    Passphrases = {p1, p2}
    MaxOpens = 3
    MaxKeyMishaps = 2
    Ids = {1, 2, 3}
    MaxMoves = 3
    s1 = s1
    Settings = {s1}
    NoRow = NoRow
    MaxChanges = 2
    MaxTurns = 1
    u1 = u1
    u2 = u2
    Urls = {u1, u2}
    NoUrl = NoUrl
    t1 = t1
    t2 = t2
    Tasks = {t1, t2}
    FeedLimit = 2
    MaxFolders = 2
    MaxOps = 3
    MaxFailures = 1
INVARIANTS
    BrowserTypeOK KeysOpenData StoredKeyOpensVault
    TwinsAreCollapsed CalmActsStick
    OwnChangeStands NoCopyComesBack
PROPERTIES
    OnboardedVaultsSurvive DedupeLeavesOne
CHECK_DEADLOCK FALSE
