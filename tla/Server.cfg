\* Each part of the server, and the pacing of requests, on its own small
\* instance; MCServer says which takes steps.
SPECIFICATION Spec
SYMMETRY Symmetry
CONSTANTS
    s1 = s1
    k1 = k1
    k2 = k2
    h1 = h1
    h2 = h2
    NoKey = NoKey
    Subscriptions = {s1}
    Keys = {k1, k2}
    Handlers = {h1, h2}
    Grace = 1
    MaxClock = 2
    MaxMishaps = 1
    r1 = r1
    r2 = r2
    Requests = {r1, r2}
    Limit = 1
    Window = 2
    MaxTime = 3
    MaxArrivals = 3
    MaxVersion = 1
    MaxLimiterFaults = 1
    v1 = v1
    v2 = v2
    Vaults = {v1, v2}
    MaxRuns = 2
    MaxPushes = 1
    MaxStorageFaults = 2
    i1 = i1
    p1 = p1
    p2 = p2
    VaultIds = {i1}
    Processes = {p1, p2}
    MaxPuts = 3
    MaxFileFaults = 2
    FeedHosts <- TwoHosts
    NoHost = "none"
    Folder = {1, 2}
    Concurrency = 2
    Interval = 1
    MaxPause = 2
    Asks = {1, 3}
    MaxTicks = 5
    MaxStreak = 4
    MaxPasses = 2
INVARIANTS
    ServerTypeOK
    MintedOnce PaidHasLicence CancelledLosesLicences
    TwiceTheLimit CounterWillReset BodiesAreWhole
    NoVaultLost CleanReportIsTrue
    ReadsAreWhole AnsweredIsStored
    BatchesSpareHosts PassReachesFeeds
PROPERTIES PausesAreHonoured
CHECK_DEADLOCK FALSE
