\* Two addresses, two store operations at a time.
SPECIFICATION SubscriptionsSpec
CONSTANTS
    u1 = u1
    u2 = u2
    Urls = {u1, u2}
    NoUrl = NoUrl
    t1 = t1
    t2 = t2
    Tasks = {t1, t2}
    FeedLimit = 2
    MaxFolders = 2
    MaxOps = 3
    MaxFailures = 0
INVARIANTS ExportIsLossless
CHECK_DEADLOCK FALSE
