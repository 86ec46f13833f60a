\* One subscription and one key: the licence records under a browser with its token; and
\* two refreshes of a feed whose item has a date.
SPECIFICATION MCSpec
CONSTANTS
    s1 = s1
    k1 = k1
    h1 = h1
    c1 = c1
    c2 = c2
    NoKey = NoKey
    Subscriptions = {s1}
    Keys = {k1}
    Handlers = {h1}
    Grace = 1
    MaxClock = 2
    MaxMishaps = 0
    Checks = {c1, c2}
    MaxTabEvents = 2
    i1 = i1
    Guids = {i1}
    Undated = {}
    MaxRefreshes = 3
    MaxTroubles = 0
INVARIANTS ClientTypeOK
PROPERTIES EndedTokenIsDropped GuardsAreReleased NoTokenEndsFree DropsOnlyAnswered
CHECK_DEADLOCK FALSE
