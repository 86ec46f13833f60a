\* One subscription, one instance of the webhook, two failing commands.
SPECIFICATION LicenceSpec
CONSTANTS
    s1 = s1
    k1 = k1
    h1 = h1
    NoKey = NoKey
    Subscriptions = {s1}
    Keys = {k1}
    Handlers = {h1}
    Grace = 1
    MaxClock = 1
    MaxMishaps = 2
INVARIANTS RetriesRepair
CHECK_DEADLOCK FALSE
