\* One device that turns sync on and off, restores, erases, switches and logs out; one
\* request, answer or import fails, and the tab is reloaded once.  The run is under
\* fairness, so there is no symmetry.
SPECIFICATION FairSpec
CONSTANTS
    d1 = d1
    e1 = e1
    f1 = f1
    f2 = f2
    NoDevice = NoDevice
    Devices = {d1}
    Edits = {e1}
    Frames = {f1, f2}
    MaxFaults = 1
    MaxReloads = 1
    MaxUserOps = 2
PROPERTIES KeepsPromises OwedReachesCloud
INVARIANTS NothingAfterLogout CredentialsArePersisted
CHECK_DEADLOCK FALSE
