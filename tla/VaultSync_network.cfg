\* Two devices, one lost request or answer, one reload, no settings actions.
SPECIFICATION Spec
CONSTANTS
    d1 = d1
    d2 = d2
    e1 = e1
    e2 = e2
    f1 = f1
    f2 = f2
    NoDevice = NoDevice
    Devices = {d1, d2}
    Edits = {e1, e2}
    Frames = {f1, f2}
    MaxFaults = 1
    MaxReloads = 1
    MaxUserOps = 0
SYMMETRY Symmetry
PROPERTIES KeepsPromises
INVARIANTS TypeOK OwedIsKept FlushBeforeImport
CHECK_DEADLOCK FALSE
