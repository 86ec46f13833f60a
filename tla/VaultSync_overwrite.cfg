\* Two devices: a pull imports over a change that was queued while it was on the wire.
SPECIFICATION Spec
CONSTANTS
    d1 = d1
    d2 = d2
    e1 = e1
    e2 = e2
    f1 = f1
    f2 = f2
    NoDevice = NoDevice
    Devices = {d1, d2}
    Edits = {e1, e2}
    Frames = {f1, f2}
    MaxFaults = 0
    MaxReloads = 0
    MaxUserOps = 0
SYMMETRY Symmetry
INVARIANTS QueuedIsKept
CHECK_DEADLOCK FALSE
