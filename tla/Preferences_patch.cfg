\* Two settings; one is changed on this device and one on another.
SPECIFICATION PreferencesSpec
CONSTANTS
    s1 = s1
    s2 = s2
    Settings = {s1, s2}
    NoRow = NoRow
    MaxChanges = 2
    MaxTurns = 0
PROPERTIES PatchKeepsTheRest
CHECK_DEADLOCK FALSE
