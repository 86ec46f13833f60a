\* One refresh, with a rename and a change by the publisher.
SPECIFICATION Spec
CONSTANTS
    i1 = i1
    Guids = {i1}
    Undated = {i1}
    MaxRefreshes = 2
    MaxTroubles = 2
PROPERTIES RenameNeverClobbered
CHECK_DEADLOCK FALSE
