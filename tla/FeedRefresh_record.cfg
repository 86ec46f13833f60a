\* Two refreshes or reloads of one feed with their purges, and any two of: the publisher
\* drops or brings back the item, the user renames, removes the feed or deletes its
\* folder, the tab is reloaded.
SPECIFICATION Spec
CONSTANTS
    i1 = i1
    Guids = {i1}
    Undated = {i1}
    MaxRefreshes = 3
    MaxTroubles = 2
INVARIANTS TypeOK TitleIsKept SuccessIsKept BuriedStaysBuried
CHECK_DEADLOCK FALSE
