----------------------------- MODULE ArticleRows -----------------------------
(***************************************************************************)
(* The rows of one article: article-store.ts, the article table of db.ts,  *)
(* dedupe-articles.ts, release-offline-content.ts and prefetch-service.ts. *)
(*                                                                         *)
(* Every operation reads a whole row, awaits, and writes the whole row     *)
(* back.  Articles do not share state, so the rows of one item of one feed *)
(* show all of it; there is more than one row when two refreshes store the *)
(* same item.                                                              *)
(*                                                                         *)
(* A set of rows is a function from row ids to rows: what the table holds, *)
(* what the store shows, what a task has read, a single captured row.      *)
(***************************************************************************)
EXTENDS Integers, Sequences, FiniteSetsExt

CONSTANTS
    Ids,           \* primary keys, drawn at random: numbers, for their order
    MaxMoves       \* bound: acts of the user, refreshes, releases and tab losses

ASSUME ArticleAssumption ==
    /\ IsFiniteSet(Ids) /\ Ids \subseteq Nat /\ {1, 2} \subseteq Ids
    /\ MaxMoves \in Nat

VARIABLES
    table,      \* the rows in the table
    byFeed,    \* articlesByFeedId
    listed,    \* articles, the visible slice
    opened,    \* selectedArticle
    timer,     \* markAsReadTimer, with the row its callback holds
    writes,    \* updateArticle calls of single rows under way
    sweep,     \* rows that markAllAsRead or markUnread has yet to write
    task,      \* slot -> the background work that runs there
    offline,   \* the feed has prefetchEnabled
    expired,   \* the retention period of the item is over
    usedIds,   \* ids given so far
    moves,     \* spent of the bound
    starWanted, \* history: the user's last toggle put the star on
    calm,       \* history: each act and task began with nothing under way
    revived     \* history: a write brought a deleted row back

store      == <<byFeed, listed, opened, timer>>
flights    == <<writes, sweep>>
rowHistory == <<starWanted, calm, revived>>
rowVars    == <<table, store, flights, task, offline, expired, usedIds, moves,
                rowHistory>>

Article == [starred : BOOLEAN, read : BOOLEAN, saved : BOOLEAN]

Rows == UNION {[S -> Article] : S \in SUBSET Ids}

None == [i \in {} |-> FALSE]

Fresh == [starred |-> FALSE, read |-> FALSE, saved |-> FALSE]

\* refreshAll and refreshView hold isRefreshingAll, refreshSingleFeed holds
\* refreshingFeedIds; the prefetch, "Free up space" and the load of a view hold nothing.
Slots  == {"all", "single", "prefetch", "space", "view"}
Phases == {"idle", "lookup", "add", "update", "dedupe", "collapse", "drop", "purge",
           "delete", "preload", "show", "fetch", "extract", "release", "clear"}

Task == [phase : Phases, seen : Rows, gone : SUBSET Ids]

NoTask == [phase |-> "idle", seen |-> None, gone |-> {}]

At(t, phase) == task[t].phase = phase

\* A task goes on with nothing in hand.
Goes(t, phase) == task' = [task EXCEPT ![t] = [NoTask EXCEPT !.phase = phase]]

\* A task goes on with the rows it has read.
Holds(t, phase, rows) ==
    task' = [task EXCEPT ![t] = [NoTask EXCEPT !.phase = phase, !.seen = rows]]

\* A row on its own, and rows that take the place of others.
Row(id, article) == [i \in {id} |-> article]

Over(rows, old) ==
    [i \in DOMAIN rows \cup DOMAIN old |-> IF i \in DOMAIN rows THEN rows[i] ELSE old[i]]

Without(rows, ids) == [i \in DOMAIN rows \ ids |-> rows[i]]

Only(rows, ids) == [i \in DOMAIN rows \cap ids |-> rows[i]]

ArticleTypeOK ==
    /\ table \in Rows /\ byFeed \in Rows /\ listed \in Rows
    /\ opened \in Rows /\ Cardinality(DOMAIN opened) <= 1
    /\ timer \in Rows /\ DOMAIN timer \subseteq DOMAIN opened
    /\ writes \in Seq(Rows)
    /\ sweep \in Rows
    /\ task \in [Slots -> Task]
    /\ offline \in BOOLEAN /\ expired \in BOOLEAN
    /\ DOMAIN table \cup DOMAIN byFeed \subseteq usedIds
    /\ moves \in 0..MaxMoves
    /\ starWanted \in BOOLEAN /\ calm \in BOOLEAN /\ revived \in BOOLEAN

-----------------------------------------------------------------------------

\* The database after the boot of a browser whose one sweep for twins is done; a vault
\* written by another device may have brought twins since.
ArticleInit ==
    /\ table \in {None, Row(1, Fresh), Over(Row(1, Fresh), Row(2, [Fresh EXCEPT !.starred = TRUE]))}
    /\ byFeed = table /\ listed = table
    /\ opened = None /\ timer = None
    /\ writes = <<>> /\ sweep = None
    /\ task = [t \in Slots |-> NoTask]
    /\ offline = FALSE /\ expired = FALSE
    /\ usedIds = DOMAIN table
    /\ moves = 0
    /\ starWanted = \E i \in DOMAIN table : table[i].starred
    /\ calm = (Cardinality(DOMAIN table) <= 1)
    /\ revived = (Cardinality(DOMAIN table) > 1)

AtRest ==
    /\ timer = None /\ writes = <<>> /\ sweep = None
    /\ \A t \in Slots : At(t, "idle")

\* Something begins: the history stays calm if nothing was under way.
Begins == calm' = (calm /\ AtRest /\ Cardinality(DOMAIN table) <= 1)

\* Whole rows reach the table.
Put(rows) ==
    /\ table' = Over(rows, table)
    /\ revived' = (revived \/ ~(DOMAIN rows \subseteq DOMAIN table))

-----------------------------------------------------------------------------
(* The user.                                                                *)

\* A row of the item as the store has it after an update.
Shows(rows, updated) ==
    [i \in DOMAIN rows |-> IF i \in DOMAIN updated THEN updated[i] ELSE rows[i]]

ApplyUpdate(updated) ==
    /\ byFeed' = Shows(byFeed, updated)
    /\ listed' = Shows(listed, updated)

MarkedRead(rows) == [i \in DOMAIN rows |-> [rows[i] EXCEPT !.read = TRUE]]

\* The read state that selectArticle saves before it moves on.
Flushed == IF timer # None THEN MarkedRead([i \in {j \in DOMAIN opened : ~opened[j].read} |-> opened[i]])
           ELSE None

Flush ==
    /\ byFeed' = Shows(byFeed, Flushed)
    /\ writes' = IF Flushed = None THEN writes ELSE Append(writes, Flushed)

Moves == moves < MaxMoves /\ moves' = moves + 1

\* selectArticle, with the row the list held when it was drawn.
Select(rows) ==
    /\ Flush
    /\ opened' = rows
    /\ timer' = [i \in {j \in DOMAIN rows : ~rows[j].read} |-> rows[i]]

OpenArticle(id) ==
    /\ Moves
    /\ id \in DOMAIN listed
    /\ Select(Only(listed, {id}))
    /\ listed' = Shows(listed, Flushed)
    /\ Begins
    /\ UNCHANGED <<table, sweep, task, offline, expired, usedIds, starWanted,
                   revived>>

\* The user goes to another view: selectArticle(null), then loadArticles, which shows
\* the rows the store has and reads those of the table.
LeaveArticle ==
    /\ opened # None /\ At("view", "idle")
    /\ Select(None)
    /\ listed' = byFeed'
    /\ Goes("view", "preload")
    /\ Begins
    /\ UNCHANGED <<table, sweep, offline, expired, usedIds, moves, starWanted, revived>>

\* Mutant of TimerFires: the lists are not updated.
TimerFiresUnshown ==
    /\ timer # None
    /\ opened' = MarkedRead(timer)
    /\ writes' = Append(writes, MarkedRead(timer))
    /\ timer' = None
    /\ UNCHANGED <<table, byFeed, listed, sweep, task, offline, expired, usedIds, moves, rowHistory>>

\* The callback of the timer writes the row it has held for a second.
TimerFires ==
    /\ timer # None
    /\ LET updated == MarkedRead(timer) IN
        /\ ApplyUpdate(updated)
        /\ opened' = updated
        /\ writes' = Append(writes, updated)
    /\ timer' = None
    /\ UNCHANGED <<table, sweep, task, offline, expired, usedIds, moves, rowHistory>>

\* Swiping an unread row.
MarkAsRead(id) ==
    /\ Moves
    /\ id \in DOMAIN listed /\ ~listed[id].read
    /\ LET updated == MarkedRead(Only(listed, {id})) IN
        /\ ApplyUpdate(updated)
        /\ writes' = Append(writes, updated)
    /\ Begins
    /\ UNCHANGED <<table, opened, timer, sweep, task, offline, expired, usedIds,
                   starWanted, revived>>

\* The star goes on, or comes off together with a copy nothing else keeps.
Toggled(id) ==
    LET row == byFeed[id] IN
    [row EXCEPT !.starred = ~@, !.saved = @ /\ (~row.starred \/ offline)]

ToggleStar(id) ==
    /\ Moves
    /\ id \in DOMAIN byFeed
    /\ LET updated == Row(id, Toggled(id)) IN
        /\ ApplyUpdate(updated)
        /\ opened' = Shows(opened, updated)
        /\ writes' = Append(writes, updated)
        /\ starWanted' = updated[id].starred
    /\ Begins
    /\ UNCHANGED <<table, timer, sweep, task, offline, expired, usedIds, revived>>

\* markAllAsRead captures the visible rows and writes them one by one.
MarkAllAsRead ==
    /\ Moves
    /\ sweep = None
    /\ LET unread == {i \in DOMAIN listed : ~listed[i].read} IN
        /\ unread # {}
        /\ byFeed' = [i \in DOMAIN byFeed |-> [byFeed[i] EXCEPT !.read = @ \/ i \in unread]]
        /\ listed' = MarkedRead(listed)
        /\ sweep' = MarkedRead(Only(listed, unread))
    /\ Begins
    /\ UNCHANGED <<table, opened, timer, writes, task, offline, expired, usedIds,
                   starWanted, revived>>

\* The undo of that, and swiping a read row.
MarkUnread(ids) ==
    /\ Moves
    /\ sweep = None
    /\ LET restored == [i \in {j \in ids \cap DOMAIN byFeed : byFeed[j].read} |->
                            [byFeed[i] EXCEPT !.read = FALSE]] IN
        /\ restored # None
        /\ byFeed' = Shows(byFeed, restored)
        /\ listed' = [i \in DOMAIN listed |-> [listed[i] EXCEPT !.read = @ /\ i \notin DOMAIN restored]]
        /\ sweep' = restored
    /\ Begins
    /\ UNCHANGED <<table, opened, timer, writes, task, offline, expired, usedIds,
                   starWanted, revived>>

\* "Prefetch full text" of the feed, which prefetches at once when it is turned on.
TogglePrefetch ==
    /\ Moves
    /\ offline' = ~offline
    /\ IF ~offline /\ At("prefetch", "idle") THEN Goes("prefetch", "fetch") ELSE UNCHANGED task
    /\ Begins
    /\ UNCHANGED <<table, store, flights, expired, usedIds, starWanted, revived>>

\* A single row is encrypted and reaches the table.
WriteLands ==
    /\ writes # <<>>
    /\ Put(Head(writes))
    /\ writes' = Tail(writes)
    /\ UNCHANGED <<store, sweep, task, offline, expired, usedIds, moves, starWanted, calm>>

SweepWrites(id) ==
    /\ id \in DOMAIN sweep
    /\ Put(Only(sweep, {id}))
    /\ sweep' = Without(sweep, {id})
    /\ UNCHANGED <<store, writes, task, offline, expired, usedIds, moves, starWanted, calm>>

-----------------------------------------------------------------------------
(* A refresh of the feed, which always carries the item.                    *)

StartRefresh(t) ==
    /\ Moves
    /\ At(t, "idle")
    /\ Goes(t, "lookup")
    /\ Begins
    /\ UNCHANGED <<table, store, flights, offline, expired, usedIds, starWanted,
                   revived>>

\* getArticleByGuid: a new item is admitted unless retention would remove it, the
\* content of a stored one may have changed.
LooksUpRow(t) ==
    /\ At(t, "lookup")
    /\ \/ table = None /\ Goes(t, IF expired THEN "dedupe" ELSE "add")
       \/ table # None /\ Goes(t, "dedupe")
       \/ table # None /\ Holds(t, "update", Only(table, {Min(DOMAIN table)}))
    /\ UNCHANGED <<table, store, flights, offline, expired, usedIds, moves, rowHistory>>

AddsRow(t) ==
    /\ At(t, "add")
    /\ \E id \in Ids \ usedIds :
        /\ table' = Over(Row(id, Fresh), table)
        /\ usedIds' = usedIds \cup {id}
    /\ Goes(t, "dedupe")
    /\ UNCHANGED <<store, flights, offline, expired, moves, rowHistory>>

UpdatesRow(t) ==
    /\ At(t, "update")
    /\ Put(task[t].seen)
    /\ Goes(t, "dedupe")
    /\ UNCHANGED <<store, flights, offline, expired, usedIds, moves, starWanted, calm>>

AfterDedupe(t) == IF t = "all" THEN "purge" ELSE "idle"

\* Mutant of DedupeReads: a pair of rows does not count as duplicates.
DedupeReadsMissPairs(t) ==
    /\ At(t, "dedupe")
    /\ IF Cardinality(DOMAIN table) <= 2
       THEN Goes(t, AfterDedupe(t))
       ELSE Holds(t, "collapse", table)
    /\ UNCHANGED <<table, store, flights, offline, expired, usedIds, moves, rowHistory>>

\* dedupeArticles reads the rows of the item.
DedupeReads(t) ==
    /\ At(t, "dedupe")
    /\ IF Cardinality(DOMAIN table) < 2
       THEN Goes(t, AfterDedupe(t))
       ELSE Holds(t, "collapse", table)
    /\ UNCHANGED <<table, store, flights, offline, expired, usedIds, moves, rowHistory>>

\* Mutant of Keeper: the row that carries the star is kept.
KeeperStarred(seen) ==
    LET starred == {i \in DOMAIN seen : seen[i].starred} IN
    IF starred = {} THEN Min(DOMAIN seen) ELSE Min(starred)

\* The first row of the group, in the order of the keys.
Keeper(seen) == Min(DOMAIN seen)

\* mergeDuplicateArticles: a flag set in any copy is set in the keeper.
Merged(seen) ==
    [starred |-> \E i \in DOMAIN seen : seen[i].starred,
     read    |-> \E i \in DOMAIN seen : seen[i].read,
     saved   |-> \E i \in DOMAIN seen : seen[i].saved]

DedupePuts(t) ==
    /\ At(t, "collapse")
    /\ LET seen == task[t].seen IN
        /\ Put(Row(Keeper(seen), Merged(seen)))
        /\ task' = [task EXCEPT ![t] = [NoTask EXCEPT !.phase = "drop",
                                            !.gone = DOMAIN seen \ {Keeper(seen)}]]
    /\ UNCHANGED <<store, flights, offline, expired, usedIds, moves, starWanted, calm>>

DedupeDeletes(t) ==
    /\ At(t, "drop")
    /\ table' = Without(table, task[t].gone)
    /\ Goes(t, AfterDedupe(t))
    /\ UNCHANGED <<store, flights, offline, expired, usedIds, moves, rowHistory>>

-----------------------------------------------------------------------------
(* The tail of a refresh of all feeds: purge, preload, prefetch.            *)

\* The retention period ends; between two pieces of work, which is soon enough to
\* meet each of them on either side.
GrowsOld ==
    /\ ~expired /\ AtRest
    /\ expired' = TRUE
    /\ UNCHANGED <<table, store, flights, task, offline, usedIds, moves, rowHistory>>

\* purgeExpired spares the starred rows and the one open in the reader.
PurgeReadsRows(t) ==
    /\ At(t, "purge")
    /\ LET doomed == {i \in DOMAIN table : expired /\ ~table[i].starred /\ i \notin DOMAIN opened} IN
        task' = [task EXCEPT ![t] = [NoTask EXCEPT !.phase = IF doomed = {} THEN "preload" ELSE "delete",
                                            !.gone = doomed]]
    /\ UNCHANGED <<table, store, flights, offline, expired, usedIds, moves, rowHistory>>

PurgeDeletesRows(t) ==
    /\ At(t, "delete")
    /\ table' = Without(table, task[t].gone)
    /\ Goes(t, "preload")
    /\ UNCHANGED <<store, flights, offline, expired, usedIds, moves, rowHistory>>

PreloadReads(t) ==
    /\ At(t, "preload")
    /\ Holds(t, "show", table)
    /\ UNCHANGED <<table, store, flights, offline, expired, usedIds, moves, rowHistory>>

\* preloadAll renews the buckets; after a refresh and for a new view refreshArticles
\* renews the visible slice too; after "Free up space" the reader's copy loses its
\* text; a prefetch is started when a refresh ends.
PreloadShows(t) ==
    /\ At(t, "show")
    /\ byFeed' = task[t].seen
    /\ listed' = IF t \in {"all", "view"} THEN task[t].seen ELSE listed
    /\ opened' = IF t = "space" THEN [i \in DOMAIN opened |-> [opened[i] EXCEPT !.saved = FALSE]]
                 ELSE opened
    /\ task' = [task EXCEPT ![t] = NoTask,
                            !["prefetch"] = IF t = "all" /\ @ = NoTask
                                            THEN [NoTask EXCEPT !.phase = "fetch"]
                                            ELSE IF t = "prefetch" THEN NoTask ELSE @]
    /\ UNCHANGED <<table, timer, flights, offline, expired, usedIds, moves, rowHistory>>

\* What one run of the passes collects: starred rows, and those of a feed that the user has
\* opted in, or reads often (which depends on its other items too).
Candidates(frequent) ==
    {i \in DOMAIN table : ~table[i].saved /\ (table[i].starred \/ offline \/ frequent)}

PrefetchReads ==
    /\ At("prefetch", "fetch")
    /\ \E frequent \in BOOLEAN :
        IF Candidates(frequent) = {} THEN Goes("prefetch", "idle")
        ELSE Holds("prefetch", "extract", Only(table, Candidates(frequent)))
    /\ UNCHANGED <<table, store, flights, offline, expired, usedIds, moves, rowHistory>>

\* One page is fetched and extracted, the row written with its text; or that fails.
PrefetchWrites(id) ==
    /\ At("prefetch", "extract")
    /\ id \in DOMAIN task["prefetch"].seen
    /\ LET seen == task["prefetch"].seen
           left == Without(seen, {id})
       IN \/ /\ Put(Row(id, [seen[id] EXCEPT !.saved = TRUE]))
             /\ task' = [task EXCEPT !["prefetch"] =
                   IF left = None THEN [NoTask EXCEPT !.phase = "preload"]
                   ELSE [@ EXCEPT !.seen = left]]
          \/ /\ UNCHANGED <<table, revived>>
             /\ task' = [task EXCEPT !["prefetch"] =
                   IF left = None THEN NoTask ELSE [@ EXCEPT !.seen = left]]
    /\ UNCHANGED <<store, flights, offline, expired, usedIds, moves, starWanted, calm>>

-----------------------------------------------------------------------------
(* "Free up space", and the loss of the tab.                                *)

StartRelease ==
    /\ Moves
    /\ At("space", "idle")
    /\ Goes("space", "release")
    /\ Begins
    /\ UNCHANGED <<table, store, flights, offline, expired, usedIds, starWanted,
                   revived>>

ReleaseReads ==
    /\ At("space", "release")
    /\ LET orphans == {i \in DOMAIN table : table[i].saved /\ ~table[i].starred /\ ~offline} IN
        IF orphans = {} THEN Goes("space", "idle")
        ELSE Holds("space", "clear", Only(table, orphans))
    /\ UNCHANGED <<table, store, flights, offline, expired, usedIds, moves, rowHistory>>

Released(seen) == [i \in DOMAIN seen |-> [seen[i] EXCEPT !.saved = FALSE]]

ReleaseWrites ==
    /\ At("space", "clear")
    /\ Put(Released(task["space"].seen))
    /\ Goes("space", "preload")
    /\ UNCHANGED <<store, flights, offline, expired, usedIds, moves, starWanted, calm>>

\* The tab reloads or crashes: what had not reached the table is gone; the boot
\* loads the rows.
TabIsLost ==
    /\ Moves
    /\ byFeed' = table /\ listed' = table
    /\ opened' = None /\ timer' = None
    /\ writes' = <<>> /\ sweep' = None
    /\ task' = [t \in Slots |-> NoTask]
    /\ revived' = (Cardinality(DOMAIN table) > 1)
    /\ starWanted' = \E i \in DOMAIN table : table[i].starred
    /\ calm' = (Cardinality(DOMAIN table) <= 1)
    /\ UNCHANGED <<table, offline, expired, usedIds>>

ArticleNext ==
    \/ \E id \in Ids : OpenArticle(id) \/ MarkAsRead(id) \/ ToggleStar(id)
                       \/ SweepWrites(id) \/ PrefetchWrites(id)
    \/ LeaveArticle \/ TimerFires \/ MarkAllAsRead \/ TogglePrefetch \/ WriteLands
    \/ \E ids \in SUBSET Ids : MarkUnread(ids)
    \/ \E t \in {"all", "single"} :
         \/ StartRefresh(t) \/ LooksUpRow(t) \/ AddsRow(t) \/ UpdatesRow(t)
         \/ DedupeReads(t) \/ DedupePuts(t) \/ DedupeDeletes(t)
    \/ PurgeReadsRows("all") \/ PurgeDeletesRows("all")
    \/ \E t \in {"all", "prefetch", "space", "view"} : PreloadReads(t) \/ PreloadShows(t)
    \/ PrefetchReads \/ StartRelease \/ ReleaseReads \/ ReleaseWrites
    \/ GrowsOld \/ TabIsLost

ArticleSpec == ArticleInit /\ [][ArticleNext]_rowVars

-----------------------------------------------------------------------------

\* When no refresh is between its look-up and its sweep for twins, an item has one row, unless a late
\* write has brought back a row that was deleted meanwhile.  Two refreshes that both
\* find an item missing store it twice; the later of them collapses the rows.
TwinsAreCollapsed ==
    (\A t \in {"all", "single"} : task[t].phase \notin
        {"lookup", "add", "update", "dedupe", "collapse", "drop"})
        => (revived \/ Cardinality(DOMAIN table) <= 1)

\* dedupeArticles never deletes the last row of an item that retention still keeps,
\* even when two of them work on the same rows and the rows change under both.
DedupeLeavesOne ==
    [][(\E t \in Slots : DedupeDeletes(t)) /\ ~expired /\ table # None
        => table' # None]_rowVars

\* When the user acts only while nothing is under way, the table holds the star he
\* last set, and the store agrees with the table, whatever mixture of refreshes,
\* prefetches, purges and releases has run in between.
CalmActsStick ==
    calm /\ AtRest =>
        \A i \in DOMAIN table :
            /\ table[i].starred = starWanted
            /\ i \in DOMAIN byFeed => /\ byFeed[i].starred = table[i].starred
                                      /\ byFeed[i].read = table[i].read

\* article-store.ts:491: "Flush any pending mark-as-read immediately (don't lose the read
\* state)": with no more under way, what the table has as read is not shown as unread.
ReadIsShown ==
    AtRest => \A i \in DOMAIN table \cap DOMAIN byFeed : table[i].read => byFeed[i].read

\* docs/tier-matrix.md: starred items are kept indefinitely.
StarSurvives ==
    starWanted /\ AtRest /\ ~revived => \E i \in DOMAIN table : table[i].starred

\* article-retention.ts: a purge never pulls the open article out from under the user.
OpenIsSpared ==
    [][\A t \in Slots : At(t, "delete") /\ ~(At(t, "delete"))' =>
            DOMAIN opened \cap DOMAIN table \subseteq DOMAIN table']_rowVars
=============================================================================
