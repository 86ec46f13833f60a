---------------------------- MODULE Subscriptions ----------------------------
(***************************************************************************)
(* The list of subscriptions and its folders: the operations of the feed    *)
(* store that add, import, remove and file feeds (stores/feed-store.ts,     *)
(* components/settings/import-view.tsx), what they do to the tables         *)
(* (core/feeds/feed-service.ts, core/storage/db.ts), and the OPML export    *)
(* (core/opml/opml-service.ts).                                             *)
(*                                                                         *)
(* The store shows a copy of the two tables, and every operation reads the  *)
(* copy or the table, awaits, writes whole records and reads the table      *)
(* again.  What a refresh writes into the records is the subject of         *)
(* FeedRefresh.                                                             *)
(***************************************************************************)
EXTENDS Naturals, FiniteSets

CONSTANTS
    Urls,           \* addresses of feeds
    Tasks,          \* store operations that may be in progress at once
    NoUrl,          \* what an operation without a feed holds
    FeedLimit,      \* FREE_FEED_LIMIT; a number never reached where there is none
    MaxFolders,     \* bound: folders ever made
    MaxOps,         \* bound: operations begun
    MaxFailures     \* bound: database calls that fail

ASSUME SubscriptionsAssumption ==
    /\ IsFiniteSet(Urls) /\ NoUrl \notin Urls
    /\ FeedLimit \in Nat /\ MaxFolders \in Nat \ {0} /\ MaxOps \in Nat /\ MaxFailures \in Nat

VARIABLES
    feeds,      \* the feeds table: the records that can be decrypted
    orphans,    \* the addresses of those that cannot
    folders,    \* the folders table
    shown,      \* the store's feeds
    shelves,    \* the store's folders
    work,       \* the operations in progress
    ids,        \* ids given to feeds so far
    made,       \* ids given to folders so far
    elsewhere,  \* the records that the other devices may hold: those the table has had
    ops, failures,  \* how much of the bounds is used
    removed     \* history: feeds removed while nothing else was in progress, and not
                \* brought back by a vault since

subsVars == <<feeds, orphans, folders, shown, shelves, work, ids, made, elsewhere, ops, failures,
              removed>>

\* The url is unique in the table (feeds: "id, &url"); folder 0 is no folder.
Feed   == [url : Urls, id : 1..ids, folder : 0..MaxFolders]
FolderIds == 1..MaxFolders

NoFeed == [url |-> NoUrl, id |-> 0, folder |-> 0]
NoWork == [op |-> "none", at |-> "done", feed |-> NoFeed, todo |-> {}, folder |-> 0, calm |-> TRUE]

Work == [op : {"none", "add", "import", "placeholder", "remove", "create", "delete",
               "file", "pull"},
         at : {"done", "check", "look", "clean", "fetch", "store", "reload", "place", "put",
               "drop", "shelve", "import"},
         feed : Feed \cup [url : Urls \cup {NoUrl}, id : {0}, folder : {0}],
         todo : SUBSET Feed, folder : 0..MaxFolders, calm : BOOLEAN]

SubscriptionsTypeOK ==
    /\ feeds \subseteq Feed /\ orphans \subseteq Urls
    /\ \A f, g \in feeds : f.url = g.url \/ f.id = g.id => f = g
    /\ shown \subseteq Feed /\ elsewhere \subseteq Feed
    /\ folders \subseteq FolderIds /\ shelves \subseteq FolderIds
    /\ work \in [Tasks -> Work]
    /\ ids \in Nat /\ made \in FolderIds /\ removed \subseteq 1..ids

\* One folder, and a record that cannot be decrypted or not.
SubscriptionsInit ==
    /\ \E some \in SUBSET Urls, filed \in SUBSET Urls, lost \in SUBSET Urls :
          /\ Cardinality(some) < Cardinality(Urls) /\ filed \subseteq some
          /\ lost \cap some = {} /\ Cardinality(lost) <= 1
          /\ \E number \in [some -> 1..Cardinality(some)] :
                /\ \A u, v \in some : number[u] = number[v] => u = v
                /\ feeds = {[url |-> u, id |-> number[u], folder |-> IF u \in filed THEN 1 ELSE 0] :
                              u \in some}
                /\ ids = Cardinality(some)
          /\ orphans = lost
    /\ folders = {1} /\ made = 1
    /\ shown = feeds /\ shelves = folders
    /\ work = [t \in Tasks |-> NoWork]
    /\ ops = 0 /\ failures = 0
    /\ elsewhere = {[f EXCEPT !.folder = 0] : f \in feeds} /\ removed = {}

-----------------------------------------------------------------------------
(* Operations.                                                             *)

Idle(t) == work[t] = NoWork

QuietStore == \A t \in Tasks : Idle(t)

\* An operation begins; those in progress are no longer alone, nor is it.
Start(t, op, at, feed, todo, folder) ==
    /\ Idle(t)
    /\ ops < MaxOps /\ ops' = ops + 1
    /\ work' = [s \in Tasks |->
                  IF s = t THEN [op |-> op, at |-> at, feed |-> feed, todo |-> todo,
                                 folder |-> folder, calm |-> QuietStore]
                  ELSE IF Idle(s) THEN NoWork ELSE [work[s] EXCEPT !.calm = FALSE]]

Go(t, at) == work' = [work EXCEPT ![t].at = at]

Hold(t, at, feed, todo) ==
    work' = [work EXCEPT ![t] = [@ EXCEPT !.at = at, !.feed = feed, !.todo = todo]]

End(t) == work' = [work EXCEPT ![t] = NoWork]

Fail == failures < MaxFailures /\ failures' = failures + 1

Asked(u) == [url |-> u, id |-> 0, folder |-> 0]

\* addFeed of the store; the import of an entry files the feed in a folder (0: none) and
\* keeps a placeholder when the address cannot be fetched.
BeginAdd(t, u, op, folder) ==
    /\ Cardinality(shown) + 1 <= FeedLimit
    /\ Start(t, op, "check", Asked(u), {}, folder)
    /\ UNCHANGED <<feeds, orphans, folders, shown, shelves, ids, made, elsewhere, failures,
                   removed>>

BeginRemove(t, f) ==
    /\ f \in shown
    /\ Start(t, "remove", "drop", f, {}, 0)
    /\ UNCHANGED <<feeds, orphans, folders, shown, shelves, ids, made, elsewhere, failures,
                   removed>>

\* createFolder; the import and auto-organize make theirs the same way.
BeginCreate(t) ==
    /\ made < MaxFolders
    /\ Start(t, "create", "shelve", NoFeed, {}, made + 1)
    /\ made' = made + 1
    /\ UNCHANGED <<feeds, orphans, folders, shown, shelves, ids, elsewhere, failures, removed>>

\* deleteFolder works on the store's copies of the feeds in it.
BeginDelete(t, n) ==
    /\ n \in shelves
    /\ LET filed == {f \in shown : f.folder = n}
       IN  Start(t, "delete", IF filed = {} THEN "drop" ELSE "put", NoFeed, filed, n)
    /\ UNCHANGED <<feeds, orphans, folders, shown, shelves, ids, made, elsewhere, failures,
                   removed>>

\* moveFeedToFolder, for one feed; applyAutoOrganize, for several of a plan.
BeginFile(t, some, n) ==
    /\ some # {} /\ some \subseteq shown
    /\ n \in shelves \/ (n = 0 /\ Cardinality(some) = 1)
    /\ Start(t, "file", "place", NoFeed, some, n)
    /\ UNCHANGED <<feeds, orphans, folders, shown, shelves, ids, made, elsewhere, failures,
                   removed>>

\* The pull of refreshAll.
BeginPullRows(t) ==
    /\ Start(t, "pull", "import", NoFeed, {}, 0)
    /\ UNCHANGED <<feeds, orphans, folders, shown, shelves, ids, made, elsewhere, failures,
                   removed>>

-----------------------------------------------------------------------------
(* Adding a feed: addFeedFlow, and addPlaceholderFeed, which does not fetch.*)

Subscribed(u) == \E f \in feeds : f.url = u

\* What comes after the row is known not to be there.
Unknown(t) == IF work[t].op = "placeholder" THEN "store" ELSE "fetch"

\* feedExistsByUrl asks the index, where a record counts that cannot be decrypted; an
\* error counts as no.
Checks(t) ==
    /\ work[t].at = "check"
    /\ IF Subscribed(work[t].feed.url) \/ work[t].feed.url \in orphans
       THEN \/ Go(t, "look") /\ UNCHANGED failures
            \/ Fail /\ Go(t, Unknown(t))
       ELSE Go(t, Unknown(t)) /\ UNCHANGED failures
    /\ UNCHANGED <<feeds, orphans, folders, shown, shelves, ids, made, elsewhere, ops, removed>>

\* Is it a real feed?  It is not when the table cannot be read.
Looks(t) ==
    /\ work[t].at = "look"
    /\ \/ (IF Subscribed(work[t].feed.url) THEN End(t) ELSE Go(t, "clean")) /\ UNCHANGED failures
       \/ Fail /\ Go(t, "clean")
    /\ UNCHANGED <<feeds, orphans, folders, shown, shelves, ids, made, elsewhere, ops, removed>>

\* removeFeedsByUrl
Cleans(t) ==
    /\ work[t].at = "clean"
    /\ feeds' = {f \in feeds : f.url # work[t].feed.url}
    /\ orphans' = orphans \ {work[t].feed.url}
    /\ Go(t, Unknown(t))
    /\ UNCHANGED <<folders, shown, shelves, ids, made, elsewhere, ops, failures, removed>>

\* The publisher has a feed there, or a page that leads to one (an import looks for the
\* address in the file, finds no such feed, and files nothing); or it has not; or it does
\* not answer, and then an import keeps a placeholder.
Fetches(t) ==
    /\ work[t].at = "fetch"
    /\ \/ \E u \in Urls :
             LET n == IF u = work[t].feed.url THEN work[t].folder ELSE 0
             IN  work' = [work EXCEPT ![t] = [@ EXCEPT !.at = "store", !.feed = Asked(u),
                                                       !.folder = n]]
       \/ End(t)
       \/ work[t].op = "import" /\ work' = [work EXCEPT ![t].op = "placeholder", ![t].at = "check"]
    /\ UNCHANGED <<feeds, orphans, folders, shown, shelves, ids, made, elsewhere, ops, failures,
                   removed>>

\* addFeed of db.ts: the index is asked again, and it is unique.
Stores(t) ==
    /\ work[t].at = "store"
    /\ LET u == work[t].feed.url
       IN  \/ /\ ~Subscribed(u) /\ u \notin orphans
              /\ ids' = ids + 1
              /\ feeds' = feeds \cup {[Asked(u) EXCEPT !.id = ids + 1]}
              /\ elsewhere' = elsewhere \cup {[Asked(u) EXCEPT !.id = ids + 1]}
              /\ Go(t, "reload")
              /\ UNCHANGED failures
           \/ /\ IF Subscribed(u) \/ u \in orphans THEN UNCHANGED failures ELSE Fail
              /\ End(t)
              /\ UNCHANGED <<ids, feeds, elsewhere>>
    /\ UNCHANGED <<orphans, folders, shown, shelves, made, ops, removed>>

-----------------------------------------------------------------------------
(* Filing, removing, folders.                                              *)

\* Whole records are put back; the unique index refuses a second record of a URL.
PutFeed(f) ==
    IF \E g \in feeds : g.url = f.url /\ g.id # f.id
    THEN UNCHANGED feeds
    ELSE feeds' = {g \in feeds : g.id # f.id} \cup {f}

\* moveFeedToFolder reads the record of the next feed and goes on when there is none.
Places(t) ==
    /\ work[t].at = "place"
    /\ \E f \in work[t].todo :
         LET rest  == work[t].todo \ {f}
             after == IF rest = {} THEN "reload" ELSE "place"
         IN  \/ /\ \E g \in feeds : g.id = f.id /\ Hold(t, "put", g, rest)
                /\ UNCHANGED failures
             \/ /\ IF \E g \in feeds : g.id = f.id THEN Fail ELSE UNCHANGED failures
                /\ IF Cardinality(work[t].todo) = 1 /\ work[t].op = "file"
                   THEN End(t) ELSE Hold(t, after, NoFeed, rest)
    /\ UNCHANGED <<feeds, orphans, folders, shown, shelves, ids, made, elsewhere, ops, removed>>

\* The put of a move, and of deleteFolder, which puts the store's copies.
Puts(t) ==
    /\ work[t].at = "put"
    /\ IF work[t].op = "delete"
       THEN \E f \in work[t].todo :
               LET rest == work[t].todo \ {f}
               IN  /\ PutFeed([f EXCEPT !.folder = 0])
                   /\ Hold(t, IF rest = {} THEN "drop" ELSE "put", NoFeed, rest)
       ELSE /\ PutFeed([work[t].feed EXCEPT !.folder = work[t].folder])
            /\ Hold(t, IF work[t].todo = {} THEN "reload" ELSE "place", NoFeed, work[t].todo)
    /\ UNCHANGED <<orphans, folders, shown, shelves, ids, made, elsewhere, ops, failures, removed>>

\* removeFeed, which returns when it fails, and removeFolder, whose result is not looked at.
Drops(t) ==
    /\ work[t].at = "drop"
    /\ IF work[t].op = "remove"
       THEN /\ feeds' = {f \in feeds : f.id # work[t].feed.id}
            /\ Go(t, "reload")
            /\ UNCHANGED folders
       ELSE /\ folders' = folders \ {work[t].folder}
            /\ Go(t, "reload")
            /\ UNCHANGED feeds
    /\ UNCHANGED <<orphans, shown, shelves, ids, made, elsewhere, ops, failures, removed>>

Shelves(t) ==
    /\ work[t].at = "shelve"
    /\ folders' = folders \cup {work[t].folder}
    /\ Go(t, "reload")
    /\ UNCHANGED <<feeds, orphans, shown, shelves, ids, made, elsewhere, ops, failures, removed>>

\* A put or a delete fails: removeFeed stops, the others go on as if it had not.
WriteIsLost(t) ==
    /\ work[t].at \in {"put", "drop", "shelve"}
    /\ Fail
    /\ IF work[t].op = "remove" THEN End(t)
       ELSE IF work[t].at = "put" /\ work[t].op = "delete"
       THEN \E f \in work[t].todo :
               LET rest == work[t].todo \ {f}
               IN  Hold(t, IF rest = {} THEN "drop" ELSE "put", NoFeed, rest)
       ELSE IF work[t].at = "put"
       THEN Hold(t, IF work[t].todo = {} THEN "reload" ELSE "place", NoFeed, work[t].todo)
       ELSE Go(t, "reload")
    /\ UNCHANGED <<feeds, orphans, folders, shown, shelves, ids, made, elsewhere, ops, removed>>

\* importAll, which clears the tables and puts the vault's rows.  Against this device's, the
\* vault has a record more: a new one, or one this device has had, perhaps removed, when a
\* device that had not pulled has overwritten the vault.  It comes with its id, in the place
\* of the local one for that address.  Or the vault has a feed less; a folder more, with
\* feeds filed there; or a folder less.
Imports(t) ==
    /\ work[t].at = "import"
    /\ orphans' = {}
    /\ \/ \E f \in elsewhere \cup {[Asked(u) EXCEPT !.id = ids + 1] : u \in Urls},
             n \in folders \cup {0} :
             /\ \A g \in feeds : g.id # f.id
             /\ feeds' = {g \in feeds : g.url # f.url} \cup {[f EXCEPT !.folder = n]}
             /\ ids' = IF f.id > ids THEN f.id ELSE ids
             /\ elsewhere' = elsewhere \cup {f}
             /\ removed' = removed \ {f.id}
             /\ UNCHANGED <<folders, made>>
       \/ \E f \in feeds :
             /\ feeds' = feeds \ {f}
             /\ UNCHANGED <<folders, made, ids, elsewhere, removed>>
       \/ \E n \in FolderIds \ folders, some \in SUBSET feeds :
             /\ n <= made + 1 /\ \A s \in Tasks : work[s].op = "create" => work[s].folder # n
             /\ made' = IF n > made THEN n ELSE made
             /\ folders' = folders \cup {n}
             /\ feeds' = (feeds \ some) \cup {[f EXCEPT !.folder = n] : f \in some}
             /\ UNCHANGED <<ids, elsewhere, removed>>
       \/ \E n \in folders :
             /\ folders' = folders \ {n}
             /\ feeds' = {IF f.folder = n THEN [f EXCEPT !.folder = 0] ELSE f : f \in feeds}
             /\ UNCHANGED <<made, ids, elsewhere, removed>>
    /\ Go(t, "reload")
    /\ UNCHANGED <<shown, shelves, ops, failures>>

-----------------------------------------------------------------------------
(* What the store shows afterwards.                                        *)

\* Mutant of ShowsFeeds: removing a feed only reloads the folders.
ShowsFeedsUnlessRemoved(op) == op \notin {"create", "remove"}

\* reloadFeeds and reloadFolders: which operations end with which.
ShowsFeeds(op) == op # "create"

ShowsFolders(op) == op \in {"create", "delete"}

\* The feed that an import has added is filed, when the store shows it under the address
\* that the file has for it.
Added(t) == {f \in feeds : f.url = work[t].feed.url}

Reloads(t) ==
    /\ work[t].at = "reload"
    /\ shown' = IF ShowsFeeds(work[t].op) THEN feeds ELSE shown
    /\ shelves' = IF ShowsFolders(work[t].op) THEN folders ELSE shelves
    /\ IF work[t].op \in {"import", "placeholder"} /\ work[t].folder # 0 /\ Added(t) # {}
       THEN work' = [work EXCEPT ![t] = [@ EXCEPT !.op = "file", !.at = "place", !.todo = Added(t)]]
       ELSE End(t)
    /\ removed' = IF work[t].op = "remove" /\ work[t].calm
                  THEN removed \cup {work[t].feed.id} ELSE removed
    /\ UNCHANGED <<feeds, orphans, folders, ids, made, elsewhere, ops, failures>>

\* A table that cannot be read leaves the store as it is.
ReloadFails(t) ==
    /\ work[t].at = "reload"
    /\ Fail
    /\ End(t)
    /\ UNCHANGED <<feeds, orphans, folders, shown, shelves, ids, made, elsewhere, ops, removed>>

SubscriptionsNext ==
    \E t \in Tasks :
        \/ \E u \in Urls : \/ BeginAdd(t, u, "add", 0)
                           \/ \E n \in shelves \cup {0} : BeginAdd(t, u, "import", n)
        \/ \E f \in shown : BeginRemove(t, f)
        \/ BeginCreate(t)
        \/ \E n \in shelves : BeginDelete(t, n)
        \/ \E some \in SUBSET shown, n \in shelves \cup {0} : BeginFile(t, some, n)
        \/ BeginPullRows(t)
        \/ Checks(t) \/ Looks(t) \/ Cleans(t) \/ Fetches(t) \/ Stores(t)
        \/ Places(t) \/ Puts(t) \/ Drops(t) \/ Shelves(t) \/ WriteIsLost(t)
        \/ Imports(t) \/ Reloads(t) \/ ReloadFails(t)

SubscriptionsSpec == SubscriptionsInit /\ [][SubscriptionsNext]_subsVars

-----------------------------------------------------------------------------
(* Properties.                                                             *)

\* A feed that the user removed while nothing else was in progress does not come back by
\* this device's doing: no operation that begins later puts back a copy of its record.  Only
\* a vault can bring it back that a device overwrote without having pulled the removal.
NoCopyComesBack == \A f \in feeds : f.id \notin removed

\* generateOpmlFile: with folders, a feed is written under its folder or, with no folder,
\* at the top.
Exported ==
    IF shelves = {} THEN shown ELSE {f \in shown : f.folder = 0 \/ f.folder \in shelves}

\* opml-service.ts:250: the export is "round-trip lossless", so that a user can take the
\* data elsewhere "with zero loss".  When nothing is in progress, every feed in the store
\* is in the file.
ExportIsLossless == QuietStore => Exported = shown
=============================================================================
