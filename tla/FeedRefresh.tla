----------------------------- MODULE FeedRefresh -----------------------------
(***************************************************************************)
(* One feed under refresh: feed-service.ts, feed-store.ts, the retention   *)
(* purge of article-retention.ts, and the publisher behind the proxy.      *)
(*                                                                         *)
(* A refresh works on a feed record it was handed, awaits the network, and *)
(* writes the whole record back.  The store keeps a second copy of the     *)
(* record in memory, some operations start from that one.  Feeds do not    *)
(* share state, so one feed shows all of it.                               *)
(***************************************************************************)
EXTENDS Naturals

CONSTANTS
    Guids,        \* items the publisher may carry
    Undated,      \* those of them without a publication date
    MaxRefreshes, \* bound: refreshes and reloads begun
    MaxTroubles   \* bound: changes by the publisher, settings actions begun, tab
                  \* reloads and crashes

ASSUME RefreshAssumption ==
    /\ Undated \subseteq Guids
    /\ MaxRefreshes \in Nat /\ MaxTroubles \in Nat

VARIABLES
    publisher, \* what the feed's URL serves: its ETag and the items
    row,       \* the feed record in the database
    shown,     \* the feed record in the store
    shared,    \* that record is the very object refreshView works on
    articles,  \* items stored as articles of the feed
    aged,      \* items that the retention period has expired
    call,      \* guard -> the refresh or reload that holds it
    edit,      \* the settings action in progress
    clock,     \* time: refreshes and reloads begun
    renames,   \* renames so far: the n-th gives the title n
    troubles,  \* of MaxTroubles, those so far
    settled,   \* history: the record when last nothing was in progress
    purged,    \* history: undated items purged and still carried by the publisher
    removed    \* history: the user has removed the feed

records == <<row, shown, shared>>
stored  == <<articles, aged>>
bounds  == <<clock, renames, troubles>>
history == <<settled, purged, removed>>
vars    == <<publisher, records, stored, call, edit, bounds, history>>

\* What a feed record holds: a title (0: the publisher's or a placeholder), the
\* time of the last success (0: never), the ETag sent with the next request and
\* the retired guids.  User settings other than the title are written the same way.
Feed == [there : BOOLEAN, title : Nat, success : Nat, etag : Nat,
         retired : SUBSET Undated]

NoFeed == [there |-> FALSE, title |-> 0, success |-> 0, etag |-> 0, retired |-> {}]

\* refreshAll and refreshView exclude each other by isRefreshingAll,
\* refreshSingleFeed and reloadSingleFeed by refreshingFeedIds.
Guards == {"isRefreshingAll", "refreshingFeedIds"}

Ops    == {"none", "all", "aggregate", "view", "single", "reload"}
Stages == {"idle", "clear", "fetch", "failed", "notModified", "unparsable", "content",
           "lookup", "store", "finish", "written", "purge", "retire", "tombstone",
           "delete"}

Call == [op : Ops, stage : Stages, feed : Feed, began : Nat, etag : Nat,
         items : SUBSET Guids, retired : SUBSET Undated, found : SUBSET Guids,
         changed : SUBSET Guids]

Idle == [op |-> "none", stage |-> "idle", feed |-> NoFeed, began |-> 0, etag |-> 0,
         items |-> {}, retired |-> {}, found |-> {}, changed |-> {}]

Edit == [op : {"none", "rename", "unfile", "remove", "reload"}, feed : Feed]

NoEdit == [op |-> "none", feed |-> NoFeed]

TypeOK ==
    /\ publisher \in [etag : Nat, items : SUBSET Guids]
    /\ row \in Feed
    /\ shown \in Feed
    /\ shared \in BOOLEAN
    /\ articles \in SUBSET Guids
    /\ aged \in SUBSET Guids
    /\ call \in [Guards -> Call]
    /\ edit \in Edit
    /\ clock \in Nat
    /\ renames \in Nat
    /\ troubles \in Nat
    /\ settled \in Feed
    /\ purged \in SUBSET Guids
    /\ removed \in BOOLEAN

-----------------------------------------------------------------------------

Init ==
    /\ publisher \in [etag : {1}, items : SUBSET Guids]
    /\ \E success \in {0, 1} :
          row = [there |-> TRUE, title |-> 0, success |-> success, etag |-> success,
                 retired |-> {}]
    /\ shown = row
    /\ shared = FALSE
    /\ articles = IF row.success = 1 THEN publisher.items ELSE {}
    /\ aged = {}
    /\ call = [g \in Guards |-> Idle]
    /\ edit = NoEdit
    /\ clock = 1
    /\ renames = 0
    /\ troubles = 0
    /\ settled = row
    /\ purged = {}
    /\ removed = FALSE

-----------------------------------------------------------------------------
(* The record that must survive.  When nothing is in progress and store     *)
(* and database agree, the record is settled, until the user changes it.    *)

Quiet == edit = NoEdit /\ \A g \in Guards : call[g] = Idle

\* Of the tombstones, those whose article is gone and whose item the publisher
\* still carries.
Buried(feed) == (feed.retired \cap publisher.items) \ articles

Observe ==
    settled' = IF Quiet' /\ shown' = row' /\ row'.there
               THEN [row' EXCEPT !.retired = Buried(row)']
               ELSE settled

\* The user changes the record himself.
Unsettle == settled' = NoFeed

\* What a refresh may meet.
Trouble == troubles < MaxTroubles /\ troubles' = troubles + 1

-----------------------------------------------------------------------------
(* The beginning of a refresh.                                              *)

Move(g, stage) == [call[g] EXCEPT !.stage = stage]

Becomes(g, c) == call' = [call EXCEPT ![g] = c]

\* The refresh or reload forgets what it worked on.
Restart(g, stage) == [Idle EXCEPT !.op = call[g].op, !.stage = stage]

\* Mutant of Begin: the moment of the refresh is taken from an older clock reading.
BeginEarly(g, op, stage, feed) ==
    /\ call[g] = Idle
    /\ clock < MaxRefreshes
    /\ clock' = clock + 1
    /\ Becomes(g, [Idle EXCEPT !.op = op, !.stage = stage, !.feed = feed,
                               !.began = clock - 2])

Begin(g, op, stage, feed) ==
    /\ call[g] = Idle
    /\ clock < MaxRefreshes
    /\ clock' = clock + 1
    /\ Becomes(g, [Idle EXCEPT !.op = op, !.stage = stage, !.feed = feed,
                               !.began = clock + 1])

\* refreshAll, and refreshView of an aggregated view, read the records from the
\* database.  The feed is left out when it has none, or when the timer's refreshAll
\* finds it not due (304 backoff).
StartRefreshAll(op) ==
    /\ \/ row.there /\ Begin("isRefreshingAll", op, "fetch", row)
       \/ /\ ~row.there \/ op = "all"
          /\ Begin("isRefreshingAll", op, "written", NoFeed)
    /\ UNCHANGED <<publisher, records, stored, edit, renames, troubles, history>>

\* refreshView of the feed or its folder takes the record of the store, the object
\* itself.
StartRefreshView ==
    /\ shown.there
    /\ Begin("isRefreshingAll", "view", "fetch", shown)
    /\ shared' = TRUE
    /\ UNCHANGED <<publisher, row, shown, stored, edit, renames, troubles, history>>

StartRefreshSingle ==
    /\ row.there
    /\ Begin("refreshingFeedIds", "single", "fetch", row)
    /\ UNCHANGED <<publisher, records, stored, edit, renames, troubles, history>>

StartReload ==
    /\ row.there
    /\ Begin("refreshingFeedIds", "reload", "clear", row)
    /\ UNCHANGED <<publisher, records, stored, edit, renames, troubles, history>>

\* reloadFeed deletes the articles before it asks the publisher.
ReloadClears(g) ==
    /\ call[g].stage = "clear"
    /\ articles' = {}
    /\ Becomes(g, Move(g, "fetch"))
    /\ UNCHANGED <<publisher, records, aged, edit, bounds, history>>

-----------------------------------------------------------------------------
(* The publisher behind the proxy.                                          *)

\* A refresh sends the record's ETag, a reload sends none.
PublisherAnswers(g) ==
    /\ call[g].stage = "fetch"
    /\ IF call[g].op # "reload" /\ call[g].feed.etag = publisher.etag
       THEN Becomes(g, Move(g, "notModified"))
       ELSE Becomes(g, [Move(g, "content") EXCEPT !.items = publisher.items,
                                                  !.etag = publisher.etag])
    /\ UNCHANGED <<publisher, records, stored, edit, bounds, history>>

\* No answer, an error status, a paused host; or a body that is not a feed.  A
\* reload gives up at once.
FetchFails(g) ==
    /\ call[g].stage = "fetch"
    /\ \E stage \in {"failed", "unparsable"} :
          Becomes(g, IF call[g].op = "reload" THEN Restart(g, "purge")
                                              ELSE Move(g, stage))
    /\ UNCHANGED <<publisher, records, stored, edit, bounds, history>>

\* What the publisher carries changes.
Publish(items) ==
    /\ Trouble
    /\ publisher' = [etag |-> publisher.etag + 1, items |-> items]
    /\ settled' = [settled EXCEPT !.retired = @ \cap items]
    /\ purged' = purged \cap items
    /\ UNCHANGED <<records, stored, call, edit, clock, renames, removed>>

\* An item's date passes the retention cutoff.  An undated one counts from the
\* moment it was stored.
Age(i) ==
    /\ i \notin aged
    /\ i \in articles \/ i \notin Undated
    /\ aged' = aged \cup {i}
    /\ UNCHANGED <<publisher, records, articles, call, edit, bounds, history>>

-----------------------------------------------------------------------------
(* What a refresh stores.                                                   *)

\* storedRetiredGuids reads the database, not the record in hand.
ReadsRetired(g) ==
    /\ call[g].stage = "content"
    /\ Becomes(g, [Move(g, "lookup") EXCEPT
                      !.retired = IF row.there THEN row.retired
                                               ELSE call[g].feed.retired])
    /\ UNCHANGED <<publisher, records, stored, edit, bounds, history>>

\* Mutant of Admits: an undated item always looks new.
AdmitsUndated(i, retired) == i \in Undated \/ i \notin aged

\* admitsOnIngest: an undated item is judged by the tombstones, a dated one by age.
Admits(i, retired) == IF i \in Undated THEN i \notin retired ELSE i \notin aged

\* getArticleByGuid of every item tells the new ones from those whose content may
\* have changed; a reload does not ask.
LooksUp(g) ==
    LET known == IF call[g].op = "reload" THEN {} ELSE articles IN
    /\ call[g].stage = "lookup"
    /\ \E changed \in SUBSET (call[g].items \cap known) :
          Becomes(g, [Move(g, "store") EXCEPT
             !.found = {i \in call[g].items \ known : Admits(i, call[g].retired)},
             !.changed = changed])
    /\ UNCHANGED <<publisher, records, stored, edit, bounds, history>>

AfterStore(g) ==
    IF call[g].op = "reload" THEN Restart(g, "purge")
                             ELSE [Move(g, "finish") EXCEPT !.found = {}, !.changed = {}]

\* addArticles and updateArticles put whole rows.  Either may fail (no space left):
\* the refresh goes on as if it had not.
Stores(g) ==
    /\ call[g].stage = "store"
    /\ \E new \in {call[g].found, {}}, again \in {call[g].changed, {}} :
          /\ articles' = articles \cup new \cup again
          /\ aged' = aged \ ((new \ articles) \cap Undated)
    /\ Becomes(g, AfterStore(g))
    /\ UNCHANGED <<publisher, records, edit, bounds, history>>

-----------------------------------------------------------------------------
(* The end of a refresh: persistFreshness writes the whole record back.     *)

\* The record in hand changes, and updateFeed puts it, whether or not there still is
\* one.  Nobody asks whether the put succeeded.
WriteBack(g, feed) ==
    /\ row' \in {feed, row}
    /\ shown' = IF call[g].op = "view" /\ shared THEN feed ELSE shown
    /\ Becomes(g, [Restart(g, "written") EXCEPT !.feed = feed])
    /\ UNCHANGED <<publisher, shared, stored, edit, bounds, history>>

\* Mutant of RecordsFailure: a failure resets the time of the last success.
RecordsFailureAsNever(g) ==
    /\ call[g].stage = "failed"
    /\ WriteBack(g, [call[g].feed EXCEPT !.success = 0])

RecordsFailure(g) ==
    /\ call[g].stage = "failed"
    /\ WriteBack(g, call[g].feed)

\* A 304, and a body that is not a feed: the publisher is alive.
RecordsReach(g) ==
    /\ call[g].stage \in {"notModified", "unparsable"}
    /\ WriteBack(g, [call[g].feed EXCEPT !.success = call[g].began])

\* Mutant of RecordsSuccess: every success brings the publisher's title.
RecordsSuccessAsFirst(g) ==
    /\ call[g].stage = "finish"
    /\ WriteBack(g, [call[g].feed EXCEPT
                        !.title = 0,
                        !.success = call[g].began,
                        !.etag = call[g].etag,
                        !.retired = call[g].retired \cap call[g].items])

\* The first success brings the publisher's title.
RecordsSuccess(g) ==
    /\ call[g].stage = "finish"
    /\ WriteBack(g, [call[g].feed EXCEPT
                        !.title = IF call[g].feed.success = 0 THEN 0 ELSE @,
                        !.success = call[g].began,
                        !.etag = call[g].etag,
                        !.retired = call[g].retired \cap call[g].items])

\* Mutant of UpdatesStore: refreshSingleFeed leaves without releasing its guard.
UpdatesStoreHangs(g) ==
    /\ call[g].stage = "written" /\ call[g].op # "single"
    /\ shown' = IF call[g].op # "all" THEN row
                ELSE IF shown.there /\ call[g].feed.there THEN call[g].feed
                ELSE shown
    /\ shared' = FALSE
    /\ Becomes(g, Restart(g, "purge"))
    /\ UNCHANGED <<publisher, row, stored, edit, bounds, purged, removed>>
    /\ Observe

\* refreshAll merges the records of the refresh into the store, the others
\* read the database again.  All but refreshSingleFeed go on to purge.
UpdatesStore(g) ==
    /\ call[g].stage = "written"
    /\ shown' = IF call[g].op # "all" THEN row
                ELSE IF shown.there /\ call[g].feed.there THEN call[g].feed
                ELSE shown
    /\ shared' = FALSE
    /\ Becomes(g, IF call[g].op = "single" THEN Idle ELSE Restart(g, "purge"))
    /\ UNCHANGED <<publisher, row, stored, edit, bounds, purged, removed>>
    /\ Observe

-----------------------------------------------------------------------------
(* purgeExpiredArticles, at the end of every refresh but refreshSingleFeed. *)

\* Starred articles and the open one are spared.
PurgeReads(g) ==
    /\ call[g].stage = "purge"
    /\ \E expired \in SUBSET (articles \cap aged) :
          Becomes(g, IF expired = {} THEN Idle
                     ELSE [Move(g, "retire") EXCEPT !.found = expired])
    /\ UNCHANGED <<publisher, records, stored, edit, bounds, purged, removed>>
    /\ Observe

\* retireUndatedGuids reads the record and then writes it.
PurgeReadsFeed(g) ==
    /\ call[g].stage = "retire"
    /\ Becomes(g, IF row.there /\ call[g].found \cap Undated # {}
                  THEN [Move(g, "tombstone") EXCEPT !.feed = row]
                  ELSE Move(g, "delete"))
    /\ UNCHANGED <<publisher, records, stored, edit, bounds, history>>

PurgeRetires(g) ==
    /\ call[g].stage = "tombstone"
    /\ row' = [call[g].feed EXCEPT !.retired = @ \cup (call[g].found \cap Undated)]
    /\ Becomes(g, [Move(g, "delete") EXCEPT !.feed = NoFeed])
    /\ UNCHANGED <<publisher, shown, shared, stored, edit, bounds, history>>

\* removeArticles goes by id: an article stored anew since then is not deleted.
PurgeDeletes(g) ==
    LET deleted == call[g].found \cap aged IN
    /\ call[g].stage = "delete"
    /\ articles' = articles \ deleted
    /\ purged' = IF row.there
                 THEN purged \cup (deleted \cap Undated \cap publisher.items)
                 ELSE purged
    /\ Becomes(g, Idle)
    /\ UNCHANGED <<publisher, records, aged, edit, bounds, removed>>
    /\ Observe

PurgeFails(g) ==
    /\ call[g].stage \in {"retire", "tombstone", "delete"}
    /\ Becomes(g, Idle)
    /\ UNCHANGED <<publisher, records, stored, edit, bounds, purged, removed>>
    /\ Observe

-----------------------------------------------------------------------------
(* What the user does to the record.                                        *)

RenameReads ==
    /\ edit = NoEdit /\ row.there
    /\ Trouble
    /\ edit' = [op |-> "rename", feed |-> row]
    /\ UNCHANGED <<publisher, records, stored, call, clock, renames, purged, removed>>
    /\ Unsettle

RenameWrites ==
    /\ edit.op = "rename"
    /\ renames' = renames + 1
    /\ row' = [edit.feed EXCEPT !.title = renames + 1]
    /\ edit' = [op |-> "reload", feed |-> NoFeed]
    /\ UNCHANGED <<publisher, shown, shared, stored, call, clock, troubles, history>>

\* deleteFolder takes the records of the store and writes one after the other, without
\* their folder: the object it took, which a refreshView may have changed since.
UnfileReads ==
    /\ edit = NoEdit /\ shown.there
    /\ Trouble
    /\ edit' = [op |-> "unfile", feed |-> shown]
    /\ UNCHANGED <<publisher, records, stored, call, clock, renames, history>>

UnfileWrites ==
    /\ edit.op = "unfile"
    /\ row' \in {edit.feed, shown}
    /\ edit' = [op |-> "reload", feed |-> NoFeed]
    /\ UNCHANGED <<publisher, shown, shared, stored, call, bounds, history>>

\* removeFeed deletes the record, then the articles.
RemoveFeed ==
    /\ edit = NoEdit /\ shown.there
    /\ Trouble
    /\ row' = NoFeed
    /\ edit' = [op |-> "remove", feed |-> NoFeed]
    /\ removed' = TRUE
    /\ UNCHANGED <<publisher, shown, shared, stored, call, clock, renames, purged>>
    /\ Unsettle

RemoveArticles ==
    /\ edit.op = "remove"
    /\ articles' = {}
    /\ edit' = [op |-> "reload", feed |-> NoFeed]
    /\ UNCHANGED <<publisher, records, aged, call, bounds, history>>

\* reloadFeeds ends every settings action.
EditReloads ==
    /\ edit.op = "reload"
    /\ shown' = row
    /\ shared' = FALSE
    /\ edit' = NoEdit
    /\ UNCHANGED <<publisher, row, stored, call, bounds, purged, removed>>
    /\ Observe

\* The tab is closed and opened again.
Reload ==
    /\ Trouble
    /\ call' = [g \in Guards |-> Idle]
    /\ edit' = NoEdit
    /\ shown' = row
    /\ shared' = FALSE
    /\ UNCHANGED <<publisher, row, stored, clock, renames, purged, removed>>
    /\ Observe

-----------------------------------------------------------------------------

\* A refresh or reload after its beginning.
Continue(g) ==
    \/ ReloadClears(g)
    \/ PublisherAnswers(g)
    \/ FetchFails(g)
    \/ ReadsRetired(g)
    \/ LooksUp(g)
    \/ Stores(g)
    \/ RecordsFailure(g)
    \/ RecordsReach(g)
    \/ RecordsSuccess(g)
    \/ UpdatesStore(g)
    \/ PurgeReads(g)
    \/ PurgeReadsFeed(g)
    \/ PurgeRetires(g)
    \/ PurgeDeletes(g)
    \/ PurgeFails(g)

Start ==
    \/ \E op \in {"all", "aggregate"} : StartRefreshAll(op)
    \/ StartRefreshView
    \/ StartRefreshSingle
    \/ StartReload

UserStep ==
    \/ RenameReads
    \/ RenameWrites
    \/ UnfileReads
    \/ UnfileWrites
    \/ RemoveFeed
    \/ RemoveArticles
    \/ EditReloads
    \/ Reload

Next ==
    \/ Start
    \/ \E g \in Guards : Continue(g)
    \/ UserStep
    \/ \E items \in SUBSET Guids : Publish(items)
    \/ \E i \in Guids : Age(i)

Spec == Init /\ [][Next]_vars

\* Promises settle; a fetch has a timeout up to its headers, and the browser ends a
\* body that stalls.
RefreshFairness == \A g \in Guards : WF_vars(Continue(g))

FairSpec == Spec /\ RefreshFairness

-----------------------------------------------------------------------------
(* Properties that hold.                                                   *)

\* What a feed's record said when nothing was in progress stays true until the
\* user changes it, however refreshes of all kinds, purges, reloads of the tab and
\* writes of stale copies interleave afterwards: the user's title (refreshFeed
\* takes the publisher's only on the first success),
TitleIsKept ==
    settled.there /\ settled.success # 0 => row.there /\ row.title = settled.title

\* the time of the last success, which no failure, no 304 and no stale copy takes
\* back (persistFreshness),
SuccessIsKept == settled.there => row.success >= settled.success

\* and the tombstones of purged articles, which do not come back while the
\* publisher carries their items (storedRetiredGuids, keepRetiredGuidsStillInFeed,
\* admitsOnIngest, reloadFeed).
BuriedStaysBuried ==
    settled.there => settled.retired \subseteq row.retired \ articles

\* A refresh ends and releases its guard, whatever fails on the way: a guard that
\* stays held would end all refreshing until the next reload of the tab.
GuardsAreReleased == \A g \in Guards : call[g] # Idle ~> call[g] = Idle

-----------------------------------------------------------------------------
(* Why they hold: the parts of an inductive invariant.                     *)

\* A record that is going to be written, or may be, says what settled says.
Agrees(feed) ==
    settled.there =>
        /\ feed.there
        /\ settled.success # 0 => feed.title = settled.title
        /\ feed.success >= settled.success
        /\ settled.retired \subseteq feed.retired

RecordsAgree ==
    /\ Agrees(row) /\ row.success <= clock
    /\ Agrees(shown) /\ shown.success <= clock
    /\ settled.success <= clock

TombstonesHold ==
    /\ settled.retired \subseteq publisher.items
    /\ settled.retired \cap articles = {}
    /\ ~settled.there => settled.retired = {}

EditAgrees ==
    /\ edit.op \in {"rename", "remove"} => ~settled.there
    /\ edit.op = "unfile" => Agrees(edit.feed)
    /\ edit.feed.success <= clock

\* Stages at which the refresh, reload or purge holds a record, and at which it will
\* write a time of success.
Holding == {"clear", "fetch", "failed", "notModified", "unparsable", "content",
            "lookup", "store", "finish", "tombstone"}
Timed   == Holding \ {"failed", "tombstone"}

\* What a refresh has read lets it neither write nor store against settled.
CallAgrees(c) ==
    /\ c.began <= clock /\ c.feed.success <= clock
    /\ c.stage \in Holding => c.feed.there
    /\ c.feed.there => Agrees(c.feed)
    /\ c.stage \in Timed /\ settled.there => c.began >= settled.success
    /\ c.stage \in {"content", "lookup", "store", "finish"} => settled.retired \subseteq c.items
    /\ c.stage \in {"lookup", "store", "finish"} => settled.retired \subseteq c.retired
    /\ c.stage = "store" => settled.retired \cap (c.found \cup c.changed) = {}

CallsAgree == \A g \in Guards : CallAgrees(call[g])

RefreshInv ==
    /\ TypeOK
    /\ RecordsAgree
    /\ TombstonesHold
    /\ EditAgrees
    /\ CallsAgree

-----------------------------------------------------------------------------
(* What comments, documents and dialogs of the repository say and the code *)
(* does not do.                                                            *)

\* refreshFeed: after the first success "a user's rename is never clobbered".
RenameNeverClobbered ==
    [][\A g \in Guards :
          RecordsSuccess(g) /\ call[g].feed.success # 0 /\ row.there
              => row'.title = row.title]_vars

\* refreshFeed: "a failing refresh must never clobber a prior successful timestamp".
FailureKeepsSuccess ==
    [][\A g \in Guards : RecordsFailure(g) => row'.success >= row.success]_vars

\* The purge records its guids "so refresh does not re-add them".
PurgedStaysAway == purged \cap articles = {}

\* The dialog that removes a feed: it and "every cached article from it will be
\* removed".
RemovedStaysRemoved == removed /\ Quiet => ~row.there

\* reloadFeeds: every mutator calls it "so the in-memory snapshot stays the single
\* source of truth", so what deleteFolder writes back has the tombstones of a purge.
TombstonesAreShown == Quiet => purged \cap row.retired \subseteq shown.retired

\* A 304 says that "nothing changed since the last fetch": what the ETag stands for
\* has been stored.
EtagMeansStored ==
    Quiet /\ row.there /\ row.etag = publisher.etag
        => publisher.items \subseteq articles \cup row.retired \cup aged
=============================================================================
