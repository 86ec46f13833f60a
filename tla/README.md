# FeedZero: models and proofs

FeedZero is a feed reader that runs in the browser.  Feeds, articles and settings
live in an encrypted IndexedDB; a small server proxies fetches, sells licences and
stores, for those who turn sync on, one encrypted vault per passphrase.  This
directory holds TLA+ models of the parts of it whose correctness depends on the
order of events, the TLC configurations that check them, and TLAPS proofs.
`PROJECT.json` maps every definition to the lines it models and lists runs,
mutants, findings, hazards and theorems.  Paths below are those of the repository
under `src/`.

## 1. The system

| component | state it keeps | operations | what must be true of it |
|---|---|---|---|
| Vault sync: `stores/sync-store.ts`, `stores/sync-coordinator.ts`, `core/sync/sync-service.ts`, `core/sync/sync-handler.ts` | credentials, status, last ETag, the pull in flight (memory); vault keys and the `sync-pending-push` marker (localStorage); the vault (server) | enableSync, disableSync, deactivateLocal, logout, push, pull, forceResync, scheduleSyncPush, switchToExistingCloud, restore at boot; PUT, GET, DELETE | a change is not lost between device and cloud; late answers do not undo a settings action |
| Feed refresh: `core/feeds/feed-service.ts`, `stores/feed-store.ts` | feed records (database and a copy in the store), the guards isRefreshingAll and refreshingFeedIds | refreshAll, refreshView, refreshSingleFeed, reloadSingleFeed, add, remove, rename and other edits | a refresh does not undo an edit, a removal or a purge; what the publisher carries arrives |
| Refresh pacing: `hooks/use-auto-refresh.ts`, `host-pause.ts`, `group-by-host.ts`, `refresh-backoff.ts` | pauses by host, streaks of 304 | record a wait, ask whether a host is paused or a feed due, pack batches | a wait is never cut short; one request per host; no feed is left out for good |
| Article rows: `stores/article-store.ts`, the article table of `db.ts`, `dedupe-articles.ts`, `prefetch-service.ts`, `release-offline-content.ts`, `article-retention.ts` | rows; in memory three lists of copies and the mark-as-read timer | open, star, read, sweep, undo, load, de-duplicate, purge, prefetch, release | one row per article at rest; the user's star and read state survive |
| Keys and boot: `core/storage/key-manager.ts`, `stores/boot-fsm.ts`, `stores/app-store.ts`, opening and deleting in `db.ts`, the onboarding steps | wrapped keys and flags in localStorage, the salt and canary in IndexedDB, the boot state | boot, onboard, recover, switch vault, enable sync, upgrade the KDF, wipe | the stored keys open the stored data and the vault; nothing is deleted unasked |
| Licences: `core/stripe/webhook-handler.ts`, `core/license/issuer.ts`, `storage-upstash.ts` | seen events, licence records, the customer's index, the deny-list (Redis) | webhook, issue, renew, revoke, reissue | a paid event has its effect once; who cancels loses the licence |
| Licence in the browser: `stores/license-store.ts`, the billing pages, `verify-handler.ts`, `retrieve-handler.ts`, `issue-from-recovery-handler.ts` | a token (localStorage), the tier (memory) | refresh, save, clear, recover | an ended licence is dropped, a good one is not |
| Proxy: `core/proxy`, the limiter of `server.ts` | counters, response cache | count, look up, fetch, put | limits hold at the edge of a window; an answer is a whole version |
| Preferences: `stores/preferences-store.ts`, `core/storage/db.ts` | the preferences row and its stamp (IndexedDB), the store's copy, the preferences in the vault | hydrate, update, reload; export, gate, import, merge | the later change wins; a change survives until a later one |
| Subscriptions: `stores/feed-store.ts`, `core/feeds/feed-service.ts`, `components/settings/import-view.tsx`, `core/opml/opml-service.ts` | the tables of feeds and folders and the store's copies | add, import, remove, file, make and delete folders, organize, export | one record per address; no operation here brings back what was removed; nothing is left out of an export |
| Vault stores: `core/sync/adapters`, `core/sync/migration` | vault objects or files | get, put, delete, migrate | a vault that was answered ok is there, and whole |
| Parsing, cleaning, extraction, signal, briefings, catalog, UI | little or none | | not a question of order |

How they interact: a store action writes the database and calls
`scheduleSyncPush`, which sets the durable marker and starts a debounce timer;
`push` exports the whole database and PUTs it; `pull` (at boot, from refreshAll on a
timer, on focus) flushes the marker, downloads, and replaces the whole database.
`refreshAll` calls `pull`, refreshes the feeds in batches, purges what retention
has expired, reloads the stores and schedules a push.

What makes it hard: JavaScript runs one piece of code at a time, but every `await`
is a point where any other handler, timer or dialog may run, and most operations
read a record, await the network and write the record back.  Requests fail, answers
get lost, a tab is closed at any moment, and a second device works on the same vault.

## 2. Modules

| module | what it is | composed in |
|---|---|---|
| `VaultSync` | the sync protocol: devices, their calls in flight, the server | `MCVaultSync` (TLC instances) |
| `ChangeLedger` | what sync promises, without protocol: the specification `VaultSync` implements | |
| `FeedRefresh` | one feed under refresh: its record, its articles, the publisher | `MCClient` |
| `Pacing` | when feeds are asked: timer, backoff, batches, pauses | `MCServer` |
| `ArticleRows` | the rows of one article and everything that writes them | `MCBrowser` |
| `KeyVault` | keys, local database, boot and the flows that replace keys, with the vaults in the cloud | `MCBrowser` |
| `Preferences` | one device's preferences beside the other devices': store, row, vault | `MCBrowser` |
| `Subscriptions` | the list of feeds and its folders under the operations of the feed store | `MCBrowser` |
| `Licences` | licences on the server: webhook, issuer, Redis | `MCServer`, `LicenceClient` |
| `LicenceClient` | the licence in a browser, on top of `Licences` | `MCClient` |
| `Proxy` | limiters, cache and the path of a request | `MCServer` |
| `VaultMigration` | vaults moved from Blob to Upstash while clients push | `MCServer` |
| `FileVault` | vaults as files, written by processes that may die | `MCServer` |
| `VaultSyncProofs`, `FeedRefreshProofs`, `ArticleRowsProofs`, `KeyVaultProofs` | the proofs about the module each is named after | |
| `LicencesProofs` | the proofs about `Licences` and `LicenceClient` | |
| `RequestProofs` | the proofs about `Proxy` and `Pacing` | |
| `ServerProofs` | the proofs about `FileVault` and `VaultMigration`, and about `MCServer` as a whole | |
| `BrowserProofs` | the proofs about `Preferences` and `Subscriptions`, and about `MCBrowser` as a whole | |

Parts that share no state are checked in one run: `MCServer` (with `Pacing`, which spaces the
requests a browser sends to that server), `MCBrowser` and `MCClient` choose in the initial state which part takes steps (`part`) and leave the others at rest.  That is a way
to run them together, not a claim that they do not overlap in time; since they read none
of each other's variables, every interleaving of them restricts to one of a single part.

### VaultSync

A copy of the data (on a device, in a vault) is the set of edits it contains; edits
are made once and never undone.  `call` maps frames to store methods in progress.
A call is a record of the method (`op`), the device, the point it has reached
(`stage`), what it exported or downloaded (`snap`) and an ETag (`tag`).  Code
between two awaits is one action:

| action | code |
|---|---|
| `Edit`, `EditUnscheduled`, `ScheduleLate` | a store action with, and one without, `scheduleSyncPush`, and one that schedules while a logout waits |
| `TimerFires` … `PushStored` | `push` before and after its PUT |
| `StartPull`, `FlushStored`, `PullNotModified`, `PullImports`, `PullSettles` | the stretches of `pull` |
| `StartResync`, `ResyncImports`, `ResyncSettles` | `forceResync` |
| `StartEnable`, `EnableRejected`, `DisableSync`, `StartErase`, `EraseSettles`, `StartLogout`, `LogoutSettles`, `Onboard` | turning sync on and off; `logout` before and after it awaits `destroyLocal` |
| `StartSwitch`, `SwitchApplies`, `SwitchBreaks`, `SwitchSettles` | `switchToExistingCloud`, replacing or merging |
| `CallFails`, `ImportFails` | the error branches |
| `Reload` | a tab reload or crash, and the boot that follows |
| `HandlePut`, `HandleGet`, `HandleDelete` | the server |
| `RequestFails`, `AnswerLost`, `DeletionLost` | the network |

`uploaded`, `queued`, `owed`, `discarded` and `erased` are history variables: no
guard reads them.  `owed` is the heart of the properties: an edit is owed when it
was scheduled while no call of its device was in progress.  (An edit made while a
call is in progress may be lost: see the findings.)

Abstracted: the content of the vault and its encryption; the vault id and key
derivation (all devices of the model share a passphrase); the preferences, which
`Preferences` has; size limits and rate limits, which are failing
requests; several tabs of one browser; a browser without localStorage.
While a logout waits the database is closed and the credentials are still there: a push or a pull
that starts finds nothing to export or to import into, and a timer or marker that is set stays, for a
push that does nothing without credentials.  `destroyLocal` ignores a deletion that fails; the data
counts as gone all the same, because the keys are and the next onboarding deletes it again.
The download and the import of a switch happen in two actions although the code
closes, deletes and reopens the database in between: nothing else can use the
database then.

### FeedRefresh

The feed record exists twice, in the database (`row`) and in the store (`shown`); a
refresh carries a third copy across its awaits (`call[g].feed`) and writes the whole
of it back.  `call` maps the two guards of the store to what holds them, so at most two
refreshes of the feed run together.  Articles are the set of stored guids, `aged` those
past the retention cutoff, and `retired` in a record the tombstones of purged articles
without a date.

| action | code |
|---|---|
| `StartRefreshAll`, `StartRefreshView`, `StartRefreshSingle`, `StartReload` | the four ways a refresh begins, and which copy of the record each takes |
| `PublisherAnswers`, `FetchFails` | the fetch of `refreshFeed` and `reloadFeed` |
| `ReadsRetired`, `LooksUp`, `Stores`, `ReloadClears` | the stretches of `refreshFeed` and `reloadFeed` between awaits |
| `RecordsFailure`, `RecordsReach`, `RecordsSuccess` | `persistFreshness` and what precedes it on each path |
| `UpdatesStore` | `mergeRefreshResultsIntoStore` or `reloadFeeds` |
| `PurgeReads` … `PurgeFails` | `purgeExpiredArticles` |
| `RenameReads` … `EditReloads` | `renameFeed`, `deleteFolder`, `removeFeed`, each ended by `reloadFeeds` |
| `Publish`, `Age`, `Reload` | the publisher, time, the browser |

`settled`, `purged` and `removed` are history variables.  `settled` is the record as it
was when last nothing was in progress and both copies agreed; an action of the user
on the record gives it up.  `shared` says that `refreshView` works on the store's own
object, which its writes then change in place.

Abstracted: other feeds (`refreshFeed` reads and writes one); the title stands for
every user setting of a record; the 304 streak and its backoff, a choice of
`StartRefreshAll` (`Pacing` has them); the items of one refresh are looked up together, although the
code awaits each; the read and the set of `reloadFeeds` are one action; the record
is read and the clock taken together; settings actions come one at a time and
their puts succeed; rules, stars and the open article only spare articles of the
purge; the retention period does not grow; the pull before `refreshAll`, which
`VaultSync` models; duplicate rows of one article, which `ArticleRows` models.

### Pacing

A feed is its place in the table.  Time passes in ticks; a request ends within the tick it
was made in (the proxy's timeout), so `TimePasses` waits for none to be under way.  A pass takes the
records it read, leaves out what is not due (`isFeedDueForRefresh`), packs the rest into batches of
at most `Concurrency` feeds, one per host (`groupByHostForRefresh`), and works on a batch until all of it has
answered.  A host may ask for a wait (`Retry-After`), which is capped and kept in `pause`; a
request of a paused host is not sent.  The single refresh takes the other guard.

Abstracted: the timer may fire in any tick, which includes when it does; the row reads and
puts succeed; a reload of the tab, which clears the pauses; `reloadFeed`, which asks without looking
at pauses.

### ArticleRows

One item of one feed, whose twins are rows with different random ids (numbers, for their
order, which the de-duplication uses).  `table` is the truth; `byFeed`, `listed` and `opened` are the
store's copies and `timer` the copy that the mark-as-read callback holds.  Every writer reads
a row, awaits and writes the whole row back: single updates (`writes`), the sweep of
`markAllAsRead` and its undo (`sweep`), and the background tasks (`task`): refreshes with
their look-up, store and de-duplication, the purge, the preload, the prefetch passes (starred
items, feeds opted in, and feeds that are often read, which is a choice of `PrefetchReads` because it
depends on other items), the release of offline copies.

`starWanted`, `calm` and `revived` are history: what the user last asked for, whether every
act and task so far began with nothing under way, and whether a write brought back a row
that had been deleted.

Abstracted: the text of a row (that it was saved offline is one bit); other items; muting and
sorting; failing writes; a second prefetch run beside the first (they write the same text).

### KeyVault

A database key is made of a passphrase and a salt, a vault key of a passphrase and the KDF
stamped on the vault; whether a ciphertext can be read is whether the key is the one it was
made with.  `flow` is the onboarding, recovery, switch (replace or merge), enabling of sync or wipe
in progress and its stage; each await is an action, at each the page may be closed
(`ClosePage`) or the step fail (`StepFails`).  `LoadPage` is the boot with its canary test.

Abstracted: what the library contains (what a user brings and what they add here); pushes are
one step, because `VaultSync` has them in pieces; time.

### Preferences

The preferences are one record with one stamp (ADR 022).  One device has them three times: in the
row (`row`, `stamp`), in the store (`memory`) and in what its calls carry (`lane`); of the other
devices there is only the record that they hold, change, push and pull.  A write is `update` or the
first write of `hydrate`: its row is put and stamped in two transactions (`PutRow`, `PutStamp`),
rows in the order in which the writes began.  `BeginPush` to `ShowRestored` follow the sync store:
what is exported when, what is compared when, and what reads the row back into the memory (a restore
does, a routine pull does not).  `own` is history: the last write of the device that was stamped
while no import ran beside it.

Abstracted: all clocks agree and no two stamps are of one millisecond; row and stamp are exported
together (the code asks for both at once); one debounced push at a time; the preferences a boot
finds in localStorage are the defaults; signing out.

### Subscriptions

`feeds` is the table, `shown` the store's copy; `folders` and `shelves` likewise.  An operation is a
task that reads the copy or the table, awaits, writes whole records, and ends by reloading one copy
or both (`ShowsFeeds`, `ShowsFolders`).  `Checks` to `Stores` are `addFeedFlow` and
`addPlaceholderFeed`, with the record that cannot be decrypted (`orphans`) and the index that counts
it; an import is an add that may become a placeholder and is then filed.  `Imports` is the pull of
`refreshAll`: it replaces the tables, and what the vault has more or less is what other devices may
have done.  `elsewhere` holds the records that they may still have, which are those this table has ever
had from a vault or by its own adds; since PUT is unconditional, a device that did not pull can bring one of them
back, with its id.  `removed` is history: the ids of the records that were removed while nothing else was
in progress, until a vault brings one of them back.

Abstracted: what a feed's record holds besides its address and folder; its articles; the names,
colours and nesting of folders, and with them the reuse of a folder of the same name; the tier,
which is the number `FeedLimit`; the parsing and writing of OPML.  An import whose address led to
another is not filed, although a feed of the address in the file may have come meanwhile.

### Licences and LicenceClient

`handler` holds the webhook requests in progress, one Redis command per action.  Stripe keeps an
event in `outbox` until it is answered 200, delivers events in any order and perhaps again, and
charges the next period only when it has stopped delivering the last one (three days of
retries are shorter than any period).  `LicenceClient` adds the browser: `check` holds the verifications
on their way.  The expiry is compared as each endpoint does: verification accepts the last
second, as the page after checkout does, and the recovery does not.  A check that `VerifyFails`
ends has no answer of the endpoint (`NoVerdict`): either none or a 5xx, which keeps the token
(`failed`), or something below 500 that confirms nothing, a 429 or a body that is no JSON, which `refresh`
takes for a rejection (`unread`).

Abstracted: signatures (a token is the key and expiry that were signed); the manual issue
handler and the e-mails; one customer.

### Proxy, VaultMigration, FileVault

`Proxy` follows a request through a limiter (INCR, EXPIRE, TTL in Redis, or a window in
memory), the cache and the fetch.  `VaultMigration` has one action per command of a run and per
vault, with `--execute`, `--delete-blob` and `--skip-existing`, a run that is aborted and started again,
and clients that push meanwhile.  `FileVault` has one action per system call of a put.

## 3. What the runs check

| run | instance | shows |
|---|---|---|
| `sync_network` | 2 devices, 2 edits, 2 frames, 1 fault, 1 reload | `TypeOK`, `OwedIsKept`, `FlushBeforeImport`, and that `VaultSync` implements `ChangeLedger` (`KeepsPromises`) |
| `sync_settings` | 1 device, 1 edit, 2 frames, 2 settings actions, 1 fault, 1 reload | `NothingAfterLogout`, `CredentialsArePersisted`, `KeepsPromises` through the settings actions, and `OwedReachesCloud` |
| `refresh_record` | 1 undated item, 2 refreshes or reloads, any 2 of: change by the publisher, rename, removal, folder deletion, reload of the tab | `TypeOK`, `TitleIsKept`, `SuccessIsKept`, `BuriedStaysBuried` |
| `client` | refresh: 1 dated item, 2 refreshes; licence: 1 subscription, 1 key, 1 webhook request at a time, 2 checks, 2 acts or lost answers, clock to 2 | `GuardsAreReleased`; `EndedTokenIsDropped`, `NoTokenEndsFree`, `DropsOnlyAnswered` |
| `server` | licences: 1 subscription, 2 keys, 2 webhook instances, 1 mishap, clock to 2; proxy: 2 requests at once, limit 1; migration: 2 vaults, 2 runs, 1 push, 2 faults; files: 1 vault, 2 processes, 3 puts, 2 faults; pacing: 3 feeds of 2 hosts, 2 passes, 5 ticks | `MintedOnce`, `PaidHasLicence`, `CancelledLosesLicences`; `TwiceTheLimit`, `CounterWillReset`, `BodiesAreWhole`; `NoVaultLost`, `CleanReportIsTrue`; `ReadsAreWhole`, `AnsweredIsStored`; `BatchesSpareHosts`, `PassReachesFeeds`, `PausesAreHonoured` |
| `browser` | keys: 2 passphrases, 3 databases, 2 mishaps; rows: 3 ids, 3 moves; preferences: 1 setting, 2 changes, 1 restore, reload or failure; subscriptions: 2 addresses, 2 folders, 3 operations, 2 at a time, 1 failure | `KeysOpenData`, `OnboardedVaultsSurvive`, `StoredKeyOpensVault`; `TwinsAreCollapsed`, `DedupeLeavesOne`, `CalmActsStick`; `OwnChangeStands`; `NoCopyComesBack` |

`ServerTypeOK`, `BrowserTypeOK` and `ClientTypeOK` conjoin the type invariants of the modules.

**Bounds.**  Two frames let a push meet a pull, a settings action meet either, and an orphaned
request of a closed tab meet the boot that follows; every counterexample below
needs no more.  Two edits are enough for one to be in a vault and one
not; with settings actions one edit has to do.  Two settings actions are one that is under way and one that
follows it; the next onboarding after a logout is not counted.  Refreshes are counted by `MaxRefreshes` (the clock starts at
1, so 3 means two), which is enough for one to overtake another, for a purge to meet a
refresh and for a refresh to follow a settled purge; `MaxTroubles` bounds together
what a refresh may meet, so that each pair of troubles occurs.  Its initial states are a feed
that has never been fetched and one that has, with and without an item.  Two keys are what
a creation and a renewal that overtake each other need, a clock of 2 is what a renewal and an
expiry need; `Charge` does not begin a period that the clock cannot end.  Two
processes and three puts let a write overtake another and a third follow a crash.  One setting is enough
for a last-write-wins record; that a write takes more than its setting along needs two, which
`Preferences_patch.cfg` has.  Three operations on feeds are two that overlap and one that follows.  Three rows
make one twin too many, three moves an act on each side of a task.  Faults, crashes,
acts and clocks are bounded by the `Max...` constants, each named in its module; the runs stop
when they are used up, so deadlock is not checked.  Frames, edits, webhook requests and
keys are symmetric where no temporal property is checked; migration vaults and processes
are not reduced.

**Fairness.**  `VaultSync` (`FairSpec`): a timer that is set fires, a promise settles, the server
answers a request that reaches it, and the auto-refresh hook
(`hooks/use-auto-refresh.ts`) keeps starting pulls while the tab is open.  Users
need not do anything and faults need not happen.  `FeedRefresh` (`RefreshFairness`): a refresh
goes on.  `proxyFetch` ends a fetch after 20 s, but clears the timeout when the headers
are there; that a body which stalls is ended is left to the browser.  `LicenceClient`
(`ClientFairness`): a verification that is under way ends, in an answer or an error, and
`hooks/use-license-refresh.ts` keeps starting one (daily and on focus) while the tab is open.
Nothing is assumed of Stripe, the user or the clock.

### Where the code disagrees with its documentation

Each of these runs finds a counterexample; `findings` in `PROJECT.json` quotes the
line it contradicts.

| run | property | what happens |
|---|---|---|
| `sync_overwrite` | `QueuedIsKept` | a pull imports over a change made while it was on the wire |
| `refresh_rename` | `RenameNeverClobbered` | a refresh under way writes the old title over a rename |
| `licence_retry` | `RetriesRepair` | the creation of a subscription and its first invoice are marked as seen, then the command that should issue fails, for both: Stripe's retries are answered as duplicates and no licence is issued |
| `articles_star` | `StarSurvives` | a sweep that marks all as read writes rows captured before a star was set |
| `preferences_patch` | `PatchKeepsTheRest` | a change of one setting writes the store's stale memory over what a pull imported |
| `subscriptions_export` | `ExportIsLossless` | after a pull the store has a folder's feeds but not the folder, and the export leaves them out |

The modules state more such claims of comments and documents.  They are violated too and
have no run of their own; the instance named finds a counterexample
when the property is put into its configuration.

| module | property | instance | what happens |
|---|---|---|---|
| `VaultSync` | `MarkerCoversQueued` | `VaultSync_overwrite.cfg` | a push clears the marker of a change made while it was on the wire |
| | `SyncedNeedsCredentials` | `VaultSync_settings.cfg` | a late answer shows "synced" after sync was turned off |
| | `ErasedStaysErased` | `VaultSync_settings.cfg` | a push on the wire recreates a deleted vault |
| | `DiscardedStaysAway` | `VaultSync_settings.cfg` | a push on the wire undoes a restore from the cloud |
| | `LogoutKeepsVault` | `VaultSync_settings.cfg` | a page closed while a logout waits, with a push still marked as due, starts again with the stored keys and an empty database and uploads that |
| | `NotModifiedMeansHeld` | `VaultSync_overwrite.cfg` | the remembered ETag is not that of the data held |
| `FeedRefresh` | `FailureKeepsSuccess` | `FeedRefresh_record.cfg` | a failing refresh takes back another's success |
| | `PurgedStaysAway` | `FeedRefresh_record.cfg` | a refresh under way restores a purged article and drops its tombstone |
| | `TombstonesAreShown` | `FeedRefresh_record.cfg` | the store's copy lacks the tombstones of a purge, and `deleteFolder` writes it back |
| | `RemovedStaysRemoved` | `FeedRefresh_record.cfg` | a refresh under way puts a removed feed back |
| | `EtagMeansStored` | `FeedRefresh_record.cfg` | a reload whose fetch fails leaves an empty feed that answers 304 |
| `ArticleRows` | `ReadIsShown` | `ArticleRows_star.cfg` | the view reloads before the read state has been written |
| | `OpenIsSpared` | `ArticleRows_star.cfg` | an article opened between the purge's read and its delete is deleted |
| `KeyVault` | `ErrorIsTerminal` | `Browser.cfg` | completing the onboarding makes a boot ready that had ended in an error |
| | `DeletedOnlyOnDemand` | `Browser.cfg` | an onboarding that is begun again deletes the vault of the keys stored |
| | `LibraryStaysInCloud` | `Browser.cfg` | a recovery whose import failed pushes an empty database over the library |
| `Pacing` | `RefreshesSpareHosts` | `Server.cfg` | a folder is refreshed without batches |
| `Licences` | `CancelledHoldsNothing` | `Server.cfg` | a key added after the deny-list was written stays usable |
| `LicenceClient` | `RejectsOnlyEnded` | `Client.cfg` | a renewal does not reach the token the browser keeps, which the server rejects |
| | `RefreshDropsOnlyRejected` | `Client.cfg` | a 429 or a body that is no JSON drops a token nobody rejected |
| | `TierNeedsToken` | `Client.cfg` | an old answer gives the tier back after the token was cleared |
| `Proxy` | `SlidingWindow` | `Server.cfg` | the window is fixed: a burst on each side of its edge passes |
| | `CounterAutoResets` | `Server.cfg` | an instance dies between INCR and EXPIRE: the counter never resets |
| | `AnswersAreCleaned` | `Server.cfg` | the cache keeps the raw body, and answers with it |
| `VaultMigration` | `SkipKeepsPushes` | `Server.cfg` | a client pushes between the check and the write |
| | `PushesSurviveMigration` | `Server.cfg` | a second run replaces what a client pushed |

## 4. What is proved

A TLC run shows a property for the instance of section 3; the theorems below state it for every
value of the constants, from the `...Assumption` that the module declares (bounds are
numbers, sets of sessions or processes are not empty, and the like) and from nothing else.  Each
proof follows one argument: an invariant that contains the property is true initially, is kept
by every action, and implies the property.  The invariants were checked with TLC first.

`VaultSyncProofs`, for every number of devices, edits, frames and every bound:

* `SyncInvariant`: `Spec => []SyncInv`;
* from it `TypeCorrect`, `OwedEditsAreKept`, `PullFlushesFirst`, `LogoutIsFinal`,
  `CredentialsSurviveReload`;
* `SyncImplementsLedger`: `Spec => KeepsPromises`, the refinement of `ChangeLedger`.

`OwedIsKept` is not inductive: a push that clears the marker, or an import that
replaces the data, is harmless only because of what the call knew when it began.
`SyncInv` adds that: `CallsCarryOwed` (an upload in progress carries every owed edit
the cloud lacks; a call that will import began with nothing to lose),
`OneSettingsCall` (the dialogs exclude each other), `SwitchStoresKeys` (a
switch that rewrote the database has stored its keys, which gives
`CredentialsArePersisted`), `CallsHaveDevice`, and for the logout `ClosedOwesNothing` (a
closed database has no promise to keep) and `LogoutOnlyCloses` (a logout has nothing on the wire).  There is one lemma per action,
with one step per conjunct.  The refinement maps each action to the step of the ledger that it
takes (queue, upload, discard, erase) or to a stutter, under the same invariant.

`FeedRefreshProofs`, for every set of items and every bound:

* `RefreshInvariant`: `Spec => []RefreshInv`;
* from it `RefreshTypeCorrect`, `SettledTitleIsKept`, `SettledSuccessIsKept`,
  `SettledTombstonesHold`.

The argument: what a refresh read before `settled` became what it is cannot still be in
progress, since the record settles only when nothing is.  So every copy in flight
agrees with `settled` (`RecordsAgree`, `CallAgrees`, `EditAgrees`), the time a refresh will
write is not earlier than the settled one, the tombstones it has read contain the
settled ones, and nothing it is going to store is buried (`TombstonesHold`,
`CallAgrees`).  What is made while a refresh is in progress has no such protection; those
are the findings.  `CallStepKeepsInv` covers every step of a refresh, `EditStepKeepsInv`
every settings action.

`ArticleRowsProofs`, for every set of row ids and every number of acts:

* `RowsInvariant`: `ArticleSpec => []RowsInv`;
* from it `TwinsDoNotStay` (`TwinsAreCollapsed`), `DedupeSparesTheItem` (`DedupeLeavesOne`, an
  action property) and `CalmActsAreKept` (`CalmActsStick`).

`TwinsInv` says who will remove a twin: a refresh that has not yet looked for twins, has seen every
row there is, or is about to delete all but one.  `KeeperInv` is why two sweeps over the same rows leave
one: below every row that a sweep is about to delete there is a row in the table with a lower id, so
neither deletes what the other keeps.  `CalmInv` is what the store knows while the user has acted
only when nothing was under way: one thing is under way at a time (`Alone`), and every copy, that of the
store, the timer, the writes and the tasks, agrees with what the table will hold when the write under way
has landed (`Intended`).

* `RowsTypeCorrect`: `ArticleSpec => []ArticleTypeOK`.  It needs that no row, copy, write or task has
  an id that was never given (`IdsInv`), whatever was captured before an await.

`KeyVaultProofs`, for every set of passphrases, databases and mishaps:

* `KeyInvariant`: `KeySpec => []KeyInv`;
* from it `StoredKeyOpensTheData` (`KeysOpenData`), `StoredKeyOpensTheVault`
  (`StoredKeyOpensVault`) and `VaultsOutliveTheFlows` (`OnboardedVaultsSurvive`, an action property).

`KeysFollowData` says what a flow in the middle leaves open: a database just deleted holds nothing,
and a new one only what was encrypted with the key at hand, until the flow has stored that key.
`VaultKeysAreStrong` holds while nothing has gone wrong: a stored vault key is the stronger one, or belongs
to a flow that is about to upgrade it.  `OnboardingHasReason` is why an onboarding that begins
again, and deletes a vault, is never one of a browser that had completed it.  `FlowShape` is which stages
each flow goes through.

`LicencesProofs`, for every number of subscriptions, keys, webhook requests and faults:

* `LicenceInvariant`: `LicenceSpec => []LicenceInv`;
* from it `OneLicenceAnEvent` (`MintedOnce`) and `CancellationRevokes`
  (`CancelledLosesLicences`);
* `ServiceInvariant`: `LicenceSpec => []ServiceInv`, and from it `PayersAreServed` (`PaidHasLicence`).

`MintedOnce` speaks of licences that exist; what makes it hold is who may still issue
one.  `MarksExclude` says that two requests past the mark never carry the same event, and
`NotYetMinted` that no licence exists for an event whose request is about to issue.  For
the revocation, `DoomIsComing` says that, until a command fails, a doomed key that is
not denied yet has someone who will deny it: an unmarked deletion in the outbox, a request about
to list the index, or one with the key on its list.  When everything is answered there is
no such one left.  `PaidHasLicence` needs the same for service: a paid period has a usable licence that
lasts as long, or an event or a request that will make one (`ServiceIsComing`), however the creation, the
first invoice, renewals and reissues overtake each other.

* `LicenceTypeCorrect`: `LicenceSpec => []LicenceTypeOK`;
* of `LicenceClient`, `ClientTypeCorrect` (`ClientTypeOK`) and `OnlyAnsweredIsDropped`
  (`DropsOnlyAnswered`, an action property).  The property speaks of the token at the time of the drop, and the
  server judged it earlier: `RejectionsStand` says that what it rejected is still expired or revoked, because
  neither the clock nor the deny-list goes back (`VerdictsStand`).

A step of the browser leaves the server as it is or is the server's own step (`BrowserKeepsServer`:
`ClientSpec => LicenceSpec`), so what is proved about the server holds with the browser beside it.

`RequestProofs`, about `Proxy`, for every number of requests at once, every limit and every window:

* `ProxyInvariant`: `ProxySpec => []ProxyInv`;
* from it `BurstsAreBounded` (`TwiceTheLimit`), `CountersWillReset` (`CounterWillReset`) and
  `ProxyBodiesAreWhole` (`BodiesAreWhole`).

A fixed window lets twice the limit through around its edge and no more.  That needs the times of all that
passed: `WindowLasts` (the window of now is not over before it has lasted from its first request) and
`WindowsApart` (what passed before the last two windows is a window's length older).
`OneExpire` is who will send the EXPIRE: one request, for a counter that lacks a time to live.

`RequestProofs`, about `Pacing`, for every table of feeds and hosts, every `Concurrency` and every bound:

* `PacingInvariant`: `PacingSpec => []PacingInv`;
* from it `PassesSpareHosts` (`BatchesSpareHosts`), `PassesReachFeeds` (`PassReachesFeeds`) and
  `HostsAreLeftAlone` (`PausesAreHonoured`, an action property).

They rest on `BatchesPack`: whatever the table, the batches of `groupByHostForRefresh` have at most
`Concurrency` feeds, no two of one host, and leave no feed out.  The packing is a recursive
function over the places of the table, and the lemma an induction over them (`InductionToLimit`, from
the well-foundedness of the numbers).  The invariant carries the promise of the batches that are left, of the one
under way, and that the feeds still due are in one of them.

`ServerProofs`, for every number of vaults, processes, runs, puts and faults:

* `FileInvariant`, and from it `NoTornReads` (`ReadsAreWhole`) and `AnsweredVaultsStay`
  (`AnsweredIsStored`).  A temporary file belongs to one put (`TmpWhole`), so what a rename
  moves into place is what that put wrote.
* `MigrationInvariant`, and from it `MigrationLosesNothing` (`NoVaultLost`) and
  `CleanReportsAreTrue` (`CleanReportIsTrue`).  A run works on one vault at a time and deletes it
  only when the target has it (`OneAtATime`), and in a run that writes, a vault the target lacks is still to
  come, under way, or in the report as failed (`Accounted`).
* `MigrationTypeCorrect` (`MigrationTypeOK`), which needs that a run reports a vault once: what it has
  still to do or works on is in neither list of its report (`ReportedOnce`).
* `ServerTypeCorrect`: `Spec => []ServerTypeOK` for `MCServer`.  No step of one part touches the
  variables of another, so that each part runs as it does alone (`PartsRunAlone`).

`BrowserProofs`, about `Preferences`, for every set of settings and any number of changes:

* `PreferencesInvariant`: `PreferencesSpec => []PrefInv`;
* from it `OwnChangesAreKept` (`OwnChangeStands`).

Row and stamp are two transactions, and an import may come between them.  `InOrder` says that the
writes under way put their rows in the order in which they began, and `RowIsOfLast` that the row is
that of the last to have put it, unless an import met that write.  `ImportIsNewer` is why the gate suffices: a vault
that has passed it, and is on its way to replace the row, is later than the change that stands.

`BrowserProofs`, about `Subscriptions`, for every set of addresses and tabs:

* `SubscriptionsInvariant`: `SubscriptionsSpec => []SubsInv`;
* from it `RemovedFeedsStayAway` (`NoCopyComesBack`) and `OneRecordAnAddress`
  (`SubscriptionsTypeOK`).

`Fits` is what an operation holds at each of its stages.  `CalmIsAlone` says that an operation that began
while nothing was in progress has stayed alone, if it still counts as such, and `RemovalIsDone` that such a
removal, once it has deleted its record, leaves none with that id.  What begins later reads a table
or a copy without it (`Unremoved`).  An import that brings the record back ends the promise, for that
record.

* `BrowserTypeCorrect`: `Spec => []BrowserTypeOK` for `MCBrowser`, by the same argument as for
  `MCServer`.

Only model-checked: the liveness properties `OwedReachesCloud`, `GuardsAreReleased`,
`EndedTokenIsDropped` and `NoTokenEndsFree`.  This prover has no rule for `ENABLED`, which fairness
is made of.  Every safety property of a run is a theorem.

## 5. Plan, and what is not modelled

Next, in this order:

1. What `Pacing` and `Proxy` compute, as theorems of their own: the backoff after 304s, and the times
   that `Retry-After` allows.
2. `SignalSchedule` and `Briefings`: the derived views and when they are computed again.
3. The merge of two libraries (`mergeVaults` in `core/sync/sync-service.ts`) as a function,
   against a reference definition.
4. The browser extension's messages.

Not modelled, and why:

* text processing (parser, cleaner, discovery, extraction, OPML as a format, bridges, Signal's scoring):
  functions of one input, which unit tests reach;
* the user interface, scripts, the service worker's precache: no state of their own that the
  properties are about;
* cryptography: a ciphertext is what it was made of;
* catalog, favicon cache, feedback, health: single requests without state.

Per component: `components` in `PROJECT.json`.
