------------------------------ MODULE VaultSync ------------------------------
(***************************************************************************)
(* Whole-vault synchronisation of one passphrase's vault: the sync store   *)
(* (src/src/stores/sync-store.ts), the push coordinator                    *)
(* (src/src/stores/sync-coordinator.ts), the client half of the wire       *)
(* protocol (src/src/core/sync/sync-service.ts) and the server handler     *)
(* (src/src/core/sync/sync-handler.ts).                                    *)
(*                                                                         *)
(* Every device keeps a whole copy of the user's data and replaces it, or  *)
(* the copy on the server, as one piece.  What the properties need of that *)
(* data is which edits it contains, so a copy is a set of edits.  A store  *)
(* method that awaits the network is a call: a record that remembers what  *)
(* the method read before the await.  Between two awaits JavaScript runs   *)
(* without interruption, and each action is one such stretch.              *)
(***************************************************************************)
EXTENDS Naturals, FiniteSets

CONSTANTS
    Devices,     \* browsers that hold the passphrase
    Edits,       \* changes of feeds, articles, folders, rules, preferences
    Frames,      \* calls that may be in progress at once, on all devices
    NoDevice,    \* the device of a frame that runs nothing
    MaxFaults,   \* bound: requests that fail or whose answer is lost
    MaxReloads,  \* bound: tab reloads and crashes
    MaxUserOps   \* bound: settings actions (turn sync on or off, restore, ...)

ASSUME ConstantsAssumption ==
    /\ NoDevice \notin Devices
    /\ MaxFaults \in Nat /\ MaxReloads \in Nat /\ MaxUserOps \in Nat

VARIABLES
    server,     \* the stored vault: its ETag (0: none), content, number of writes
    open,       \* device -> is the local database open
    local,      \* device -> edits in the local database
    pending,    \* device -> the durable sync-pending-push marker
    keys,       \* device -> vault keys and sync mode are in localStorage
    timer,      \* device -> a debounced push is scheduled
    creds,      \* device -> the session holds vault credentials
    status,     \* device -> the status the settings page shows
    etag,       \* device -> lastVaultEtag (0: null)
    call,       \* frame -> the store method that runs in it
    made,       \* edits made so far: no edit is made twice
    uploaded,   \* history: edits in some vault the server has accepted
    queued,     \* history: device -> edits it scheduled a push for
    owed,       \* history: the part of queued made while no call was in progress
    discarded,  \* history: edits that a restore from the cloud threw away
    erased,     \* history: the last settings action was "disable and delete"
    faults, reloads, userOps    \* how much of the bounds is used

disk    == <<open, local, pending, keys>>
session == <<timer, creds, status, etag>>
history == <<uploaded, queued, owed, discarded, erased>>
bounds  == <<faults, reloads, userOps>>
vars    == <<server, disk, session, call, made, history, bounds>>

Statuses == {"local-only", "syncing", "synced", "error"}
Ops      == {"none", "push", "pull", "enable", "resync", "replace", "merge",
             "erase", "logout", "orphan"}
Stages   == {"idle", "put", "get", "delete",                  \* on the wire
             "stored", "vault", "notModified", "deleted",     \* answered
             "failed", "imported", "closing"}

Call == [op : Ops, dev : Devices \cup {NoDevice}, stage : Stages,
         snap : SUBSET Edits, tag : Nat]

Idle == [op |-> "none", dev |-> NoDevice, stage |-> "idle", snap |-> {}, tag |-> 0]

TypeOK ==
    /\ server \in [etag : Nat, data : SUBSET Edits, writes : Nat]
    /\ open \in [Devices -> BOOLEAN]
    /\ local \in [Devices -> SUBSET Edits]
    /\ pending \in [Devices -> BOOLEAN]
    /\ keys \in [Devices -> BOOLEAN]
    /\ timer \in [Devices -> BOOLEAN]
    /\ creds \in [Devices -> BOOLEAN]
    /\ status \in [Devices -> Statuses]
    /\ etag \in [Devices -> Nat]
    /\ call \in [Frames -> Call]
    /\ made \in SUBSET Edits
    /\ uploaded \in SUBSET Edits
    /\ queued \in [Devices -> SUBSET Edits]
    /\ owed \in [Devices -> SUBSET Edits]
    /\ discarded \in SUBSET Edits
    /\ erased \in BOOLEAN
    /\ faults \in 0..MaxFaults
    /\ reloads \in 0..MaxReloads
    /\ userOps \in 0..MaxUserOps

-----------------------------------------------------------------------------
(* Calls.  A frame whose tab is gone but whose request still travels to    *)
(* the server runs an "orphan".                                            *)

InFrame(f, op) == call[f].op = op

Running(d) == {f \in Frames : call[f].dev = d /\ ~InFrame(f, "orphan")}

Quiet(d) == Running(d) = {}

\* The settings dialogs are modal: one of them is in progress on the device.
SettingsOps == {"enable", "resync", "replace", "merge", "erase", "logout"}

SettingsBusy(d) == \E f \in Running(d) : call[f].op \in SettingsOps

\* logout is waiting for the local database to be deleted.
LoggingOut(d) == \E f \in Running(d) : InFrame(f, "logout")

Put(op, d, data) ==
    [op |-> op, dev |-> d, stage |-> "put", snap |-> data, tag |-> 0]

\* Mutant of Get: the remembered validator is off by one.
GetOffByOne(op, d, data, ifNoneMatch) ==
    [op |-> op, dev |-> d, stage |-> "get", snap |-> data, tag |-> ifNoneMatch - 1]

Get(op, d, data, ifNoneMatch) ==
    [op |-> op, dev |-> d, stage |-> "get", snap |-> data, tag |-> ifNoneMatch]

\* pushVault exports the database first: with the database closed nothing is sent.
Upload(op, d, isOpen, data) ==
    IF isOpen THEN Put(op, d, data)
    ELSE [op |-> op, dev |-> d, stage |-> "failed", snap |-> {}, tag |-> 0]

\* The call in frame f, at another stage.
Moved(f, stage, data, ifNoneMatch) ==
    [op |-> call[f].op, dev |-> call[f].dev, stage |-> stage,
     snap |-> data, tag |-> ifNoneMatch]

MoveTo(f, stage) ==
    call' = [call EXCEPT ![f] = Moved(f, stage, call[f].snap, call[f].tag)]

Begin(f, c) == call[f] = Idle /\ call' = [call EXCEPT ![f] = c]

Return(f) == call' = [call EXCEPT ![f] = Idle]

At(f, op, stage) == call[f].op = op /\ call[f].stage = stage

UserOp == userOps < MaxUserOps /\ userOps' = userOps + 1

-----------------------------------------------------------------------------
(* Initially any set of devices may already be linked to the vault, and    *)
(* then the vault exists and all of them hold what it holds.               *)

Init ==
    \E linked \in SUBSET Devices :
        /\ server = IF linked = {} THEN [etag |-> 0, data |-> {}, writes |-> 0]
                                   ELSE [etag |-> 1, data |-> {}, writes |-> 1]
        /\ open = [d \in Devices |-> TRUE]
        /\ local = [d \in Devices |-> {}]
        /\ pending = [d \in Devices |-> FALSE]
        /\ keys = [d \in Devices |-> d \in linked]
        /\ timer = [d \in Devices |-> FALSE]
        /\ creds = [d \in Devices |-> d \in linked]
        /\ status = [d \in Devices |-> IF d \in linked THEN "synced" ELSE "local-only"]
        /\ etag = [d \in Devices |-> IF d \in linked THEN 1 ELSE 0]
        /\ call = [f \in Frames |-> Idle]
        /\ made = {}
        /\ uploaded = {}
        /\ queued = [d \in Devices |-> {}]
        /\ owed = [d \in Devices |-> {}]
        /\ discarded = {}
        /\ erased = FALSE
        /\ faults = 0 /\ reloads = 0 /\ userOps = 0

-----------------------------------------------------------------------------
(* Local edits and the push timer.                                         *)

\* A store action writes the database and then calls scheduleSyncPush, which
\* does nothing without credentials.
Edit(d, e) ==
    /\ open[d]
    /\ e \notin made
    /\ made' = made \cup {e}
    /\ local' = [local EXCEPT ![d] = @ \cup {e}]
    /\ pending' = [pending EXCEPT ![d] = @ \/ creds[d]]
    /\ timer' = [timer EXCEPT ![d] = @ \/ creds[d]]
    /\ queued' = [queued EXCEPT ![d] = IF creds[d] THEN @ \cup {e} ELSE @]
    /\ owed' = [owed EXCEPT ![d] = IF creds[d] /\ Quiet(d) THEN @ \cup {e} ELSE @]
    /\ UNCHANGED <<server, open, keys, creds, status, etag, call, uploaded,
                   discarded, erased, bounds>>

\* markAsRead and refreshSingleFeed write the database and schedule nothing.
EditUnscheduled(d, e) ==
    /\ open[d]
    /\ creds[d]
    /\ e \notin made
    /\ made' = made \cup {e}
    /\ local' = [local EXCEPT ![d] = @ \cup {e}]
    /\ UNCHANGED <<server, open, pending, keys, session, call, history, bounds>>

\* A store action whose write came before the logout schedules its push while
\* logout waits: the credentials are still there.
ScheduleLate(d) ==
    /\ LoggingOut(d) /\ creds[d]
    /\ pending' = [pending EXCEPT ![d] = TRUE]
    /\ timer' = [timer EXCEPT ![d] = TRUE]
    /\ UNCHANGED <<server, open, local, keys, creds, status, etag, call, made,
                   history, bounds>>

\* Mutant of TimerFires: the marker is cleared when the push is sent, not when
\* the server has taken it.
TimerClearsMarker(d, f) ==
    /\ timer[d] /\ creds[d]
    /\ timer' = [timer EXCEPT ![d] = FALSE]
    /\ pending' = [pending EXCEPT ![d] = FALSE]
    /\ Begin(f, Upload("push", d, open[d], local[d]))
    /\ UNCHANGED <<server, open, local, keys, creds, status, etag, made, history, bounds>>

\* Both timers have run out: push() uploads what the database holds now.
TimerFires(d, f) ==
    /\ timer[d]
    /\ timer' = [timer EXCEPT ![d] = FALSE]
    /\ IF creds[d] THEN Begin(f, Upload("push", d, open[d], local[d]))
                   ELSE call[f] = Idle /\ UNCHANGED call
    /\ UNCHANGED <<server, disk, creds, status, etag, made, history, bounds>>

\* clearPending: the timers and the durable marker go together.
ClearPending(d) ==
    /\ pending' = [pending EXCEPT ![d] = FALSE]
    /\ timer' = [timer EXCEPT ![d] = FALSE]

\* push() and enableSync() after the server took the vault.
PushStored(f) ==
    LET d == call[f].dev IN
    /\ call[f].op \in {"push", "enable"} /\ call[f].stage = "stored"
    /\ ClearPending(d)
    /\ status' = [status EXCEPT ![d] = "synced"]
    /\ etag' = [etag EXCEPT ![d] = call[f].tag]
    /\ Return(f)
    /\ UNCHANGED <<server, open, local, keys, creds, made, history, bounds>>

-----------------------------------------------------------------------------
(* pull: flush what is pending, ask the server for a newer vault, replace  *)
(* the local data by it.                                                   *)

\* Mutant of PullCall: nothing is flushed before the download.
PullWithoutFlush(d, isOpen, data, ifNoneMatch) == Get("pull", d, {}, ifNoneMatch)

\* What pull() sends first: the flush when the marker is set, else the
\* conditional download with the session's last ETag.
PullCall(d, isOpen, data, ifNoneMatch) ==
    IF pending[d] THEN Upload("pull", d, isOpen, data)
                  ELSE Get("pull", d, {}, ifNoneMatch)

\* A second pull joins the one in flight.
StartPull(d, f) ==
    /\ creds[d]
    /\ \A g \in Running(d) : ~InFrame(g, "pull")
    /\ Begin(f, PullCall(d, open[d], local[d], etag[d]))
    /\ status' = [status EXCEPT ![d] = "syncing"]
    /\ UNCHANGED <<server, disk, timer, creds, etag, made, history, bounds>>

FlushStored(f) ==
    LET d == call[f].dev IN
    /\ At(f, "pull", "stored")
    /\ ClearPending(d)
    /\ etag' = [etag EXCEPT ![d] = call[f].tag]
    /\ call' = [call EXCEPT ![f] = Get("pull", d, {}, call[f].tag)]
    /\ UNCHANGED <<server, open, local, keys, creds, status, made, history, bounds>>

PullNotModified(f) ==
    LET d == call[f].dev IN
    /\ At(f, "pull", "notModified")
    /\ status' = [status EXCEPT ![d] = "synced"]
    /\ etag' = [etag EXCEPT ![d] = call[f].tag]
    /\ Return(f)
    /\ UNCHANGED <<server, disk, timer, creds, made, history, bounds>>

\* Mutant of ReplaceLocal: the import does not ask whether the database is open.
ReplaceUnchecked(f) ==
    /\ local' = [local EXCEPT ![call[f].dev] = call[f].snap]
    /\ MoveTo(f, "imported")
    /\ UNCHANGED status

\* importAll needs an open database and replaces its tables in one transaction.
ReplaceLocal(f) ==
    LET d == call[f].dev IN
    IF open[d]
    THEN /\ local' = [local EXCEPT ![d] = call[f].snap]
         /\ MoveTo(f, "imported")
         /\ UNCHANGED status
    ELSE /\ status' = [status EXCEPT ![d] = "error"]
         /\ Return(f)
         /\ UNCHANGED local

PullImports(f) ==
    /\ At(f, "pull", "vault")
    /\ ReplaceLocal(f)
    /\ UNCHANGED <<server, open, pending, keys, timer, creds, etag, made, history, bounds>>

PullSettles(f) ==
    LET d == call[f].dev IN
    /\ At(f, "pull", "imported")
    /\ status' = [status EXCEPT ![d] = "synced"]
    /\ etag' = [etag EXCEPT ![d] = call[f].tag]
    /\ Return(f)
    /\ UNCHANGED <<server, disk, timer, creds, made, history, bounds>>

\* Mutant of CallFails: the marker is cleared whether the request succeeded or not.
CallFailsForgets(f) ==
    LET d == call[f].dev IN
    /\ call[f].stage = "failed" /\ ~InFrame(f, "orphan")
    /\ ClearPending(d)
    /\ status' = [status EXCEPT ![d] = "error"]
    /\ Return(f)
    /\ UNCHANGED <<server, open, local, keys, creds, etag, made, history, bounds>>

\* Mutant of CallFails: a failed pull stays registered as the one in flight.
CallFailsHangs(f) ==
    LET d == call[f].dev IN
    /\ call[f].stage = "failed" /\ call[f].op \notin {"orphan", "pull"}
    /\ status' = [status EXCEPT ![d] = "error"]
    /\ Return(f)
    /\ UNCHANGED <<server, disk, timer, creds, etag, made, history, bounds>>

\* A request of a push, a pull, an enable, a restore or a switch has failed, or
\* (for the last three) the answer could not be used.  A failed DELETE is
\* reported by the dialog and leaves the status alone.
CallFails(f) ==
    LET d == call[f].dev IN
    /\ call[f].stage = "failed" /\ ~InFrame(f, "orphan")
    /\ status' = IF InFrame(f, "erase") THEN status ELSE [status EXCEPT ![d] = "error"]
    /\ Return(f)
    /\ UNCHANGED <<server, disk, timer, creds, etag, made, history, bounds>>

\* The vault arrived, but encrypting or writing it failed.
ImportFails(f) ==
    /\ call[f].op \in {"pull", "resync"} /\ call[f].stage = "vault"
    /\ faults < MaxFaults /\ faults' = faults + 1
    /\ MoveTo(f, "failed")
    /\ UNCHANGED <<server, disk, session, made, history, reloads, userOps>>

-----------------------------------------------------------------------------
(* forceResync: discard the local changes and take the cloud's vault.      *)

StartResync(d, f) ==
    /\ creds[d] /\ ~SettingsBusy(d)
    /\ UserOp
    /\ ClearPending(d)
    /\ status' = [status EXCEPT ![d] = "syncing"]
    /\ Begin(f, Get("resync", d, {}, 0))
    /\ queued' = [queued EXCEPT ![d] = {}]
    /\ owed' = [owed EXCEPT ![d] = {}]
    /\ erased' = FALSE
    /\ UNCHANGED <<server, open, local, keys, creds, etag, made, uploaded,
                   discarded, faults, reloads>>

ResyncImports(f) ==
    LET d == call[f].dev IN
    /\ At(f, "resync", "vault")
    /\ ReplaceLocal(f)
    /\ discarded' = discarded \cup
           (IF open[d] THEN local[d] \ (call[f].snap \cup uploaded) ELSE {})
    /\ UNCHANGED <<server, open, pending, keys, timer, creds, etag, made,
                   uploaded, queued, owed, erased, bounds>>

\* The ETag of the imported vault is not remembered here.
ResyncSettles(f) ==
    LET d == call[f].dev IN
    /\ At(f, "resync", "imported")
    /\ status' = [status EXCEPT ![d] = "synced"]
    /\ Return(f)
    /\ UNCHANGED <<server, disk, timer, creds, etag, made, history, bounds>>

-----------------------------------------------------------------------------
(* Turning sync on and off.                                                *)

\* enableSync is given a freshly generated passphrase: nobody else has its keys
\* and no request for its vault was ever sent.
FreshVault ==
    /\ server.writes = 0
    /\ \A d \in Devices : ~keys[d]
    /\ \A f \in Frames : call[f] = Idle

\* The keys are stored before the first push.
StartEnable(d, f) ==
    /\ open[d] /\ ~creds[d] /\ FreshVault
    /\ UserOp
    /\ keys' = [keys EXCEPT ![d] = TRUE]
    /\ creds' = [creds EXCEPT ![d] = TRUE]
    /\ status' = [status EXCEPT ![d] = "syncing"]
    /\ Begin(f, Put("enable", d, local[d]))
    /\ erased' = FALSE
    /\ UNCHANGED <<server, open, local, pending, timer, etag, made, uploaded,
                   queued, owed, discarded, faults, reloads>>

\* The keys could not be derived or there are no database keys to add them to.
EnableRejected(d) ==
    /\ open[d] /\ ~creds[d] /\ FreshVault
    /\ UserOp
    /\ status' = [status EXCEPT ![d] = "error"]
    /\ erased' = FALSE
    /\ UNCHANGED <<server, disk, timer, creds, etag, call, made, uploaded, queued,
                   owed, discarded, faults, reloads>>

\* The stored keys and the session's credentials go together.
ForgetKeys(d) ==
    /\ keys' = [keys EXCEPT ![d] = FALSE]
    /\ creds' = [creds EXCEPT ![d] = FALSE]
    /\ status' = [status EXCEPT ![d] = "local-only"]

\* What disableSync does to the device: the durable marker survives it.
Unlink(d) ==
    /\ timer' = [timer EXCEPT ![d] = FALSE]
    /\ ForgetKeys(d)

\* disableSync, and deactivateLocal after it dropped the licence token.
DisableSync(d) ==
    /\ creds[d] /\ ~SettingsBusy(d)
    /\ UserOp
    /\ Unlink(d)
    /\ erased' = FALSE
    /\ UNCHANGED <<server, open, local, pending, etag, call, made, uploaded,
                   queued, owed, discarded, faults, reloads>>

\* "Disable and delete": deleteCloudVault first, it needs the credentials.
StartErase(d, f) ==
    /\ creds[d] /\ ~SettingsBusy(d)
    /\ UserOp
    /\ Begin(f, [op |-> "erase", dev |-> d, stage |-> "delete", snap |-> {}, tag |-> 0])
    /\ erased' = FALSE
    /\ UNCHANGED <<server, disk, session, made, uploaded, queued, owed, discarded,
                   faults, reloads>>

EraseSettles(f) ==
    LET d == call[f].dev IN
    /\ At(f, "erase", "deleted")
    /\ Unlink(d)
    /\ erased' = TRUE
    /\ Return(f)
    /\ UNCHANGED <<server, open, local, pending, etag, made, uploaded, queued,
                   owed, discarded, bounds>>

\* logout keeps the cloud vault and deletes the local database and the keys.
\* It cancels the timer and closes the database at once; the deletion is awaited
\* with the keys and the credentials still in place.
StartLogout(d, f) ==
    /\ open[d] /\ ~SettingsBusy(d)
    /\ UserOp
    /\ timer' = [timer EXCEPT ![d] = FALSE]
    /\ open' = [open EXCEPT ![d] = FALSE]
    /\ Begin(f, [op |-> "logout", dev |-> d, stage |-> "closing", snap |-> {}, tag |-> 0])
    /\ queued' = [queued EXCEPT ![d] = {}]
    /\ owed' = [owed EXCEPT ![d] = {}]
    /\ erased' = FALSE
    /\ UNCHANGED <<server, local, pending, keys, creds, status, etag, made,
                   uploaded, discarded, faults, reloads>>

\* The database is gone.  A timer or a marker set meanwhile stays.
LogoutSettles(f) ==
    LET d == call[f].dev IN
    /\ At(f, "logout", "closing")
    /\ local' = [local EXCEPT ![d] = {}]
    /\ ForgetKeys(d)
    /\ Return(f)
    /\ UNCHANGED <<server, open, pending, timer, etag, made, history, bounds>>

\* After a logout: initFresh without sync.
Onboard(d) ==
    /\ ~open[d] /\ ~LoggingOut(d)
    /\ open' = [open EXCEPT ![d] = TRUE]
    /\ UNCHANGED <<server, local, pending, keys, session, call, made, history, bounds>>

-----------------------------------------------------------------------------
(* switchToExistingCloud: join the vault, replacing the local data or       *)
(* merging it in.  recoverVault downloads without credentials.              *)

\* Mutant of StartSwitch: the merge mode takes no snapshot of the local data.
StartSwitchBlind(d, f, mode) ==
    /\ open[d] /\ ~creds[d] /\ ~SettingsBusy(d)
    /\ UserOp
    /\ status' = [status EXCEPT ![d] = "syncing"]
    /\ Begin(f, Get(mode, d, {}, 0))
    /\ queued' = IF mode = "replace" THEN [queued EXCEPT ![d] = {}] ELSE queued
    /\ owed' = IF mode = "replace" THEN [owed EXCEPT ![d] = {}] ELSE owed
    /\ erased' = FALSE
    /\ UNCHANGED <<server, disk, timer, creds, etag, made, uploaded, discarded,
                   faults, reloads>>

StartSwitch(d, f, mode) ==
    /\ open[d] /\ ~creds[d] /\ ~SettingsBusy(d)
    /\ UserOp
    /\ status' = [status EXCEPT ![d] = "syncing"]
    /\ Begin(f, Get(mode, d, IF mode = "merge" THEN local[d] ELSE {}, 0))
    /\ queued' = IF mode = "replace" THEN [queued EXCEPT ![d] = {}] ELSE queued
    /\ owed' = IF mode = "replace" THEN [owed EXCEPT ![d] = {}] ELSE owed
    /\ erased' = FALSE
    /\ UNCHANGED <<server, disk, timer, creds, etag, made, uploaded, discarded,
                   faults, reloads>>

\* Mutant of SwitchApplies: the new keys are not stored.
SwitchForgetsKeys(f) ==
    LET d == call[f].dev IN
    /\ call[f].op \in {"replace", "merge"} /\ call[f].stage = "vault"
    /\ local' = [local EXCEPT ![d] = call[f].snap]
    /\ open' = [open EXCEPT ![d] = TRUE]
    /\ MoveTo(f, IF InFrame(f, "merge") THEN "put" ELSE "imported")
    /\ UNCHANGED <<server, pending, keys, session, made, history, bounds>>

\* applyCloudVault: a new database with the vault's content, then the keys.
\* The merge mode goes on to upload what it has just written.
SwitchApplies(f) ==
    LET d == call[f].dev IN
    /\ call[f].op \in {"replace", "merge"} /\ call[f].stage = "vault"
    /\ local' = [local EXCEPT ![d] = call[f].snap]
    /\ open' = [open EXCEPT ![d] = TRUE]
    /\ keys' = [keys EXCEPT ![d] = TRUE]
    /\ MoveTo(f, IF InFrame(f, "merge") THEN "put" ELSE "imported")
    /\ UNCHANGED <<server, pending, session, made, history, bounds>>

\* The new database was opened but the vault could not be written into it: the
\* old data is gone, and with it what the device still owed.
SwitchBreaks(f) ==
    LET d == call[f].dev IN
    /\ call[f].op \in {"replace", "merge"} /\ call[f].stage = "vault"
    /\ faults < MaxFaults /\ faults' = faults + 1
    /\ local' = [local EXCEPT ![d] = {}]
    /\ open' = [open EXCEPT ![d] = TRUE]
    /\ queued' = [queued EXCEPT ![d] = {}]
    /\ owed' = [owed EXCEPT ![d] = {}]
    /\ MoveTo(f, "failed")
    /\ UNCHANGED <<server, pending, keys, session, made, uploaded, discarded,
                   erased, reloads, userOps>>

\* Only now does the session get its credentials.  The marker is not cleared,
\* and only the merge mode has an ETag to remember.
SwitchSettles(f) ==
    LET d == call[f].dev IN
    /\ At(f, "replace", "imported") \/ At(f, "merge", "stored")
    /\ creds' = [creds EXCEPT ![d] = TRUE]
    /\ status' = [status EXCEPT ![d] = "synced"]
    /\ etag' = IF InFrame(f, "merge") THEN [etag EXCEPT ![d] = call[f].tag] ELSE etag
    /\ Return(f)
    /\ UNCHANGED <<server, disk, timer, made, history, bounds>>

-----------------------------------------------------------------------------
(* The tab goes away and the application boots again: what was in memory   *)
(* is gone, requests on the wire may still reach the server, and a linked  *)
(* device pulls before anything else.  A logout cut short leaves the keys: *)
(* the application opens the database again, deleted or not.               *)

Abandon(d) ==
    [f \in Frames |->
        IF f \notin Running(d) THEN call[f]
        ELSE IF call[f].stage \in {"put", "delete"}
             THEN [op |-> "orphan", dev |-> d, stage |-> call[f].stage,
                   snap |-> call[f].snap, tag |-> 0]
        ELSE Idle]

Reload(d, f) ==
    /\ open[d] \/ LoggingOut(d)
    /\ reloads < MaxReloads /\ reloads' = reloads + 1
    /\ Abandon(d)[f] = Idle
    /\ \E data \in IF LoggingOut(d) THEN {local[d], {}} ELSE {local[d]} :
          /\ local' = [local EXCEPT ![d] = data]
          /\ call' = IF keys[d]
                     THEN [Abandon(d) EXCEPT ![f] = PullCall(d, TRUE, data, 0)]
                     ELSE Abandon(d)
    /\ open' = [open EXCEPT ![d] = TRUE]
    /\ timer' = [timer EXCEPT ![d] = FALSE]
    /\ creds' = [creds EXCEPT ![d] = keys[d]]
    /\ status' = [status EXCEPT ![d] = IF keys[d] THEN "syncing" ELSE "local-only"]
    /\ etag' = [etag EXCEPT ![d] = 0]
    /\ UNCHANGED <<server, pending, keys, made, history, faults, userOps>>

-----------------------------------------------------------------------------
(* The server: handlePut overwrites whatever is stored, handleGet honours  *)
(* If-None-Match, handleDelete forgets the vault.  Every encryption uses a *)
(* fresh IV, so no two writes share an ETag.                               *)

\* What the client learns of an accepted request; an orphan has no client.
Answer(f, stage, tag) ==
    IF InFrame(f, "orphan")
    THEN Return(f)
    ELSE call' = [call EXCEPT ![f] = Moved(f, stage, call[f].snap, tag)]

StoreVault(f) ==
    /\ server' = [etag |-> server.writes + 1, data |-> call[f].snap,
                  writes |-> server.writes + 1]
    /\ uploaded' = uploaded \cup call[f].snap

HandlePut(f) ==
    /\ call[f].stage = "put"
    /\ StoreVault(f)
    /\ Answer(f, "stored", server.writes + 1)
    /\ UNCHANGED <<disk, session, made, queued, owed, discarded, erased, bounds>>

\* The merge mode computes its vault from the answer and the local snapshot
\* (a download of another call carries no snapshot).
HandleGet(f) ==
    /\ call[f].stage = "get"
    /\ IF server.etag = 0 THEN MoveTo(f, "failed")
       ELSE IF call[f].tag = server.etag THEN MoveTo(f, "notModified")
       ELSE call' = [call EXCEPT ![f] =
                        Moved(f, "vault", server.data \cup call[f].snap, server.etag)]
    /\ UNCHANGED <<server, disk, session, made, history, bounds>>

HandleDelete(f) ==
    /\ call[f].stage = "delete"
    /\ server' = [etag |-> 0, data |-> {}, writes |-> server.writes]
    /\ Answer(f, "deleted", 0)
    /\ UNCHANGED <<disk, session, made, history, bounds>>

\* The request never takes effect: offline, over the size limit, 5xx.
RequestFails(f) ==
    /\ call[f].stage \in {"put", "get", "delete"}
    /\ faults < MaxFaults /\ faults' = faults + 1
    /\ Answer(f, "failed", 0)
    /\ UNCHANGED <<server, disk, session, made, history, reloads, userOps>>

\* The server takes the vault and the answer is lost.
AnswerLost(f) ==
    /\ call[f].stage = "put" /\ ~InFrame(f, "orphan")
    /\ faults < MaxFaults /\ faults' = faults + 1
    /\ StoreVault(f)
    /\ Answer(f, "failed", 0)
    /\ UNCHANGED <<disk, session, made, queued, owed, discarded, erased, reloads, userOps>>

\* So does a deletion: the device stays linked to a vault that is gone.
DeletionLost(f) ==
    /\ call[f].stage = "delete" /\ ~InFrame(f, "orphan")
    /\ faults < MaxFaults /\ faults' = faults + 1
    /\ server' = [etag |-> 0, data |-> {}, writes |-> server.writes]
    /\ Answer(f, "failed", 0)
    /\ UNCHANGED <<disk, session, made, history, reloads, userOps>>

-----------------------------------------------------------------------------

UserStep(d) ==
    \/ \E e \in Edits : Edit(d, e) \/ EditUnscheduled(d, e)
    \/ EnableRejected(d)
    \/ DisableSync(d)
    \/ ScheduleLate(d)
    \/ Onboard(d)
    \/ \E f \in Frames :
          \/ StartResync(d, f)
          \/ StartEnable(d, f)
          \/ StartErase(d, f)
          \/ StartLogout(d, f)
          \/ \E mode \in {"replace", "merge"} : StartSwitch(d, f, mode)
          \/ Reload(d, f)

\* The continuation of a call after its answer arrived.
Continue(f) ==
    \/ PushStored(f)
    \/ FlushStored(f)
    \/ PullNotModified(f)
    \/ PullImports(f)
    \/ PullSettles(f)
    \/ CallFails(f)
    \/ ResyncImports(f)
    \/ ResyncSettles(f)
    \/ EraseSettles(f)
    \/ LogoutSettles(f)
    \/ SwitchApplies(f)
    \/ SwitchSettles(f)

Serve(f) == HandlePut(f) \/ HandleGet(f) \/ HandleDelete(f)

Fault(f) ==
    \/ ImportFails(f)
    \/ SwitchBreaks(f)
    \/ RequestFails(f)
    \/ AnswerLost(f)
    \/ DeletionLost(f)

TimerStep(d) == \E f \in Frames : TimerFires(d, f)

PullStep(d) == \E f \in Frames : StartPull(d, f)

Next ==
    \/ \E d \in Devices : UserStep(d) \/ TimerStep(d) \/ PullStep(d)
    \/ \E f \in Frames : Continue(f) \/ Serve(f) \/ Fault(f)

Spec == Init /\ [][Next]_vars

\* Timers fire, promises settle, the server answers, and the auto-refresh hook
\* pulls again and again while the tab is open.
Fairness ==
    /\ \A d \in Devices : WF_vars(TimerStep(d)) /\ WF_vars(PullStep(d))
    /\ \A f \in Frames : WF_vars(Continue(f)) /\ WF_vars(Serve(f))

FairSpec == Spec /\ Fairness

-----------------------------------------------------------------------------
(* Properties that hold.                                                   *)

\* An edit that was scheduled while no call of the device was in progress is
\* never lost on the way: until some vault that contains it has been accepted
\* by the server it stays in the local database, and the durable marker stays
\* set, so that the next pull flushes it before it imports anything (push, pull
\* and enableSync in sync-store.ts with clearPending).  Logging out, restoring
\* from the cloud, replacing the local data and a switch that fails half-way end
\* the obligation: they give the local data up.
OwedIsKept ==
    \A d \in Devices : \A e \in owed[d] :
        e \in uploaded \/ (e \in local[d] /\ pending[d])

\* What a pull is about to import, or has just imported, never replaces an owed
\* edit that is not in the cloud: the flush comes first and its failure aborts
\* the pull (sync-store.ts pull).
FlushBeforeImport ==
    \A f \in Frames :
        call[f].op = "pull" /\ call[f].stage \in {"vault", "imported"}
            => owed[call[f].dev] \subseteq uploaded

\* Once logout has settled the device holds no data, no keys and no credentials
\* until the user onboards again, whatever was in flight when logout began or
\* started while it waited for the deletion: a scheduled push finds nothing to
\* export, a pull answered late finds no database to import into, and a page
\* closed meanwhile undoes the logout (logout, push and pull in sync-store.ts,
\* requireOpen in db.ts).
NothingAfterLogout ==
    \A d \in Devices :
        ~open[d] /\ ~LoggingOut(d) => local[d] = {} /\ ~keys[d] /\ ~creds[d]

\* A session that can push can also be resumed after a reload: credentials in
\* memory always have their keys in localStorage, whatever calls were in flight
\* when sync was switched off (disableSync, switchToExistingCloud).
CredentialsArePersisted == \A d \in Devices : creds[d] => keys[d]

-----------------------------------------------------------------------------
(* Why they hold: the parts of an inductive invariant.                     *)

\* A frame that runs something knows the device it runs on.
CallsHaveDevice ==
    \A f \in Frames : call[f].op # "none" => call[f].dev \in Devices

\* An upload in progress carries every owed edit the cloud has not seen, and so
\* does the snapshot of a merge; every other call that will replace the local
\* data began when there was nothing left to lose.
Carries(d, f) ==
    /\ call[f].stage \in {"put", "stored"} \/ InFrame(f, "merge")
          => owed[d] \subseteq uploaded \cup call[f].snap
    /\ call[f].stage = "stored" => call[f].snap \subseteq uploaded
    /\ InFrame(f, "pull") /\ call[f].stage \in {"get", "vault", "notModified", "imported"}
          => owed[d] \subseteq uploaded
    /\ call[f].op \in {"resync", "replace"} => owed[d] \subseteq uploaded

CallsCarryOwed == \A d \in Devices : \A f \in Running(d) : Carries(d, f)

\* The settings dialogs of a device exclude each other.
OneSettingsCall ==
    \A d \in Devices : \A f, g \in Running(d) :
        call[f].op \in SettingsOps /\ call[g].op \in SettingsOps => f = g

\* A switch that has rewritten the database has also stored the keys.
SwitchStoresKeys ==
    \A d \in Devices : \A f \in Running(d) :
        \/ At(f, "replace", "imported")
        \/ InFrame(f, "merge") /\ call[f].stage \in {"put", "stored"}
        => open[d] /\ keys[d]

\* A closed database has no promise to keep, and logout works on a closed one.
ClosedOwesNothing ==
    \A d \in Devices :
        /\ ~open[d] => owed[d] = {}
        /\ LoggingOut(d) => ~open[d]

\* A logout has nothing on the wire: it only waits for the deletion.
LogoutOnlyCloses ==
    \A f \in Frames : InFrame(f, "logout") => call[f].stage = "closing"

SyncInv ==
    /\ TypeOK
    /\ CallsHaveDevice
    /\ OwedIsKept
    /\ CallsCarryOwed
    /\ OneSettingsCall
    /\ SwitchStoresKeys
    /\ ClosedOwesNothing
    /\ LogoutOnlyCloses
    /\ NothingAfterLogout
    /\ CredentialsArePersisted

-----------------------------------------------------------------------------
(* Liveness and refinement.                                                *)

\* An owed edit reaches the cloud, unless its owner leaves the vault or discards
\* it (debounced push, flush in pull, retry by the next refresh).
OwedReachesCloud ==
    \A d \in Devices : \A e \in Edits :
        e \in owed[d] ~> (e \in uploaded \/ e \notin owed[d] \/ ~creds[d])

\* The promise behind all this, as a specification of its own: see ChangeLedger.
Ledger ==
    INSTANCE ChangeLedger WITH
        kept <- local,
        promised <- [d \in Devices |-> owed[d] \ uploaded],
        published <- uploaded

\* Every step of the sync protocol is a step the ledger allows: an owed edit
\* leaves a device only by being uploaded or by the user's own decision.
KeepsPromises == Ledger!Spec

-----------------------------------------------------------------------------
(* What comments, documents and messages of the repository say and the     *)
(* code does not do.                                                       *)

\* hasPending: "True iff local mutations have been queued but not yet pushed".
MarkerCoversQueued ==
    \A d \in Devices : \A e \in queued[d] :
        e \in local[d] /\ e \notin uploaded => pending[d]

\* pull() "flushes it before importVault would overwrite unsynced changes".
QueuedIsKept ==
    \A d \in Devices : \A e \in queued[d] : e \in uploaded \/ e \in local[d]

\* disableSync "flips status back to local-only".
SyncedNeedsCredentials ==
    \A d \in Devices : status[d] = "synced" => creds[d]

\* forceResync: a discarded change does not come back through a push.
DiscardedStaysAway == discarded \cap server.data = {}

\* "Sync disabled. Cloud store deleted."
ErasedStaysErased == erased => server.etag = 0

\* logout: "Preserve cloud vault (intentional - for recovery on another device)".
\* A start that interrupts a logout uploads nothing less than the device held.
LogoutKeepsVault ==
    [][\A d \in Devices : \A f \in Frames :
          LoggingOut(d) /\ call[f] = Idle /\ call'[f].dev = d /\ call'[f].stage = "put"
              => local[d] \subseteq call'[f].snap]_vars

\* On 304 "the caller's cached vault is still current".
NotModifiedMeansHeld ==
    \A f \in Frames :
        call[f].op = "pull" /\ call[f].stage = "notModified" /\ call[f].tag = server.etag
            => server.data \subseteq local[call[f].dev]
=============================================================================
