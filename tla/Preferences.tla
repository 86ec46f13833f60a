----------------------------- MODULE Preferences -----------------------------
(***************************************************************************)
(* The settings that follow the user (ADR 022): the preferences store       *)
(* (stores/preferences-store.ts), the row and the timestamp it keeps in the *)
(* database (core/storage/db.ts) and their way through the vault            *)
(* (core/sync/sync-service.ts, stores/sync-store.ts).  The preferences are  *)
(* one record; the record with the later timestamp wins.                    *)
(*                                                                         *)
(* One device is modelled step by step; of the user's other devices, which  *)
(* run the same code, only the record that they hold, change, push and pull.*)
(* The value of a setting is the number of the change that set it, 0 the    *)
(* default (or what an old installation kept in localStorage).  All clocks  *)
(* agree and no two stamps are of the same millisecond.  The rest of the    *)
(* vault is the subject of VaultSync.                                       *)
(***************************************************************************)
EXTENDS Naturals, Sequences

CONSTANTS
    Settings,       \* the fields of the record
    NoRow,          \* no record: there is no row, or the vault has no opinion
    MaxChanges,     \* bound: settings changed, on any device
    MaxTurns        \* bound: restores and merges the user asks for, tab reloads,
                    \* failed requests and failed database calls

ASSUME PreferencesAssumption ==
    MaxChanges \in Nat /\ MaxTurns \in Nat

VARIABLES
    row,        \* the preferences row, decrypted
    stamp,      \* preferencesUpdatedAt (0: none)
    memory,     \* the store's preferences
    hydrated,   \* the store's hydrated
    puts,     \* putPreferences in progress, oldest first
    dirty,      \* the marker of a change that the vault has not
    due,        \* a push is scheduled
    lane,       \* the sync store's calls in progress
    known,      \* lastVaultEtag is the vault's
    vault,      \* the preferences in the vault
    other,      \* the preferences of the other devices
    now,        \* the last timestamp
    changes, turns,     \* how much of the bounds is used
    own         \* history: the device's last write that nothing disturbed

prefVars == <<row, stamp, memory, hydrated, puts, dirty, due, lane, known, vault,
              other, now, changes, turns, own>>

SettingRecord == [Settings -> 0..MaxChanges]
Default       == [s \in Settings |-> 0]
Stamped       == [prefs : SettingRecord \cup {NoRow}, ts : 0..now]
Nothing       == [prefs |-> NoRow, ts |-> 0]

\* A call of the sync store: what it carries, and whether a vault that it carries is
\* still the server's.
SyncCall == [op : {"none", "push", "pull", "resync", "merge"},
             stage : {"idle", "put", "get", "gate", "import", "reload"},
             carries : Stamped, current : BOOLEAN]
NoCall   == [op |-> "none", stage |-> "idle", carries |-> Nothing, current |-> FALSE]
Lanes    == {"push", "pull", "restore"}

\* A write is calm while no vault is imported beside it.
Write == [prefs : SettingRecord, of : Settings \cup {"hydrate"}, stage : {"row", "stamp"},
          calm : BOOLEAN]

PreferencesTypeOK ==
    /\ row \in SettingRecord \cup {NoRow} /\ stamp \in 0..now
    /\ memory \in SettingRecord /\ hydrated \in BOOLEAN
    /\ puts \in Seq(Write)
    /\ dirty \in BOOLEAN /\ due \in BOOLEAN /\ known \in BOOLEAN
    /\ lane \in [Lanes -> SyncCall]
    /\ vault \in Stamped /\ other \in Stamped /\ own \in Stamped

\* The devices may have a row already, and the vault may be older than the preferences.
PreferencesInit ==
    \E here, there, shared \in BOOLEAN :
        LET first(has) == IF has THEN [prefs |-> Default, ts |-> 1] ELSE Nothing
        IN  /\ row = first(here).prefs /\ stamp = first(here).ts
            /\ memory = Default /\ hydrated = FALSE
            /\ puts = <<>>
            /\ dirty = FALSE /\ due = FALSE
            /\ lane = [l \in Lanes |-> NoCall]
            /\ known = FALSE
            /\ vault = first(shared /\ (here \/ there))
            /\ other = first(there)
            /\ now = 1
            /\ changes = 0 /\ turns = 0
            /\ own = Nothing

Turn == turns < MaxTurns /\ turns' = turns + 1

used == <<changes, turns>>

-----------------------------------------------------------------------------
(* The store.                                                              *)

\* A pull has passed the gate and is about to replace the row.
Importing == lane["pull"].stage = "import"

AddWrite(prefs, of) ==
    puts' = Append(puts, [prefs |-> prefs, of |-> of, stage |-> "row", calm |-> ~Importing])

\* hydrate: before the settings are shown, the row becomes the memory.  Without a row,
\* or when it cannot be read, the defaults are written.
Hydrate ==
    /\ ~hydrated /\ puts = <<>>
    /\ \/ /\ row # NoRow
          /\ memory' = row /\ hydrated' = TRUE
          /\ UNCHANGED <<puts, turns>>
       \/ /\ IF row = NoRow THEN UNCHANGED turns ELSE Turn
          /\ AddWrite(Default, "hydrate")
          /\ UNCHANGED <<memory, hydrated>>
    /\ UNCHANGED <<row, stamp, dirty, due, lane, known, vault, other, now, changes, own>>

\* update: the patch is merged into the memory, and all of the memory is written.
Update(s) ==
    /\ hydrated
    /\ changes < MaxChanges
    /\ changes' = changes + 1
    /\ memory' = [memory EXCEPT ![s] = changes + 1]
    /\ AddWrite(memory', s)
    /\ UNCHANGED <<row, stamp, hydrated, dirty, due, lane, known, vault, other, now,
                   turns, own>>

\* putPreferences, first half: rows are put in the order in which the writes began.
PutRow(i) ==
    /\ i \in DOMAIN puts /\ puts[i].stage = "row"
    /\ \A j \in 1..(i - 1) : puts[j].stage = "stamp"
    /\ row' = puts[i].prefs
    /\ puts' = [puts EXCEPT ![i].stage = "stamp"]
    /\ UNCHANGED <<stamp, memory, hydrated, dirty, due, lane, known, vault, other, now,
                   used, own>>

\* What follows a write, whether it succeeded or not: hydrate sets the memory, update
\* schedules a push.
WriteReturns ==
    IF Head(puts).of = "hydrate"
    THEN memory' = Head(puts).prefs /\ hydrated' = TRUE /\ UNCHANGED <<dirty, due>>
    ELSE dirty' = TRUE /\ due' = TRUE /\ UNCHANGED <<memory, hydrated>>

\* putPreferences, second half: a transaction of its own stamps the row.
PutStamp ==
    /\ puts # <<>> /\ Head(puts).stage = "stamp"
    /\ now' = now + 1 /\ stamp' = now + 1
    /\ puts' = Tail(puts)
    /\ WriteReturns
    /\ own' = IF Head(puts).calm THEN [prefs |-> Head(puts).prefs, ts |-> now + 1]
                                   ELSE Nothing
    /\ UNCHANGED <<row, lane, known, vault, other, used>>

\* Either half fails: the caller does not look at the result.
WriteFails ==
    /\ puts # <<>>
    /\ Turn
    /\ puts' = Tail(puts)
    /\ WriteReturns
    /\ own' = IF Head(puts).stage = "row" THEN own ELSE Nothing
    /\ UNCHANGED <<row, stamp, lane, known, vault, other, now, changes>>

\* The tab is closed or reloaded; the database and the marker stay.
ReloadTab ==
    /\ Turn
    /\ memory' = Default /\ hydrated' = FALSE
    /\ puts' = <<>>
    /\ due' = FALSE
    /\ lane' = [l \in Lanes |-> NoCall]
    /\ known' = FALSE
    /\ own' = IF \E i \in DOMAIN puts : puts[i].stage = "stamp" THEN Nothing ELSE own
    /\ UNCHANGED <<row, stamp, dirty, vault, other, now, changes>>

-----------------------------------------------------------------------------
(* The way to the vault.                                                   *)

\* exportAll: the row and its stamp, as they are.
Export == [prefs |-> row, ts |-> stamp]

Enter(l, op, stage, carries) ==
    /\ lane[l] = NoCall
    /\ lane' = [lane EXCEPT ![l] =
                   [op |-> op, stage |-> stage, carries |-> carries, current |-> FALSE]]

Leave(l) == lane' = [lane EXCEPT ![l] = NoCall]

\* clearPendingPush
ClearMarker == dirty' = FALSE /\ due' = FALSE

\* The debounced push.
BeginPush ==
    /\ due /\ due' = FALSE
    /\ Enter("push", "push", "put", Export)
    /\ UNCHANGED <<row, stamp, memory, hydrated, puts, dirty, known, vault, other, now,
                   used, own>>

\* pull: at boot (the store may still be hydrating) and with every refresh; a marked
\* change is flushed first.
BeginPull ==
    /\ IF dirty THEN Enter("pull", "pull", "put", Export) ELSE Enter("pull", "pull", "get", Nothing)
    /\ UNCHANGED <<row, stamp, memory, hydrated, puts, dirty, due, known, vault, other, now,
                   used, own>>

\* forceResync: what was not uploaded is given up.
BeginResync ==
    /\ hydrated
    /\ Turn
    /\ Enter("restore", "resync", "get", Nothing)
    /\ ClearMarker
    /\ UNCHANGED <<row, stamp, memory, hydrated, puts, known, vault, other, now, changes, own>>

\* switchToExistingCloud in merge mode: the local preferences are exported first.
BeginMerge ==
    /\ hydrated
    /\ Turn
    /\ Enter("restore", "merge", "get", Export)
    /\ UNCHANGED <<row, stamp, memory, hydrated, puts, dirty, due, known, vault, other, now,
                   changes, own>>

\* The lanes when the vault has been stored by another call: what they carry is no longer
\* the server's.
Outdated == [l \in Lanes |-> [lane[l] EXCEPT !.current = FALSE]]

\* The server takes the upload and the device hears of it: a push is done, a pull that
\* flushed goes on, and a merge is done and leaves the marker.
Stored(l) ==
    /\ lane[l].stage = "put"
    /\ vault' = lane[l].carries
    /\ known' = TRUE
    /\ lane' = [Outdated EXCEPT ![l] =
                   IF l = "pull" THEN [NoCall EXCEPT !.op = "pull", !.stage = "get"] ELSE NoCall]
    /\ IF l = "restore" THEN UNCHANGED <<dirty, due>> ELSE ClearMarker
    /\ UNCHANGED <<row, stamp, memory, hydrated, puts, other, now, used, own>>

\* The request fails, or only its answer is lost.
RequestFails(l) ==
    /\ lane[l].stage \in {"put", "get"}
    /\ Turn
    /\ \/ Leave(l) /\ UNCHANGED <<vault, known>>
       \/ /\ lane[l].stage = "put"
          /\ vault' = lane[l].carries
          /\ known' = FALSE
          /\ lane' = [Outdated EXCEPT ![l] = NoCall]
    /\ UNCHANGED <<row, stamp, memory, hydrated, puts, dirty, due, other, now, changes,
                   own>>

\* mergePreferencesLatestWins: a tie favours the local side.
Latest(mine, theirs) ==
    IF mine.prefs = NoRow \/ (theirs.prefs # NoRow /\ theirs.ts > mine.ts)
    THEN theirs ELSE mine

\* Another device changes a setting, pulls, or pushes what it holds (changed or not: a
\* push uploads the whole vault whatever changed).
OtherChanges(s) ==
    /\ changes < MaxChanges
    /\ changes' = changes + 1
    /\ now' = now + 1
    /\ other' = [prefs |-> [(IF other.prefs = NoRow THEN Default ELSE other.prefs)
                               EXCEPT ![s] = changes + 1],
                 ts |-> now + 1]
    /\ UNCHANGED <<row, stamp, memory, hydrated, puts, dirty, due, lane, known, vault,
                   turns, own>>

OtherPulls ==
    /\ other' = Latest(other, vault)
    /\ UNCHANGED <<row, stamp, memory, hydrated, puts, dirty, due, lane, known, vault, now,
                   used, own>>

OtherPushes ==
    /\ vault' = other
    /\ known' = FALSE
    /\ lane' = Outdated
    /\ UNCHANGED <<row, stamp, memory, hydrated, puts, dirty, due, other, now, used, own>>

-----------------------------------------------------------------------------
(* The way back.                                                           *)

\* pullVaultIfChanged, and the unconditional fetch of a restore.
Fetched(l) ==
    LET c == lane[l]
    IN  /\ c.stage = "get"
        /\ IF l = "pull" /\ known
           THEN Leave(l)
           ELSE lane' = [lane EXCEPT ![l] =
                    [op |-> c.op, stage |-> IF l = "pull" THEN "gate" ELSE "import",
                     carries |-> IF c.op = "merge" THEN Latest(c.carries, vault) ELSE vault,
                     current |-> TRUE]]
        /\ UNCHANGED <<row, stamp, memory, hydrated, puts, dirty, due, known, vault, other,
                       now, used, own>>

\* Mutant of Newer: the stamps are not compared.
NewerAlways(carried) == carried.prefs # NoRow

\* The condition of gatePreferencesByTimestamp: a tie favours the row.
Newer(carried) == carried.prefs # NoRow /\ stamp < carried.ts

Disturbed == [i \in DOMAIN puts |-> [puts[i] EXCEPT !.calm = FALSE]]

\* gatePreferencesByTimestamp: older preferences are taken out of the vault, whose other
\* tables are imported all the same.  Newer ones are encrypted before the transaction.
Gate ==
    LET c == lane["pull"]
    IN  /\ c.stage = "gate"
        /\ IF Newer(c.carries)
           THEN /\ lane' = [lane EXCEPT !["pull"].stage = "import"]
                /\ puts' = Disturbed
                /\ UNCHANGED known
           ELSE /\ Leave("pull")
                /\ known' = c.current
                /\ UNCHANGED puts
        /\ UNCHANGED <<row, stamp, memory, hydrated, dirty, due, vault, other, now, used, own>>

\* importAll: row and stamp in one transaction.  The merge imports into a new database;
\* a restore from a vault without an opinion leaves the row.
Import(l) ==
    LET c         == lane[l]
        replaces  == c.carries.prefs # NoRow \/ c.op = "merge"
        unstamped == c.carries.prefs # NoRow /\ c.carries.ts = 0
    IN  /\ c.stage = "import"
        /\ row' = IF replaces THEN c.carries.prefs ELSE row
        /\ now' = IF unstamped THEN now + 1 ELSE now
        /\ stamp' = IF unstamped THEN now + 1 ELSE IF replaces THEN c.carries.ts ELSE stamp
        /\ puts' = Disturbed
        /\ IF l = "pull"
           THEN Leave(l) /\ known' = c.current /\ UNCHANGED own
           ELSE /\ lane' = [lane EXCEPT ![l].stage = "reload"]
                /\ own' = Nothing
                /\ UNCHANGED known
        /\ UNCHANGED <<memory, hydrated, dirty, due, vault, other, used>>

\* The end of a restore: reload shows the row (which a routine pull never does), and a
\* merge uploads what it made.
ShowRestored ==
    /\ lane["restore"].stage = "reload"
    /\ memory' = IF row = NoRow THEN Default ELSE row
    /\ hydrated' = TRUE
    /\ IF lane["restore"].op = "merge"
       THEN lane' = [lane EXCEPT !["restore"].stage = "put", !["restore"].carries = Export]
       ELSE Leave("restore")
    /\ UNCHANGED <<row, stamp, puts, dirty, due, known, vault, other, now, used, own>>

PreferencesNext ==
    \/ Hydrate \/ \E s \in Settings : Update(s)
    \/ \E i \in DOMAIN puts : PutRow(i)
    \/ PutStamp \/ WriteFails \/ ReloadTab
    \/ BeginPush \/ BeginPull \/ BeginResync \/ BeginMerge
    \/ \E l \in Lanes : Stored(l) \/ RequestFails(l)
    \/ \E s \in Settings : OtherChanges(s)
    \/ OtherPulls \/ OtherPushes
    \/ \E l \in {"pull", "restore"} : Fetched(l) \/ Import(l)
    \/ Gate \/ ShowRestored

PreferencesSpec == PreferencesInit /\ [][PreferencesNext]_prefVars

-----------------------------------------------------------------------------
(* Properties.                                                             *)

\* A change that was written and stamped while no vault was being imported stands until a
\* later one takes its place: no refresh brings older preferences back, whichever device
\* pushes what, whatever fails, and however often the tab is reloaded.  A restore the user
\* asks for gives it up.
OwnChangeStands ==
    own.ts > 0 /\ puts = <<>> => stamp > own.ts \/ Export = own

\* preferences-store.ts: update is to "merge a patch": when it writes the row, the settings
\* it does not name keep the value the row has, the changes that were imported from other
\* devices included.
PatchKeepsTheRest ==
    [][/\ Len(puts) = 1 /\ puts[1].stage = "row" /\ puts[1].calm
       /\ puts[1].of \in Settings
       /\ row # NoRow /\ row' # row /\ puts' # puts
       => \A s \in Settings \ {puts[1].of} : row'[s] = row[s]]_prefVars
=============================================================================
