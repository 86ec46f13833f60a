------------------------------- MODULE KeyVault -------------------------------
(***************************************************************************)
(* Keys and data of one browser: the boot state machine                     *)
(* (src/src/stores/boot-fsm.ts, app-store.ts), the key manager              *)
(* (core/storage/key-manager.ts), the opening and deleting of the local     *)
(* database (core/storage/db.ts), and the flows that replace the keys: the  *)
(* onboarding, the recovery with a passphrase, the switch to an existing    *)
(* vault, the wipe.  The page may be closed between any two awaits.         *)
(*                                                                         *)
(* A database key is made from a passphrase and the salt of a database; a   *)
(* vault key from a passphrase and the KDF that is stamped on the vault.    *)
(* STORAGE_MODE is "sync" just when vault keys are stored.                  *)
(***************************************************************************)
EXTENDS Naturals, FiniteSets

CONSTANTS
    Passphrases,
    MaxOpens,           \* bound: databases created
    MaxKeyMishaps       \* bound: flows cut short, failed steps, upgrades elsewhere

ASSUME KeyAssumption == MaxOpens \in Nat /\ MaxKeyMishaps \in Nat

VARIABLES
    disk,       \* IndexedDB: its salt, the keys its feeds are encrypted with, what it has
    stored,     \* localStorage DERIVED_KEYS: a database key, perhaps a vault key
    onboarded,  \* localStorage ONBOARDING_COMPLETE
    mem,        \* the open database's key
    creds,      \* useSyncStore.credentials
    boot,       \* the boot state; "reset" is unknown with the onboarding showing
    flow,       \* the flow in progress
    cloud,      \* the vaults on the server
    torn,       \* history: a switch ended between its import and its persisting of keys
    opens, keyMishaps   \* how much of the bounds is used

keyVars == <<disk, stored, onboarded, mem, creds, boot, flow, cloud, torn, opens, keyMishaps>>

Key      == [pass : Passphrases, salt : 1..MaxOpens]
VaultKey == [pass : Passphrases, kdf : {"pbkdf2", "argon2id"}]

\* What a user may have: the library of the vault they bring, feeds they add here.
Has      == SUBSET {"library", "own"}
NoVault  == [kdf |-> "none", has |-> {}]
NoDisk   == [salt |-> 0, keys |-> {}, has |-> {}]
NoFlow   == [op |-> "none", stage |-> "none", pass |-> {}, kdf |-> "none", has |-> {}]

Opt(S) == {{}} \cup {{x} : x \in S}

KeyTypeOK ==
    /\ disk \in [salt : 0..MaxOpens, keys : SUBSET Key, has : Has]
    /\ stored \in Opt([db : Key, vault : Opt(VaultKey)])
    /\ onboarded \in BOOLEAN
    /\ mem \in Opt(Key)
    /\ creds \in Opt(VaultKey)
    /\ boot \in {"closed", "needs-onboarding", "hydrating", "ready", "needs-recovery",
                 "error", "reset"}
    /\ flow \in [op : {"none", "init", "init-sync", "recover", "replace", "merge", "enable",
                       "wipe"},
                 stage : {"none", "cleanup", "delete", "open", "store", "import", "persist",
                          "enable", "push", "upgrade", "rekey", "finish"},
                 pass : Opt(Passphrases), kdf : {"none", "pbkdf2", "argon2id"}, has : Has]
    /\ cloud \in [Passphrases -> {NoVault} \cup [kdf : {"pbkdf2", "argon2id"}, has : Has]]
    /\ torn \in BOOLEAN
    /\ opens \in 0..MaxOpens
    /\ keyMishaps \in 0..MaxKeyMishaps

\* A new browser; the user may have made vaults elsewhere.
KeyInit ==
    /\ disk = NoDisk /\ stored = {} /\ onboarded = FALSE
    /\ mem = {} /\ creds = {} /\ boot = "closed" /\ flow = NoFlow
    /\ \E p \in Passphrases, kdf \in {"pbkdf2", "argon2id"} :
          cloud = [q \in Passphrases |-> IF q = p THEN [kdf |-> kdf, has |-> {"library"}]
                                                  ELSE NoVault]
    /\ torn = FALSE /\ opens = 0 /\ keyMishaps = 0

Mishap == keyMishaps < MaxKeyMishaps /\ keyMishaps' = keyMishaps + 1

-----------------------------------------------------------------------------
(* Boot.                                                                   *)

\* getFeeds fails when there are feeds and none of them can be decrypted.
Canary(key) == disk.keys = {} \/ key \in disk.keys

\* Mutant of LoadPage: a failed canary destroys the vault and the database (issue #117).
LoadPageDestroys ==
    /\ boot = "closed"
    /\ UNCHANGED <<torn, flow, opens, keyMishaps>>
    /\ IF ~onboarded \/ stored = {}
       THEN boot' = "needs-onboarding" /\ UNCHANGED <<mem, creds, disk, stored, onboarded, cloud>>
       ELSE \E s \in stored :
              IF Canary(s.db)
              THEN /\ boot' = "hydrating" /\ mem' = {s.db} /\ creds' = s.vault
                   /\ UNCHANGED <<disk, stored, onboarded, cloud>>
              ELSE /\ boot' = "needs-onboarding" /\ mem' = {} /\ creds' = {}
                   /\ disk' = NoDisk /\ stored' = {} /\ onboarded' = FALSE
                   /\ cloud' = [p \in Passphrases |->
                                  IF \E v \in s.vault : v.pass = p THEN NoVault ELSE cloud[p]]

\* The page is opened: boot, checking-onboarding, restoring, and restore.
LoadPage ==
    /\ boot = "closed"
    /\ IF ~onboarded \/ stored = {}
       THEN boot' = "needs-onboarding" /\ UNCHANGED <<mem, creds>>
       ELSE \E s \in stored :
              /\ mem' = {s.db}
              /\ IF Canary(s.db)
                 THEN boot' = "hydrating" /\ creds' = s.vault
                 ELSE boot' = "needs-recovery" /\ UNCHANGED creds
    /\ UNCHANGED <<disk, stored, onboarded, flow, cloud, torn, opens, keyMishaps>>

\* hydrating: preferences are read and perhaps written; the pull is an action of its own.
Hydrated ==
    /\ boot = "hydrating"
    /\ boot' = "ready"
    /\ UNCHANGED <<disk, stored, onboarded, mem, creds, flow, cloud, torn, opens, keyMishaps>>

\* The switch has a database of its own and not yet stored the keys.
Tears == flow.op \in {"replace", "merge"} /\ flow.stage \in {"import", "persist"}

ClosePage ==
    /\ boot # "closed"
    /\ IF flow = NoFlow THEN UNCHANGED keyMishaps ELSE Mishap
    /\ boot' = "closed" /\ mem' = {} /\ creds' = {} /\ flow' = NoFlow
    /\ torn' = (torn \/ Tears)
    /\ UNCHANGED <<disk, stored, onboarded, cloud, opens>>

-----------------------------------------------------------------------------
(* What goes on while the database is open.                                *)

AddsFeed ==
    /\ boot = "ready" /\ mem # {}
    /\ disk' = [disk EXCEPT !.keys = @ \cup mem, !.has = @ \cup {"own"}]
    /\ UNCHANGED <<stored, onboarded, mem, creds, boot, flow, cloud, torn, opens, keyMishaps>>

\* Mutant of Push: the envelope is not stamped with its KDF.
PushUnstamped ==
    /\ boot = "ready" /\ mem # {}
    /\ \E v \in creds : cloud' = [cloud EXCEPT ![v.pass] = [kdf |-> "none", has |-> disk.has]]
    /\ UNCHANGED <<disk, stored, onboarded, mem, creds, boot, flow, torn, opens, keyMishaps>>

\* pushVault: the vault is what the open database has, encrypted with the key at hand.
Push ==
    /\ boot = "ready" /\ mem # {}
    /\ \E v \in creds : cloud' = [cloud EXCEPT ![v.pass] = [kdf |-> v.kdf, has |-> disk.has]]
    /\ UNCHANGED <<disk, stored, onboarded, mem, creds, boot, flow, torn, opens, keyMishaps>>

\* pullVaultIfChanged and importVault; a vault that cannot be decrypted is an error.
Pull ==
    /\ boot \in {"hydrating", "ready"} /\ mem # {}
    /\ \E v \in creds :
          /\ cloud[v.pass].kdf = v.kdf
          /\ disk' = [disk EXCEPT !.keys = mem, !.has = cloud[v.pass].has]
    /\ UNCHANGED <<stored, onboarded, mem, creds, boot, flow, cloud, torn, opens, keyMishaps>>

\* upgradeVaultKdf on another device of the user.
UpgradedElsewhere(p) ==
    /\ cloud[p].kdf = "pbkdf2"
    /\ Mishap
    /\ cloud' = [cloud EXCEPT ![p].kdf = "argon2id"]
    /\ UNCHANGED <<disk, stored, onboarded, mem, creds, boot, flow, torn, opens>>

\* disableSync, after deleteCloudVault or without it.
DisableSync ==
    /\ boot = "ready" /\ flow = NoFlow /\ creds # {}
    /\ \/ UNCHANGED cloud
       \/ \E v \in creds : cloud' = [cloud EXCEPT ![v.pass] = NoVault]
    /\ stored' = {[s EXCEPT !.vault = {}] : s \in stored}
    /\ creds' = {}
    /\ UNCHANGED <<disk, onboarded, mem, boot, flow, torn, opens, keyMishaps>>

-----------------------------------------------------------------------------
(* The flows.  Each begins with what it knows and ends in NoFlow.          *)

Begin(op, stage, p) ==
    flow' = [op |-> op, stage |-> stage, pass |-> {p}, kdf |-> cloud[p].kdf, has |-> cloud[p].has]

Onboarding == boot \in {"needs-onboarding", "reset"}

\* The modal has generated a passphrase nobody has used.
StartNew(p) ==
    /\ Onboarding /\ flow = NoFlow
    /\ cloud[p] = NoVault
    /\ \A k \in disk.keys \cup {s.db : s \in stored} : k.pass # p
    /\ boot' = "needs-onboarding"
    /\ \E op \in {"init", "init-sync"} : Begin(op, "cleanup", p)
    /\ UNCHANGED <<disk, stored, onboarded, mem, creds, cloud, torn, opens, keyMishaps>>

\* recovery-step: checkVaultExists and recoverVault have succeeded.
StartRecovery(p) ==
    /\ Onboarding /\ flow = NoFlow
    /\ cloud[p] # NoVault
    /\ Begin("recover", "delete", p)
    /\ UNCHANGED <<disk, stored, onboarded, mem, creds, boot, cloud, torn, opens, keyMishaps>>

\* switchToExistingCloud "replace": from the recovery screen or the login wizard.
StartReplace(p) ==
    /\ boot \in {"ready", "needs-recovery"} /\ flow = NoFlow
    /\ cloud[p] # NoVault
    /\ Begin("replace", "delete", p)
    /\ UNCHANGED <<disk, stored, onboarded, mem, creds, boot, cloud, torn, opens, keyMishaps>>

\* switchToExistingCloud "merge": from the settings, while sync is off.
StartMerge(p) ==
    /\ boot = "ready" /\ flow = NoFlow /\ creds = {} /\ mem # {}
    /\ cloud[p] # NoVault
    /\ flow' = [op |-> "merge", stage |-> "delete", pass |-> {p}, kdf |-> cloud[p].kdf,
                has |-> disk.has \cup cloud[p].has]
    /\ UNCHANGED <<disk, stored, onboarded, mem, creds, boot, cloud, torn, opens, keyMishaps>>

\* The settings' set-up wizard has generated a passphrase.
StartEnable(p) ==
    /\ boot = "ready" /\ flow = NoFlow /\ creds = {}
    /\ cloud[p] = NoVault
    /\ Begin("enable", "enable", p)
    /\ UNCHANGED <<disk, stored, onboarded, mem, creds, boot, cloud, torn, opens, keyMishaps>>

\* resetApp.  From the settings deleteCloudVault runs before it: one more attempt at
\* what "cleanup" does.
StartWipe ==
    /\ boot \in {"ready", "needs-recovery", "error"} /\ flow = NoFlow
    /\ flow' = [NoFlow EXCEPT !.op = "wipe", !.stage = "cleanup"]
    /\ UNCHANGED <<disk, stored, onboarded, mem, creds, boot, cloud, torn, opens, keyMishaps>>

-----------------------------------------------------------------------------
(* The steps they share.                                                   *)

FlowAt(stage) == flow.stage = stage
Goto(stage) == flow' = [flow EXCEPT !.stage = stage]
ThePass == CHOOSE p \in Passphrases : p \in flow.pass
TheKey  == [pass |-> ThePass, kdf |-> flow.kdf]

\* tryDeleteServerVault: best effort, with the vault key that is stored.
Cleanup ==
    /\ FlowAt("cleanup")
    /\ \/ /\ cloud' = [p \in Passphrases |->
                         IF \E s \in stored : \E v \in s.vault : v.pass = p
                         THEN NoVault ELSE cloud[p]]
          /\ UNCHANGED keyMishaps
       \/ Mishap /\ UNCHANGED cloud
    /\ Goto("delete")
    /\ UNCHANGED <<disk, stored, onboarded, mem, creds, boot, torn, opens>>

\* deleteDatabase; destroy then clears the storage, and resetApp the stores.
DeleteDatabase ==
    /\ FlowAt("delete")
    /\ disk' = NoDisk /\ mem' = {}
    /\ IF flow.op = "wipe"
       THEN /\ stored' = {} /\ onboarded' = FALSE /\ torn' = FALSE
            /\ creds' = IF boot = "ready" THEN {} ELSE creds
            /\ boot' = "reset"
            /\ flow' = NoFlow
       ELSE Goto("open") /\ UNCHANGED <<stored, onboarded, torn, creds, boot>>
    /\ UNCHANGED <<cloud, opens, keyMishaps>>

\* open: a new database, a new salt, and the key made of it.
OpenFresh ==
    /\ FlowAt("open") /\ opens < MaxOpens
    /\ opens' = opens + 1
    /\ disk' = [NoDisk EXCEPT !.salt = opens + 1]
    /\ mem' = {[pass |-> ThePass, salt |-> opens + 1]}
    /\ Goto(IF flow.op \in {"replace", "merge"} THEN "import" ELSE "store")
    /\ UNCHANGED <<stored, onboarded, creds, boot, cloud, torn, keyMishaps>>

\* initFresh, from storeKeys on.  A new database has no feeds: the coupling check passes.
StoreKeys ==
    /\ FlowAt("store")
    /\ LET kdf   == IF flow.op = "recover" THEN flow.kdf ELSE "argon2id"
           vault == IF flow.op = "init" THEN {} ELSE {[pass |-> ThePass, kdf |-> kdf]}
       IN  /\ stored' = {[db |-> k, vault |-> vault] : k \in mem}
           /\ creds' = IF flow.op = "init-sync" THEN vault ELSE creds
    /\ torn' = FALSE
    /\ IF flow.op = "recover"
       THEN Goto("import") /\ UNCHANGED boot
       ELSE /\ boot' = "ready"
            /\ Goto(IF flow.op = "init" THEN "finish" ELSE "enable")
    /\ UNCHANGED <<disk, onboarded, mem, cloud, opens, keyMishaps>>

\* enableSync: addVaultKeys stores the new vault key beside the database key.
AddVaultKeys ==
    /\ FlowAt("enable")
    /\ IF stored = {}
       THEN Goto("finish") /\ UNCHANGED <<stored, creds>>
       ELSE /\ stored' = {[s EXCEPT !.vault = {[pass |-> ThePass, kdf |-> "argon2id"]}] :
                             s \in stored}
            /\ creds' = {[pass |-> ThePass, kdf |-> "argon2id"]}
            /\ Goto("push")
    /\ UNCHANGED <<disk, onboarded, mem, boot, cloud, torn, opens, keyMishaps>>

\* importVault.  The recovery does not look at its result.
ImportVault ==
    /\ FlowAt("import") /\ mem # {}
    /\ \/ disk' = [disk EXCEPT !.keys = mem, !.has = flow.has] /\ UNCHANGED keyMishaps
       \/ flow.op = "recover" /\ Mishap /\ UNCHANGED disk
    /\ Goto(IF flow.op = "recover" THEN "upgrade" ELSE "persist")
    /\ UNCHANGED <<stored, onboarded, mem, creds, boot, cloud, torn, opens>>

\* Mutant of PersistKeys: the vault key is added to the keys of the old database.
PersistVaultKey ==
    /\ FlowAt("persist")
    /\ stored' = {[s EXCEPT !.vault = {TheKey}] : s \in stored}
    /\ torn' = FALSE
    /\ Goto(IF flow.op = "merge" THEN "push" ELSE "upgrade")
    /\ UNCHANGED <<disk, onboarded, mem, creds, boot, cloud, opens, keyMishaps>>

\* persistDerivedKeysFromOpenDb and the coupling check.
PersistKeys ==
    /\ FlowAt("persist")
    /\ stored' = {[db |-> k, vault |-> {TheKey}] : k \in mem}
    /\ torn' = FALSE
    /\ Goto(IF flow.op = "merge" THEN "push" ELSE "upgrade")
    /\ UNCHANGED <<disk, onboarded, mem, creds, boot, cloud, opens, keyMishaps>>

\* pushVault of enableSync and of the merge.  The merge stops when it fails.
FlowPush ==
    /\ FlowAt("push")
    /\ LET kdf == IF flow.op = "merge" THEN flow.kdf ELSE "argon2id"
       IN  \/ /\ mem # {}
              /\ cloud' = [cloud EXCEPT ![ThePass] = [kdf |-> kdf, has |-> disk.has]]
              /\ Goto(IF flow.op = "merge" THEN "upgrade" ELSE "finish")
              /\ UNCHANGED keyMishaps
           \/ /\ Mishap \/ (mem = {} /\ UNCHANGED keyMishaps)
              /\ UNCHANGED cloud
              /\ IF flow.op = "merge" THEN flow' = NoFlow ELSE Goto("finish")
    /\ UNCHANGED <<disk, stored, onboarded, mem, creds, boot, torn, opens>>

\* upgradeVaultKdf: the vault as it was read, under the stronger key.  Best effort.
Upgrade ==
    /\ FlowAt("upgrade")
    /\ \/ /\ flow.kdf = "pbkdf2"
          /\ cloud' = [cloud EXCEPT ![ThePass] = [kdf |-> "argon2id", has |-> flow.has]]
          /\ Goto("rekey")
          /\ UNCHANGED keyMishaps
       \/ /\ IF flow.kdf = "argon2id" THEN UNCHANGED keyMishaps ELSE Mishap
          /\ Goto("finish")
          /\ UNCHANGED cloud
    /\ UNCHANGED <<disk, stored, onboarded, mem, creds, boot, torn, opens>>

\* Mutant of Rekey: the upgraded key is used and not stored.
RekeyInMemory ==
    /\ FlowAt("rekey")
    /\ flow' = [flow EXCEPT !.stage = "finish", !.kdf = "argon2id"]
    /\ UNCHANGED <<disk, stored, onboarded, mem, creds, boot, cloud, torn, opens, keyMishaps>>

\* updateStoredVaultKey
Rekey ==
    /\ FlowAt("rekey")
    /\ stored' = {[s EXCEPT !.vault = {[pass |-> ThePass, kdf |-> "argon2id"]}] : s \in stored}
    /\ flow' = [flow EXCEPT !.stage = "finish", !.kdf = "argon2id"]
    /\ UNCHANGED <<disk, onboarded, mem, creds, boot, cloud, torn, opens, keyMishaps>>

\* The end: completeOnboarding, which makes the boot ready wherever it was; or the
\* continuation of the switch, which lifts the recovery.
Finish ==
    /\ FlowAt("finish")
    /\ IF flow.op \in {"init", "init-sync", "recover"}
       THEN onboarded' = TRUE /\ boot' = "ready"
       ELSE UNCHANGED onboarded /\ boot' = IF boot = "needs-recovery" THEN "ready" ELSE boot
    /\ creds' = IF flow.op \in {"recover", "replace", "merge"} THEN {TheKey} ELSE creds
    /\ flow' = NoFlow
    /\ UNCHANGED <<disk, stored, mem, cloud, torn, opens, keyMishaps>>

\* open, a derivation or the import fails.  initFresh may have cleared everything; the
\* error it returns becomes the boot state of initialize, whose caller goes on.
StepFails ==
    /\ flow.stage \in {"open", "store", "import", "persist"}
    /\ flow.op = "recover" => flow.stage \notin {"import", "persist"}
    /\ Mishap
    /\ IF flow.op \in {"init", "init-sync"}
       THEN boot' = "error" /\ Goto(IF flow.op = "init" THEN "finish" ELSE "enable")
       ELSE flow' = NoFlow /\ UNCHANGED boot
    /\ IF flow.op \in {"init", "init-sync", "recover"}
       THEN /\ disk' = NoDisk /\ mem' = {}
            /\ \/ UNCHANGED <<stored, onboarded>>
               \/ stored' = {} /\ onboarded' = FALSE
            /\ torn' = torn
       ELSE /\ UNCHANGED <<disk, stored, onboarded>>
            /\ mem' = IF FlowAt("open") THEN {} ELSE mem
            /\ torn' = (torn \/ Tears)
    /\ UNCHANGED <<creds, cloud, opens>>

FlowStep ==
    \/ Cleanup \/ DeleteDatabase \/ OpenFresh \/ StoreKeys \/ AddVaultKeys
    \/ ImportVault \/ PersistKeys \/ FlowPush \/ Upgrade \/ Rekey \/ Finish

KeyNext ==
    \/ LoadPage \/ Hydrated \/ ClosePage
    \/ AddsFeed \/ Push \/ Pull \/ DisableSync
    \/ \E p \in Passphrases :
          \/ UpgradedElsewhere(p)
          \/ StartNew(p) \/ StartRecovery(p) \/ StartReplace(p) \/ StartMerge(p) \/ StartEnable(p)
    \/ StartWipe
    \/ FlowStep \/ StepFails

KeySpec == KeyInit /\ [][KeyNext]_keyVars

-----------------------------------------------------------------------------
(* Properties.                                                             *)

Resting == flow = NoFlow

\* Key-data coupling (key-manager.ts:26): between flows the stored key decrypts every
\* feed, and the open database is open with it, unless a switch ended between its import
\* and its persisting of the keys, which the canary is for.
KeysOpenData ==
    Resting /\ ~torn =>
        /\ disk.keys \subseteq {s.db : s \in stored}
        /\ mem # {} /\ disk.keys # {} => mem \subseteq {s.db : s \in stored}

\* ADR 018: once the onboarding is complete, a vault leaves the server only when the
\* user wipes everything or turns sync off.
OnboardedVaultsSurvive ==
    [][\A p \in Passphrases :
          onboarded /\ cloud[p] # NoVault /\ cloud'[p] = NoVault
          => flow.op = "wipe" \/ (creds # {} /\ creds' = {})]_keyVars

\* The vault key that is stored decrypts the vault (key-manager.ts:342), when no step
\* failed, no flow was cut short and no other device changed the vault.
StoredKeyOpensVault ==
    Resting /\ keyMishaps = 0 =>
        \A s \in stored : \A v \in s.vault :
            cloud[v.pass] # NoVault => cloud[v.pass].kdf = v.kdf

\* boot-fsm.ts:147: error is "terminal until explicit reset.  Ignore everything else so
\* that a stray dispatch [...] can't kick the app backwards."
ErrorIsTerminal == [][boot = "error" => boot' \in {"error", "reset", "closed"}]_keyVars

\* ADR 018, title: "No automated code path may delete server-side vault data": a vault
\* that holds the library is deleted only by a wipe or by turning sync off.
DeletedOnlyOnDemand ==
    [][\A p \in Passphrases :
          "library" \in cloud[p].has /\ cloud'[p] = NoVault
          => flow.op = "wipe" \/ (creds # {} /\ creds' = {})]_keyVars

\* sync-store.ts:580: "The cloud vault is never modified by this function"; nor by what
\* follows a switch or a recovery that failed: the library stays in the cloud.
LibraryStaysInCloud ==
    [][\A p \in Passphrases :
          "library" \in cloud[p].has => "library" \in cloud'[p].has \/ cloud'[p] = NoVault]_keyVars
=============================================================================
