---------------------------- MODULE VaultMigration ----------------------------
(***************************************************************************)
(* The migration of vaults from Vercel Blob to Upstash, as an operator runs *)
(* it (src/src/core/sync/migration/blob-to-upstash.ts,                      *)
(* src/scripts/migrate-blob-to-upstash.ts) while clients push to Upstash     *)
(* (core/sync/adapters/upstash-adapter.ts).  A run goes through the vaults   *)
(* it lists one by one; it may be started again, with other options.        *)
(***************************************************************************)
EXTENDS Integers, FiniteSets

CONSTANTS
    Vaults,             \* vault ids that Blob holds at first
    MaxRuns, MaxPushes, MaxStorageFaults    \* bounds

ASSUME MigrationAssumption ==
    MaxRuns \in Nat /\ MaxPushes \in Nat /\ MaxStorageFaults \in Nat

VARIABLES
    blob,       \* vaults/<id>.json in Blob
    upstash,    \* vault:<id> in Upstash: none, the old content of Blob or a later one
    run,        \* the run in progress: what it has still to do
    report,     \* what it will say: vaults written, and vaults that failed
    pushed,     \* history: the last push of each vault, 0 for none
    finished,   \* history: the reports of the runs that ended
    runs, pushes, storageFaults     \* how much of the bounds is used

migrationVars == <<blob, upstash, run, report, pushed, finished, runs, pushes, storageFaults>>

Missing == -1
Old == 0                        \* what the vault was when Blob was switched off
Contents == {Missing} \cup (Old..MaxPushes)

Options == [execute : BOOLEAN, deleteBlob : BOOLEAN, skipExisting : BOOLEAN]
Idling == [stage |-> "off", todo |-> {}, now |-> {},
           options |-> [execute |-> FALSE, deleteBlob |-> FALSE, skipExisting |-> FALSE]]
NoReport == [migrated |-> {}, failed |-> {}]

MigrationTypeOK ==
    /\ blob \subseteq Vaults
    /\ upstash \in [Vaults -> Contents]
    /\ run.stage \in {"off", "next", "check", "read", "write", "delete"}
    /\ run.todo \subseteq Vaults /\ run.now \subseteq Vaults /\ Cardinality(run.now) <= 1
    /\ run.options \in Options
    /\ report \in [migrated : SUBSET Vaults, failed : SUBSET Vaults]
    /\ report.migrated \cap report.failed = {}
    /\ pushed \in [Vaults -> 0..MaxPushes]
    /\ finished \subseteq [migrated : SUBSET Vaults, failed : SUBSET Vaults, left : SUBSET Vaults]
    /\ runs \in 0..MaxRuns /\ pushes \in 0..MaxPushes /\ storageFaults \in 0..MaxStorageFaults

MigrationInit ==
    /\ blob = Vaults
    /\ upstash = [v \in Vaults |-> Missing]
    /\ run = Idling /\ report = NoReport
    /\ pushed = [v \in Vaults |-> 0] /\ finished = {}
    /\ runs = 0 /\ pushes = 0 /\ storageFaults = 0

-----------------------------------------------------------------------------
\* The loop goes on to the next vault.
NextVault == run' = [run EXCEPT !.stage = "next", !.now = {}]

Fault == storageFaults < MaxStorageFaults /\ storageFaults' = storageFaults + 1

\* migrateBlobVaultsToUpstash: list the vaults.  deleteBlob and skipExisting count only
\* with execute.
StartMigration ==
    /\ run.stage = "off"
    /\ runs < MaxRuns
    /\ runs' = runs + 1
    /\ \E o \in Options :
          run' = [stage |-> "next", todo |-> blob, now |-> {},
                  options |-> [execute |-> o.execute,
                               deleteBlob |-> o.deleteBlob /\ o.execute,
                               skipExisting |-> o.skipExisting /\ o.execute]]
    /\ report' = NoReport
    /\ UNCHANGED <<blob, upstash, pushed, finished, pushes, storageFaults>>

TakeVault ==
    /\ run.stage = "next"
    /\ \E v \in run.todo :
          run' = [run EXCEPT !.todo = @ \ {v},
                             !.now = IF run.options.execute THEN {v} ELSE {},
                             !.stage = CASE ~run.options.execute -> "next"
                                         [] run.options.skipExisting -> "check"
                                         [] OTHER -> "read"]
    /\ UNCHANGED <<blob, upstash, report, pushed, finished, runs, pushes, storageFaults>>

CheckExisting ==
    /\ run.stage = "check"
    /\ \E v \in run.now :
          IF upstash[v] # Missing THEN NextVault ELSE run' = [run EXCEPT !.stage = "read"]
    /\ UNCHANGED <<blob, upstash, report, pushed, finished, runs, pushes, storageFaults>>

\* fetchUrl.  A blob no longer there is a failure.
ReadBlob ==
    /\ run.stage = "read"
    /\ \/ run.now \subseteq blob /\ run' = [run EXCEPT !.stage = "write"]
          /\ UNCHANGED <<report, storageFaults>>
       \/ /\ Fault
          /\ report' = [report EXCEPT !.failed = @ \cup run.now]
          /\ NextVault
    /\ UNCHANGED <<blob, upstash, pushed, finished, runs, pushes>>

\* Mutant of WriteUpstash: a failure is noted, and the original deleted all the same.
WriteAndDeleteAnyway ==
    /\ run.stage = "write"
    /\ \/ /\ upstash' = [v \in Vaults |-> IF v \in run.now THEN Old ELSE upstash[v]]
          /\ report' = [report EXCEPT !.migrated = @ \cup run.now]
          /\ UNCHANGED storageFaults
       \/ Fault /\ UNCHANGED upstash /\ report' = [report EXCEPT !.failed = @ \cup run.now]
    /\ IF run.options.deleteBlob THEN run' = [run EXCEPT !.stage = "delete"] ELSE NextVault
    /\ UNCHANGED <<blob, pushed, finished, runs, pushes>>

\* Mutant of WriteUpstash: a failure is not noted.
WriteSilently ==
    /\ run.stage = "write"
    /\ \/ /\ upstash' = [v \in Vaults |-> IF v \in run.now THEN Old ELSE upstash[v]]
          /\ report' = [report EXCEPT !.migrated = @ \cup run.now]
          /\ IF run.options.deleteBlob THEN run' = [run EXCEPT !.stage = "delete"] ELSE NextVault
          /\ UNCHANGED storageFaults
       \/ Fault /\ NextVault /\ UNCHANGED <<upstash, report>>
    /\ UNCHANGED <<blob, pushed, finished, runs, pushes>>

\* SET vault:<id>, whatever is there.
WriteUpstash ==
    /\ run.stage = "write"
    /\ \/ /\ upstash' = [v \in Vaults |-> IF v \in run.now THEN Old ELSE upstash[v]]
          /\ report' = [report EXCEPT !.migrated = @ \cup run.now]
          /\ IF run.options.deleteBlob THEN run' = [run EXCEPT !.stage = "delete"] ELSE NextVault
          /\ UNCHANGED storageFaults
       \/ /\ Fault
          /\ report' = [report EXCEPT !.failed = @ \cup run.now]
          /\ NextVault
          /\ UNCHANGED upstash
    /\ UNCHANGED <<blob, pushed, finished, runs, pushes>>

\* A failure to delete is not fatal, and not in the report.
DeleteBlob ==
    /\ run.stage = "delete"
    /\ \/ blob' = blob \ run.now /\ UNCHANGED storageFaults
       \/ Fault /\ UNCHANGED blob
    /\ NextVault
    /\ UNCHANGED <<upstash, report, pushed, finished, runs, pushes>>

EndMigration ==
    /\ run.stage = "next" /\ run.todo = {}
    /\ run' = Idling
    /\ finished' = IF run.options.execute
                   THEN finished \cup {[migrated |-> report.migrated, failed |-> report.failed,
                                        left |-> {v \in Vaults : upstash[v] = Missing}]}
                   ELSE finished
    /\ UNCHANGED <<blob, upstash, report, pushed, runs, pushes, storageFaults>>

\* The CLI is interrupted, or a list or get rejects, which nothing catches.
AbortMigration ==
    /\ run.stage # "off"
    /\ run' = Idling
    /\ Fault
    /\ UNCHANGED <<blob, upstash, report, pushed, finished, runs, pushes>>

\* UpstashSyncAdapter.put, for a client that still has its data.
ClientPushes(v) ==
    /\ pushes < MaxPushes
    /\ pushes' = pushes + 1
    /\ upstash' = [upstash EXCEPT ![v] = pushes + 1]
    /\ pushed' = [pushed EXCEPT ![v] = pushes + 1]
    /\ UNCHANGED <<blob, run, report, finished, runs, storageFaults>>

MigrationNext ==
    \/ StartMigration \/ TakeVault \/ CheckExisting \/ ReadBlob \/ WriteUpstash
    \/ DeleteBlob \/ EndMigration \/ AbortMigration
    \/ \E v \in Vaults : ClientPushes(v)

MigrationSpec == MigrationInit /\ [][MigrationNext]_migrationVars

-----------------------------------------------------------------------------
(* Properties.                                                             *)

\* Wherever a run fails or is interrupted, and however often it is started again, every
\* vault is in one store at least: Blob's copy goes only after Upstash has one.
NoVaultLost == \A v \in Vaults : v \in blob \/ upstash[v] # Missing

\* A run that reports no failure has left no vault out of Upstash.
CleanReportIsTrue ==
    \A r \in finished : r.failed = {} => r.left = {}

\* migrate-blob-to-upstash.ts: "--skip-existing: leaves fresh Upstash data intact".  A run
\* with skipExisting does not put the old content in the place of a client's push.
SkipKeepsPushes ==
    [][\A v \in Vaults : run.options.skipExisting /\ upstash[v] > Old => upstash'[v] # Old]_migrationVars

\* blob-to-upstash.ts:18-19: "Running twice is safe (SET is last-write-wins)".  What a
\* client pushed is not replaced by what Blob kept.
PushesSurviveMigration == \A v \in Vaults : pushed[v] > 0 => upstash[v] # Old
=============================================================================
