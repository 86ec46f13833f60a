------------------------------- MODULE FileVault -------------------------------
(***************************************************************************)
(* The vault store of a self-hoster: one JSON file per vault                *)
(* (src/src/core/sync/adapters/filesystem-adapter.ts).  Several processes    *)
(* may serve one directory and each may die between two system calls; the    *)
(* calls of one operation are the actions.                                  *)
(***************************************************************************)
EXTENDS Naturals, FiniteSets

CONSTANTS
    VaultIds,                \* vault ids
    Processes,          \* server processes
    MaxPuts, MaxFileFaults      \* bounds: puts; crashes and full disks

ASSUME FileAssumption == MaxPuts \in Nat /\ MaxFileFaults \in Nat

VARIABLES
    file,       \* <id>.json: nothing, or the put it holds and whether all of it
    tmp,        \* the .tmp- files
    proc,       \* what each process is doing
    acked,      \* history: per vault, the last put that was answered ok
    got,        \* what a get returned last
    puts, fileFaults    \* how much of the bounds is used

fileVars == <<file, tmp, proc, acked, got, puts, fileFaults>>

NoFile == [put |-> 0, whole |-> TRUE]
Content == [put : 1..MaxPuts, whole : BOOLEAN]
Resting == [stage |-> "idle", id |-> {}, put |-> 0]

FileTypeOK ==
    /\ file \in [VaultIds -> {NoFile} \cup Content]
    /\ tmp \subseteq [id : VaultIds, put : 1..MaxPuts, whole : BOOLEAN]
    /\ proc \in [Processes -> {Resting} \cup
                   [stage : {"write", "rename"}, id : {{i} : i \in VaultIds}, put : 1..MaxPuts]]
    /\ acked \in [VaultIds -> 0..MaxPuts]
    /\ got \in {NoFile} \cup Content
    /\ puts \in 0..MaxPuts /\ fileFaults \in 0..MaxFileFaults

FileInit ==
    /\ file = [i \in VaultIds |-> NoFile] /\ tmp = {}
    /\ proc = [p \in Processes |-> Resting]
    /\ acked = [i \in VaultIds |-> 0] /\ got = NoFile
    /\ puts = 0 /\ fileFaults = 0

-----------------------------------------------------------------------------
\* put: the name of the temporary file is new, so opening it with "wx" succeeds.
OpenTmp(p, i) ==
    /\ proc[p] = Resting /\ puts < MaxPuts
    /\ puts' = puts + 1
    /\ tmp' = tmp \cup {[id |-> i, put |-> puts + 1, whole |-> FALSE]}
    /\ proc' = [proc EXCEPT ![p] = [stage |-> "write", id |-> {i}, put |-> puts + 1]]
    /\ UNCHANGED <<file, acked, got, fileFaults>>

Mine(p) == {t \in tmp : t.put = proc[p].put}

\* Mutant of WriteTmp: the file is written in place.
WriteInPlace(p) ==
    /\ proc[p].stage = "write"
    /\ \E t \in Mine(p) : file' = [file EXCEPT ![t.id] = [put |-> t.put, whole |-> t.whole]]
    /\ tmp' = (tmp \ Mine(p)) \cup {[t EXCEPT !.whole = TRUE] : t \in Mine(p)}
    /\ proc' = [proc EXCEPT ![p].stage = "rename"]
    /\ UNCHANGED <<acked, got, puts, fileFaults>>

WriteTmp(p) ==
    /\ proc[p].stage = "write"
    /\ tmp' = (tmp \ Mine(p)) \cup {[t EXCEPT !.whole = TRUE] : t \in Mine(p)}
    /\ proc' = [proc EXCEPT ![p].stage = "rename"]
    /\ UNCHANGED <<file, acked, got, puts, fileFaults>>

\* rename within the directory is atomic.
Rename(p) ==
    /\ proc[p].stage = "rename"
    /\ \E t \in Mine(p) :
          /\ file' = [file EXCEPT ![t.id] = [put |-> t.put, whole |-> t.whole]]
          /\ tmp' = tmp \ {t}
          /\ acked' = [acked EXCEPT ![t.id] = t.put]
    /\ proc' = [proc EXCEPT ![p] = Resting]
    /\ UNCHANGED <<got, puts, fileFaults>>

FileFault == fileFaults < MaxFileFaults /\ fileFaults' = fileFaults + 1

\* Mutant of PutFails: the error is swallowed and success answered.
PutFailsSilently(p) ==
    /\ proc[p].stage \in {"write", "rename"}
    /\ FileFault
    /\ tmp' \in {tmp, tmp \ Mine(p)}
    /\ acked' = [i \in VaultIds |-> IF i \in proc[p].id THEN proc[p].put ELSE acked[i]]
    /\ proc' = [proc EXCEPT ![p] = Resting]
    /\ UNCHANGED <<file, got, puts>>

\* The disk is full: the temporary file is removed if it can be, and the error answered.
PutFails(p) ==
    /\ proc[p].stage \in {"write", "rename"}
    /\ FileFault
    /\ tmp' \in {tmp, tmp \ Mine(p)}
    /\ proc' = [proc EXCEPT ![p] = Resting]
    /\ UNCHANGED <<file, acked, got, puts>>

Dies(p) ==
    /\ proc[p] # Resting
    /\ FileFault
    /\ proc' = [proc EXCEPT ![p] = Resting]
    /\ UNCHANGED <<file, tmp, acked, got, puts>>

ReadFile(p, i) ==
    /\ proc[p] = Resting
    /\ got' = file[i]
    /\ UNCHANGED <<file, tmp, proc, acked, puts, fileFaults>>

\* delete: a file that is not there is as good as deleted.
RemoveFile(p, i) ==
    /\ proc[p] = Resting
    /\ file' = [file EXCEPT ![i] = NoFile]
    /\ acked' = [acked EXCEPT ![i] = 0]
    /\ UNCHANGED <<tmp, proc, got, puts, fileFaults>>

FileNext ==
    \E p \in Processes :
        \/ WriteTmp(p) \/ Rename(p) \/ PutFails(p) \/ Dies(p)
        \/ \E i \in VaultIds : OpenTmp(p, i) \/ ReadFile(p, i) \/ RemoveFile(p, i)

FileSpec == FileInit /\ [][FileNext]_fileVars

-----------------------------------------------------------------------------
(* Properties.                                                             *)

\* Whenever a process dies and whichever process reads, a get returns a whole vault: the
\* issue the temporary file was introduced for (#117).
ReadsAreWhole == got.whole

\* A vault that was answered ok is there until it is deleted, whatever other writers of
\* the vault do or fail to do.
AnsweredIsStored == \A i \in VaultIds : acked[i] > 0 => file[i] # NoFile
=============================================================================
