----------------------------- MODULE ServerProofs ------------------------------
(***************************************************************************)
(* Proofs about the two stores of the vaults on the server: FileVault, for  *)
(* every set of vaults and of processes, and VaultMigration, for every set  *)
(* of vaults and any number of runs, pushes and failing commands.  The last *)
(* theorem puts the parts of the server together, with the results of       *)
(* LicencesProofs and RequestProofs.                                        *)
(***************************************************************************)
EXTENDS MCServer, LicencesProofs, RequestProofs, FiniteSetTheorems, TLAPS

-----------------------------------------------------------------------------
(* Vaults in files.                                                        *)

\* Only whole files are renamed into place: the temporary file of a process that is about
\* to rename is complete, and no put that is still to come takes its name.
TmpWhole ==
    /\ \A t \in tmp : t.put <= puts
    /\ \A p \in Processes :
          /\ proc[p].put <= puts
          /\ proc[p].stage = "rename" => \A t \in Mine(p) : t.whole

FilesWhole == \A i \in VaultIds : file[i].whole

FileInv ==
    /\ FileTypeOK
    /\ TmpWhole
    /\ FilesWhole
    /\ ReadsAreWhole
    /\ AnsweredIsStored

-----------------------------------------------------------------------------

\* The initial state has no files.
LEMMA InitFileInv == ASSUME FileInit PROVE FileInv
<1>1. FileTypeOK
  BY FileAssumption DEF FileInit, FileTypeOK
<1>2. TmpWhole
  BY DEF FileInit, TmpWhole, Resting
<1>3. FilesWhole /\ ReadsAreWhole /\ AnsweredIsStored
  BY DEF FileInit, FilesWhole, ReadsAreWhole, AnsweredIsStored, NoFile
<1> QED BY <1>1, <1>2, <1>3 DEF FileInv

\* A put that begins takes a number, and so a name, that no file has.
LEMMA OpenTmpKeepsInv ==
    ASSUME FileInv, NEW p \in Processes, NEW i \in VaultIds, OpenTmp(p, i)
    PROVE  FileInv'
<1>1. puts + 1 \in 1..MaxPuts /\ puts \in Nat
  BY FileAssumption DEF FileInv, FileTypeOK, OpenTmp
<1>2. FileTypeOK'
  <2>1. tmp' \subseteq [id : VaultIds, put : 1..MaxPuts, whole : BOOLEAN]
    <3>1. [id |-> i, put |-> puts + 1, whole |-> FALSE]
            \in [id : VaultIds, put : 1..MaxPuts, whole : BOOLEAN]
      BY <1>1
    <3> QED BY <3>1 DEF FileInv, FileTypeOK, OpenTmp
  <2>2. proc' \in [Processes -> {Resting} \cup
                     [stage : {"write", "rename"}, id : {{j} : j \in VaultIds}, put : 1..MaxPuts]]
    <3>1. {i} \in {{j} : j \in VaultIds}
      OBVIOUS
    <3>2. [stage |-> "write", id |-> {i}, put |-> puts + 1]
            \in [stage : {"write", "rename"}, id : {{j} : j \in VaultIds}, put : 1..MaxPuts]
      BY <1>1, <3>1
    <3> QED BY <3>2 DEF FileInv, FileTypeOK, OpenTmp
  <2> QED BY <1>1, <2>1, <2>2 DEF FileInv, FileTypeOK, OpenTmp
<1>3. TmpWhole'
  <2>1. \A t \in tmp' : t.put <= puts'
    BY <1>1 DEF FileInv, FileTypeOK, TmpWhole, OpenTmp
  <2>2. ASSUME NEW q \in Processes
        PROVE  proc'[q].put <= puts' /\ (proc'[q].stage = "rename" => \A t \in Mine(q)' : t.whole)
    <3>1. CASE q = p
      BY <1>1, <3>1 DEF FileInv, FileTypeOK, OpenTmp
    <3>2. CASE q # p
      <4>1. proc'[q] = proc[q]
        BY <3>2 DEF FileInv, FileTypeOK, OpenTmp
      <4>2. proc[q].put \in Nat /\ proc[q].put <= puts
        BY FileAssumption DEF FileInv, FileTypeOK, TmpWhole, Resting
      <4>3. Mine(q)' = Mine(q)
        BY <1>1, <4>1, <4>2 DEF Mine, OpenTmp
      <4> QED BY <1>1, <4>1, <4>2, <4>3 DEF FileInv, TmpWhole, OpenTmp
    <3> QED BY <3>1, <3>2
  <2> QED BY <2>1, <2>2 DEF TmpWhole
<1>4. FilesWhole' /\ ReadsAreWhole' /\ AnsweredIsStored'
  BY DEF FileInv, OpenTmp, FilesWhole, ReadsAreWhole, AnsweredIsStored
<1> QED BY <1>2, <1>3, <1>4 DEF FileInv

\* Writing makes a process's own temporary file whole, and no other less so.
LEMMA WriteTmpKeepsInv ==
    ASSUME FileInv, NEW p \in Processes, WriteTmp(p)
    PROVE  FileInv'
<1>1. \A t \in tmp' : \/ t \in tmp
                      \/ t.whole /\ \E u \in Mine(p) : t.put = u.put /\ t.id = u.id
                                    /\ t = [u EXCEPT !.whole = TRUE]
  BY DEF WriteTmp, Mine, FileInv, FileTypeOK
<1>2. FileTypeOK'
  <2>1. tmp' \subseteq [id : VaultIds, put : 1..MaxPuts, whole : BOOLEAN]
    BY ZenonT(40), <1>1 DEF FileInv, FileTypeOK, Mine
  <2>2. proc' \in [Processes -> {Resting} \cup
                     [stage : {"write", "rename"}, id : {{j} : j \in VaultIds}, put : 1..MaxPuts]]
    <3>1. proc[p] \in [stage : {"write", "rename"}, id : {{j} : j \in VaultIds}, put : 1..MaxPuts]
      BY DEF FileInv, FileTypeOK, WriteTmp, Resting
    <3> QED BY <3>1 DEF FileInv, FileTypeOK, WriteTmp
  <2> QED BY <2>1, <2>2 DEF FileInv, FileTypeOK, WriteTmp
<1>3. TmpWhole'
  <2>1. \A t \in tmp' : t.put <= puts'
    BY <1>1 DEF FileInv, TmpWhole, WriteTmp, Mine
  <2>2. \A q \in Processes : proc'[q].put = proc[q].put
    BY DEF FileInv, FileTypeOK, WriteTmp
  <2>3. ASSUME NEW q \in Processes, proc'[q].stage = "rename", NEW t \in Mine(q)'
        PROVE  t.whole
    <3>1. t \in tmp' /\ t.put = proc[q].put
      BY <2>2 DEF Mine
    <3>2. CASE q = p
      <4>1. t \notin Mine(p) => t \notin tmp
        BY <3>1, <3>2 DEF Mine
      <4> QED BY <3>1, <4>1 DEF WriteTmp, Mine, FileInv, FileTypeOK
    <3>3. CASE q # p
      <4>1. proc[q].stage = "rename"
        BY <2>3, <3>3 DEF FileInv, FileTypeOK, WriteTmp
      <4> QED BY <1>1, <3>1, <4>1 DEF FileInv, TmpWhole, Mine
    <3> QED BY <3>2, <3>3
  <2> QED BY <2>1, <2>2, <2>3 DEF FileInv, TmpWhole, WriteTmp
<1>4. FilesWhole' /\ ReadsAreWhole' /\ AnsweredIsStored'
  BY DEF FileInv, WriteTmp, FilesWhole, ReadsAreWhole, AnsweredIsStored
<1> QED BY <1>2, <1>3, <1>4 DEF FileInv

\* What is renamed into place is whole, and is there when the put is answered.
LEMMA RenameKeepsInv ==
    ASSUME FileInv, NEW p \in Processes, Rename(p)
    PROVE  FileInv'
<1>1. PICK t \in Mine(p) :
        /\ file' = [file EXCEPT ![t.id] = [put |-> t.put, whole |-> t.whole]]
        /\ tmp' = tmp \ {t}
        /\ acked' = [acked EXCEPT ![t.id] = t.put]
  BY DEF Rename
<1>2. t \in [id : VaultIds, put : 1..MaxPuts, whole : BOOLEAN] /\ t.whole
  BY DEF FileInv, FileTypeOK, TmpWhole, Mine, Rename
<1>3. /\ proc' = [proc EXCEPT ![p] = Resting] /\ puts' = puts /\ got' = got
      /\ fileFaults' = fileFaults
  BY DEF Rename
<1>4. FileTypeOK'
  BY <1>1, <1>2, <1>3, FileAssumption DEF FileInv, FileTypeOK, Content
<1>5. TmpWhole'
  <2>1. puts \in Nat
    BY DEF FileInv, FileTypeOK
  <2>2. \A q \in Processes : proc'[q] = proc[q] \/ proc'[q] = Resting
    BY <1>3 DEF FileInv, FileTypeOK
  <2> QED BY <1>1, <1>3, <2>1, <2>2 DEF FileInv, TmpWhole, Mine, Resting
<1>6. FilesWhole'
  BY <1>1, <1>2 DEF FileInv, FileTypeOK, FilesWhole
<1>7. AnsweredIsStored'
  BY <1>1, <1>2 DEF FileInv, FileTypeOK, AnsweredIsStored, NoFile
<1> QED BY <1>3, <1>4, <1>5, <1>6, <1>7 DEF FileInv, ReadsAreWhole

\* A put that fails or whose process dies leaves the files in place alone.
LEMMA GivingUpKeepsInv ==
    ASSUME FileInv, NEW p \in Processes, PutFails(p) \/ Dies(p)
    PROVE  FileInv'
<1>1. /\ tmp' \subseteq tmp /\ proc' = [proc EXCEPT ![p] = Resting]
      /\ UNCHANGED <<file, acked, got, puts>>
      /\ fileFaults < MaxFileFaults /\ fileFaults' = fileFaults + 1
  BY DEF PutFails, Dies, FileFault
<1>2. FileTypeOK'
  BY <1>1, FileAssumption DEF FileInv, FileTypeOK
<1>3. TmpWhole'
  <2>1. puts \in Nat
    BY DEF FileInv, FileTypeOK
  <2>2. \A q \in Processes : proc'[q] = proc[q] \/ proc'[q] = Resting
    BY <1>1 DEF FileInv, FileTypeOK
  <2> QED BY <1>1, <2>1, <2>2 DEF FileInv, TmpWhole, Mine, Resting
<1> QED BY <1>1, <1>2, <1>3 DEF FileInv, FilesWhole, ReadsAreWhole, AnsweredIsStored

\* A get returns a whole file, or says that there is none.
LEMMA ReadFileKeepsInv ==
    ASSUME FileInv, NEW p \in Processes, NEW i \in VaultIds, ReadFile(p, i)
    PROVE  FileInv'
<1>1. FileTypeOK'
  BY DEF FileInv, FileTypeOK, ReadFile
<1>2. TmpWhole' /\ FilesWhole' /\ AnsweredIsStored'
  BY DEF FileInv, ReadFile, TmpWhole, Mine, FilesWhole, AnsweredIsStored
<1>3. ReadsAreWhole'
  BY DEF FileInv, ReadFile, FilesWhole, ReadsAreWhole
<1> QED BY <1>1, <1>2, <1>3 DEF FileInv

\* What is deleted is no longer promised.
LEMMA RemoveFileKeepsInv ==
    ASSUME FileInv, NEW p \in Processes, NEW i \in VaultIds, RemoveFile(p, i)
    PROVE  FileInv'
<1>1. FileTypeOK'
  BY FileAssumption DEF FileInv, FileTypeOK, RemoveFile
<1>2. TmpWhole'
  BY DEF FileInv, RemoveFile, TmpWhole, Mine
<1>3. FilesWhole' /\ AnsweredIsStored'
  BY DEF FileInv, FileTypeOK, RemoveFile, FilesWhole, AnsweredIsStored, NoFile
<1>4. ReadsAreWhole'
  BY DEF FileInv, RemoveFile, ReadsAreWhole
<1> QED BY <1>1, <1>2, <1>3, <1>4 DEF FileInv

-----------------------------------------------------------------------------

\* The inductive invariant holds in every reachable state, for any number of processes,
\* puts, crashes and full disks.
THEOREM FileInvariant == FileSpec => []FileInv
<1>1. FileInit => FileInv
  BY InitFileInv
<1>2. ASSUME FileInv, [FileNext]_fileVars PROVE FileInv'
  <2>1. CASE FileNext
    BY <1>2, <2>1, OpenTmpKeepsInv, WriteTmpKeepsInv, RenameKeepsInv, GivingUpKeepsInv,
       ReadFileKeepsInv, RemoveFileKeepsInv DEF FileNext
  <2>2. CASE UNCHANGED fileVars
    BY <1>2, <2>2 DEF fileVars, FileInv, FileTypeOK, TmpWhole, Mine, FilesWhole, ReadsAreWhole,
       AnsweredIsStored
  <2> QED BY <1>2, <2>1, <2>2
<1> QED BY <1>1, <1>2, PTL DEF FileSpec

\* No get returns a torn vault (filesystem-adapter.ts, put).
THEOREM NoTornReads == FileSpec => []ReadsAreWhole
<1>1. FileInv => ReadsAreWhole
  BY DEF FileInv
<1> QED BY <1>1, FileInvariant, PTL

\* A vault whose put was answered ok is there until it is deleted.
THEOREM AnsweredVaultsStay == FileSpec => []AnsweredIsStored
<1>1. FileInv => AnsweredIsStored
  BY DEF FileInv
<1> QED BY <1>1, FileInvariant, PTL

-----------------------------------------------------------------------------
(* Vaults that are migrated.                                               *)

Run == [stage : {"off", "next", "check", "read", "write", "delete"},
        todo : SUBSET Vaults, now : SUBSET Vaults, options : Options]

\* The part of the type invariant that the argument needs.
Shape ==
    /\ blob \subseteq Vaults
    /\ upstash \in [Vaults -> Contents]
    /\ run \in Run
    /\ report.failed \subseteq Vaults
    /\ pushes \in Nat

\* A run works on one vault at a time, and deletes what it has written.
OneAtATime ==
    /\ \A v, w \in run.now : v = w
    /\ run.stage = "next" => run.now = {}
    /\ run.stage = "delete" => \A v \in run.now : upstash[v] # Missing

\* What a run that writes has neither written nor noted as failed is still before it.
Accounted ==
    run.stage # "off" /\ run.options.execute =>
        \A v \in Vaults :
            upstash[v] = Missing => v \in run.todo \cup run.now \cup report.failed

MigrationInv ==
    /\ Shape
    /\ OneAtATime
    /\ Accounted
    /\ NoVaultLost
    /\ CleanReportIsTrue

-----------------------------------------------------------------------------

\* At first every vault is in Blob.
LEMMA InitMigrationInv == ASSUME MigrationInit PROVE MigrationInv
<1>1. Shape
  BY DEF MigrationInit, Shape, Run, Idling, Options, NoReport, Contents
<1> QED BY <1>1 DEF MigrationInit, MigrationInv, OneAtATime, Accounted, NoVaultLost,
           CleanReportIsTrue, Idling

\* A run begins with all of Blob before it: what Upstash lacks is there.
LEMMA StartKeepsInv ==
    ASSUME MigrationInv, StartMigration
    PROVE  MigrationInv'
<1>1. PICK o \in Options :
        run' = [stage |-> "next", todo |-> blob, now |-> {},
                options |-> [execute |-> o.execute,
                             deleteBlob |-> o.deleteBlob /\ o.execute,
                             skipExisting |-> o.skipExisting /\ o.execute]]
  BY DEF StartMigration
<1>2. /\ UNCHANGED <<blob, upstash, finished, pushes>> /\ report' = NoReport
  BY DEF StartMigration
<1>3. run' \in Run
  BY <1>1 DEF MigrationInv, Shape, Run, Options
<1>4. Shape' /\ OneAtATime'
  BY <1>1, <1>2, <1>3 DEF MigrationInv, Shape, OneAtATime, NoReport
<1>5. Accounted'
  BY <1>1, <1>2 DEF MigrationInv, NoVaultLost, Accounted
<1> QED BY <1>2, <1>4, <1>5 DEF MigrationInv, NoVaultLost, CleanReportIsTrue

\* Going on to the next vault needs an account of this one.
LEMMA NextVaultKeepsInv ==
    ASSUME MigrationInv, NextVault, run.stage # "off",
           blob' \subseteq Vaults, upstash' \in [Vaults -> Contents], UNCHANGED <<pushes, finished>>,
           report'.failed \subseteq Vaults, report.failed \subseteq report'.failed,
           \A v \in Vaults : upstash[v] # Missing => upstash'[v] # Missing,
           \A v \in run.now : upstash'[v] # Missing \/ v \in report'.failed,
           \A v \in Vaults : v \in blob' \/ upstash'[v] # Missing
    PROVE  MigrationInv'
<1>1. /\ run'.stage = "next" /\ run'.now = {} /\ run'.todo = run.todo
      /\ run'.options = run.options /\ run' \in Run
  BY DEF NextVault, MigrationInv, Shape, Run
<1>2. Shape' /\ OneAtATime'
  BY <1>1 DEF MigrationInv, Shape, OneAtATime
<1>3. Accounted'
  BY <1>1 DEF MigrationInv, Accounted
<1> QED BY <1>2, <1>3 DEF MigrationInv, NoVaultLost, CleanReportIsTrue

\* The vault that is taken is the one worked on; a dry run takes them and does nothing.
LEMMA TakeVaultKeepsInv ==
    ASSUME MigrationInv, TakeVault
    PROVE  MigrationInv'
<1>1. PICK v \in run.todo :
        run' = [run EXCEPT !.todo = @ \ {v},
                           !.now = IF run.options.execute THEN {v} ELSE {},
                           !.stage = CASE ~run.options.execute -> "next"
                                       [] run.options.skipExisting -> "check"
                                       [] OTHER -> "read"]
  BY DEF TakeVault
<1>2. UNCHANGED <<blob, upstash, report, finished, pushes>>
  BY DEF TakeVault
<1>3. /\ run'.todo = run.todo \ {v} /\ run'.options = run.options
      /\ run'.now = IF run.options.execute THEN {v} ELSE {}
      /\ run'.stage \in {"next", "check", "read"}
      /\ run'.stage = "next" => ~run.options.execute
      /\ run' \in Run
  BY <1>1 DEF MigrationInv, Shape, Run, Options
<1>4. Shape' /\ OneAtATime'
  BY <1>2, <1>3 DEF MigrationInv, Shape, OneAtATime
<1>5. run.stage = "next" /\ run.now = {}
  BY DEF TakeVault, MigrationInv, OneAtATime
<1>6. Accounted'
  BY <1>2, <1>3, <1>5 DEF MigrationInv, Accounted
<1> QED BY <1>2, <1>4, <1>6 DEF MigrationInv, NoVaultLost, CleanReportIsTrue

\* A vault that Upstash has may be left alone.
LEMMA CheckExistingKeepsInv ==
    ASSUME MigrationInv, CheckExisting
    PROVE  MigrationInv'
<1>1. UNCHANGED <<blob, upstash, report, finished, pushes>> /\ run.stage = "check"
  BY DEF CheckExisting
<1>2. PICK v \in run.now :
        IF upstash[v] # Missing THEN NextVault ELSE run' = [run EXCEPT !.stage = "read"]
  BY DEF CheckExisting
<1>3. CASE upstash[v] # Missing
  <2>1. \A w \in run.now : upstash[w] # Missing
    BY <1>3 DEF MigrationInv, OneAtATime
  <2> QED BY <1>1, <1>2, <1>3, <2>1, NextVaultKeepsInv DEF MigrationInv, Shape, NoVaultLost
<1>4. CASE upstash[v] = Missing
  <2>1. /\ run'.stage = "read" /\ run'.now = run.now /\ run'.todo = run.todo
        /\ run'.options = run.options /\ run' \in Run
    BY <1>2, <1>4 DEF MigrationInv, Shape, Run
  <2> QED BY <1>1, <2>1 DEF MigrationInv, Shape, OneAtATime, Accounted, NoVaultLost,
             CleanReportIsTrue
<1> QED BY <1>3, <1>4

\* A vault that cannot be read is noted as failed.
LEMMA ReadBlobKeepsInv ==
    ASSUME MigrationInv, ReadBlob
    PROVE  MigrationInv'
<1>1. UNCHANGED <<blob, upstash, finished, pushes>> /\ run.stage = "read"
  BY DEF ReadBlob
<1>2. CASE run' = [run EXCEPT !.stage = "write"] /\ UNCHANGED report
  <2>1. /\ run'.stage = "write" /\ run'.now = run.now /\ run'.todo = run.todo
        /\ run'.options = run.options /\ run' \in Run
    BY <1>2 DEF MigrationInv, Shape, Run
  <2> QED BY <1>1, <1>2, <2>1 DEF MigrationInv, Shape, OneAtATime, Accounted, NoVaultLost,
             CleanReportIsTrue
<1>3. CASE NextVault /\ report' = [report EXCEPT !.failed = @ \cup run.now]
  <2>1. /\ report'.failed \subseteq Vaults /\ report.failed \subseteq report'.failed
        /\ \A v \in run.now : v \in report'.failed
    BY <1>3 DEF MigrationInv, Shape, Run
  <2> QED BY <1>1, <1>3, <2>1, NextVaultKeepsInv DEF MigrationInv, Shape, NoVaultLost
<1> QED BY <1>2, <1>3 DEF ReadBlob

\* A vault is written, or noted as failed and then not deleted.
LEMMA WriteUpstashKeepsInv ==
    ASSUME MigrationInv, WriteUpstash
    PROVE  MigrationInv'
<1>1. UNCHANGED <<blob, finished, pushes>> /\ run.stage = "write"
  BY DEF WriteUpstash
<1>2. CASE /\ upstash' = [v \in Vaults |-> IF v \in run.now THEN Old ELSE upstash[v]]
           /\ report' = [report EXCEPT !.migrated = @ \cup run.now]
           /\ IF run.options.deleteBlob THEN run' = [run EXCEPT !.stage = "delete"]
                                        ELSE NextVault
  <2>1. /\ upstash' \in [Vaults -> Contents]
        /\ \A v \in Vaults : upstash[v] # Missing => upstash'[v] # Missing
        /\ \A v \in run.now : upstash'[v] # Missing
    <3>1. Old \in Contents /\ Old # Missing
      BY MigrationAssumption DEF Contents, Old, Missing
    <3>2. run.now \subseteq Vaults
      BY DEF MigrationInv, Shape, Run
    <3> QED BY <1>2, <3>1, <3>2 DEF MigrationInv, Shape
  <2>2. report'.failed = report.failed
    BY <1>2 DEF MigrationInv
  <2>3. CASE NextVault
    BY <1>1, <2>1, <2>2, <2>3, NextVaultKeepsInv DEF MigrationInv, Shape, NoVaultLost
  <2>4. CASE run' = [run EXCEPT !.stage = "delete"]
    <3>1. /\ run'.stage = "delete" /\ run'.now = run.now /\ run'.todo = run.todo
          /\ run'.options = run.options /\ run' \in Run
      BY <2>4 DEF MigrationInv, Shape, Run
    <3> QED BY <1>1, <2>1, <2>2, <3>1 DEF MigrationInv, Shape, OneAtATime, Accounted, NoVaultLost,
               CleanReportIsTrue
  <2> QED BY <1>2, <2>3, <2>4
<1>3. CASE /\ report' = [report EXCEPT !.failed = @ \cup run.now]
           /\ NextVault /\ UNCHANGED upstash
  <2>1. /\ report'.failed \subseteq Vaults /\ report.failed \subseteq report'.failed
        /\ \A v \in run.now : v \in report'.failed
    BY <1>3 DEF MigrationInv, Shape, Run
  <2> QED BY <1>1, <1>3, <2>1, NextVaultKeepsInv DEF MigrationInv, Shape, NoVaultLost
<1> QED BY <1>2, <1>3 DEF WriteUpstash

\* What is deleted has been written.
LEMMA DeleteBlobKeepsInv ==
    ASSUME MigrationInv, DeleteBlob
    PROVE  MigrationInv'
<1>1. /\ UNCHANGED <<upstash, report, finished, pushes>> /\ NextVault /\ run.stage = "delete"
      /\ blob' \subseteq blob /\ blob \subseteq blob' \cup run.now
  BY DEF DeleteBlob
<1>2. \A v \in run.now : upstash[v] # Missing
  BY <1>1 DEF MigrationInv, OneAtATime
<1> QED BY <1>1, <1>2, NextVaultKeepsInv DEF MigrationInv, Shape, NoVaultLost

\* A run that ends has an account of every vault.
LEMMA EndMigrationKeepsInv ==
    ASSUME MigrationInv, EndMigration
    PROVE  MigrationInv'
<1>1. /\ UNCHANGED <<blob, upstash, report, pushes>> /\ run' = Idling
      /\ run.stage = "next" /\ run.todo = {} /\ run.now = {}
  BY DEF EndMigration, MigrationInv, OneAtATime
<1>2. Shape' /\ OneAtATime' /\ Accounted' /\ NoVaultLost'
  BY <1>1 DEF MigrationInv, Shape, Run, Options, Idling, OneAtATime, Accounted, NoVaultLost
<1>3. CleanReportIsTrue'
  <2>1. CASE finished' = finished
    BY <2>1 DEF MigrationInv, CleanReportIsTrue
  <2>2. CASE run.options.execute
    <3>1. {v \in Vaults : upstash[v] = Missing} \subseteq report.failed
      BY <1>1, <2>2 DEF MigrationInv, Accounted
    <3> QED BY <2>2, <3>1 DEF EndMigration, MigrationInv, CleanReportIsTrue
  <2> QED BY <2>1, <2>2 DEF EndMigration
<1> QED BY <1>2, <1>3 DEF MigrationInv

\* A run that is aborted has deleted nothing it had not written.
LEMMA AbortMigrationKeepsInv ==
    ASSUME MigrationInv, AbortMigration
    PROVE  MigrationInv'
<1>1. UNCHANGED <<blob, upstash, report, finished, pushes>> /\ run' = Idling
  BY DEF AbortMigration
<1> QED BY <1>1 DEF MigrationInv, Shape, Run, Options, Idling, OneAtATime, Accounted, NoVaultLost,
           CleanReportIsTrue

\* A push puts something where the run may have found nothing.
LEMMA ClientPushesKeepsInv ==
    ASSUME MigrationInv, NEW v \in Vaults, ClientPushes(v)
    PROVE  MigrationInv'
<1>1. /\ UNCHANGED <<blob, run, report, finished>> /\ pushes' = pushes + 1
      /\ pushes < MaxPushes /\ upstash' = [upstash EXCEPT ![v] = pushes + 1]
  BY DEF ClientPushes
<1>2. pushes + 1 \in Contents /\ pushes + 1 # Missing /\ pushes' \in Nat
  BY <1>1, MigrationAssumption DEF MigrationInv, Shape, Contents, Old, Missing
<1>3. /\ upstash' \in [Vaults -> Contents]
      /\ \A w \in Vaults : upstash[w] # Missing => upstash'[w] # Missing
  BY <1>1, <1>2 DEF MigrationInv, Shape
<1>4. OneAtATime'
  BY <1>1, <1>3 DEF MigrationInv, Shape, Run, OneAtATime
<1> QED BY <1>1, <1>2, <1>3, <1>4 DEF MigrationInv, Shape, Accounted, NoVaultLost,
           CleanReportIsTrue

-----------------------------------------------------------------------------

\* The inductive invariant holds in every reachable state, wherever runs fail, are
\* aborted and are started again, and whatever clients push meanwhile.
THEOREM MigrationInvariant == MigrationSpec => []MigrationInv
<1>1. MigrationInit => MigrationInv
  BY InitMigrationInv
<1>2. ASSUME MigrationInv, [MigrationNext]_migrationVars PROVE MigrationInv'
  <2>1. CASE MigrationNext
    BY <1>2, <2>1, StartKeepsInv, TakeVaultKeepsInv, CheckExistingKeepsInv, ReadBlobKeepsInv,
       WriteUpstashKeepsInv, DeleteBlobKeepsInv, EndMigrationKeepsInv, AbortMigrationKeepsInv,
       ClientPushesKeepsInv DEF MigrationNext
  <2>2. CASE UNCHANGED migrationVars
    BY <1>2, <2>2 DEF migrationVars, MigrationInv, Shape, OneAtATime, Accounted, NoVaultLost,
       CleanReportIsTrue
  <2> QED BY <1>2, <2>1, <2>2
<1> QED BY <1>1, <1>2, PTL DEF MigrationSpec

\* No migration loses a vault (blob-to-upstash.ts deletes after the write succeeded).
THEOREM MigrationLosesNothing == MigrationSpec => []NoVaultLost
<1>1. MigrationInv => NoVaultLost
  BY DEF MigrationInv
<1> QED BY <1>1, MigrationInvariant, PTL

\* A report without failures is true.
THEOREM CleanReportsAreTrue == MigrationSpec => []CleanReportIsTrue
<1>1. MigrationInv => CleanReportIsTrue
  BY DEF MigrationInv
<1> QED BY <1>1, MigrationInvariant, PTL

-----------------------------------------------------------------------------
(* What a run says of a vault.                                             *)

\* A vault is reported once: what a run has still to do, and what it works on until it has
\* written it, is in neither list of its report.
ReportedOnce ==
    /\ report.migrated \cap report.failed = {}
    /\ run.stage # "off" => run.todo \cap (report.migrated \cup report.failed \cup run.now) = {}
    /\ run.stage \in {"check", "read", "write"} =>
          run.now \cap (report.migrated \cup report.failed) = {}

\* The reports and the counters are in range.
Records ==
    /\ report \in [migrated : SUBSET Vaults, failed : SUBSET Vaults]
    /\ pushed \in [Vaults -> 0..MaxPushes]
    /\ finished \subseteq [migrated : SUBSET Vaults, failed : SUBSET Vaults, left : SUBSET Vaults]
    /\ runs \in 0..MaxRuns /\ pushes \in 0..MaxPushes /\ storageFaults \in 0..MaxStorageFaults

ReportInv == MigrationInv /\ ReportedOnce /\ Records

\* A run puts a vault in a list of its report once, and stays within the bounds.
LEMMA StepKeepsReport ==
    ASSUME ReportInv, MigrationNext
    PROVE  ReportedOnce' /\ Records'
<1>0. /\ run \in Run /\ (run.stage = "next" => run.now = {})
      /\ MaxRuns \in Nat /\ MaxPushes \in Nat /\ MaxStorageFaults \in Nat
  BY MigrationAssumption DEF ReportInv, MigrationInv, Shape, OneAtATime
<1>f. Fault => storageFaults' \in 0..MaxStorageFaults
  BY <1>0 DEF ReportInv, Records, Fault
<1>1. CASE StartMigration
  <2>1. ReportedOnce'
    BY <1>1 DEF StartMigration, ReportedOnce, NoReport
  <2>2. Records'
    BY <1>0, <1>1 DEF StartMigration, ReportInv, Records, NoReport
  <2> QED BY <2>1, <2>2
<1>2. CASE TakeVault
  <2>1. PICK v \in run.todo :
          run' = [run EXCEPT !.todo = @ \ {v},
                             !.now = IF run.options.execute THEN {v} ELSE {},
                             !.stage = CASE ~run.options.execute -> "next"
                                         [] run.options.skipExisting -> "check"
                                         [] OTHER -> "read"]
    BY <1>2 DEF TakeVault
  <2>2. run'.todo = run.todo \ {v} /\ run'.now \subseteq {v} /\ run.stage = "next"
    BY <1>0, <1>2, <2>1 DEF TakeVault, Run
  <2>3. ReportedOnce'
    BY <1>2, <2>2 DEF TakeVault, ReportInv, ReportedOnce
  <2>4. Records'
    BY <1>2 DEF TakeVault, ReportInv, Records
  <2> QED BY <2>3, <2>4
<1>3. CASE CheckExisting
  <2>1. NextVault \/ run' = [run EXCEPT !.stage = "read"]
    BY <1>3 DEF CheckExisting
  <2>2. /\ run'.todo = run.todo
        /\ \/ run'.stage = "next" /\ run'.now = {}
           \/ run'.stage = "read" /\ run'.now = run.now
    BY <1>0, <2>1 DEF NextVault, Run
  <2>3. ReportedOnce'
    BY <1>0, <1>3, <2>1, <2>2 DEF CheckExisting, ReportInv, ReportedOnce
  <2>4. Records'
    BY <1>3 DEF CheckExisting, ReportInv, Records
  <2> QED BY <2>3, <2>4
<1>4. CASE ReadBlob
  <2>1. CASE run' = [run EXCEPT !.stage = "write"] /\ UNCHANGED <<report, storageFaults>>
    <3>1. run'.todo = run.todo /\ run'.now = run.now
      BY <1>0, <2>1 DEF Run
    <3>2. ReportedOnce'
      BY <1>4, <2>1, <3>1 DEF ReadBlob, ReportInv, ReportedOnce
    <3>3. Records'
      BY <1>4, <2>1 DEF ReadBlob, ReportInv, Records
    <3> QED BY <3>2, <3>3
  <2>2. CASE Fault /\ report' = [report EXCEPT !.failed = @ \cup run.now] /\ NextVault
    <3>1. run'.todo = run.todo /\ run'.now = {} /\ run'.stage = "next"
      BY <1>0, <2>2 DEF NextVault, Run
    <3>2. /\ report'.migrated = report.migrated /\ report'.failed = report.failed \cup run.now
          /\ report' \in [migrated : SUBSET Vaults, failed : SUBSET Vaults]
      BY <1>0, <2>2 DEF ReportInv, Records, Run
    <3>3. ReportedOnce'
      BY <1>4, <3>1, <3>2 DEF ReadBlob, ReportInv, ReportedOnce
    <3>4. Records'
      BY <1>4, <1>f, <2>2, <3>2 DEF ReadBlob, ReportInv, Records
    <3> QED BY <3>3, <3>4
  <2> QED BY <1>4, <2>1, <2>2 DEF ReadBlob
<1>5. CASE WriteUpstash
  <2>1. CASE /\ report' = [report EXCEPT !.migrated = @ \cup run.now]
             /\ IF run.options.deleteBlob THEN run' = [run EXCEPT !.stage = "delete"]
                                          ELSE NextVault
             /\ UNCHANGED storageFaults
    <3>1. /\ run'.todo = run.todo
          /\ \/ run'.stage = "next" /\ run'.now = {}
             \/ run'.stage = "delete" /\ run'.now = run.now
      BY <1>0, <2>1 DEF NextVault, Run
    <3>2. /\ report'.failed = report.failed /\ report'.migrated = report.migrated \cup run.now
          /\ report' \in [migrated : SUBSET Vaults, failed : SUBSET Vaults]
      BY <1>0, <2>1 DEF ReportInv, Records, Run
    <3>3. ReportedOnce'
      BY <1>5, <3>1, <3>2 DEF WriteUpstash, ReportInv, ReportedOnce
    <3>4. Records'
      BY <1>5, <2>1, <3>2 DEF WriteUpstash, ReportInv, Records
    <3> QED BY <3>3, <3>4
  <2>2. CASE Fault /\ report' = [report EXCEPT !.failed = @ \cup run.now] /\ NextVault
    <3>1. run'.todo = run.todo /\ run'.now = {} /\ run'.stage = "next"
      BY <1>0, <2>2 DEF NextVault, Run
    <3>2. /\ report'.migrated = report.migrated /\ report'.failed = report.failed \cup run.now
          /\ report' \in [migrated : SUBSET Vaults, failed : SUBSET Vaults]
      BY <1>0, <2>2 DEF ReportInv, Records, Run
    <3>3. ReportedOnce'
      BY <1>5, <3>1, <3>2 DEF WriteUpstash, ReportInv, ReportedOnce
    <3>4. Records'
      BY <1>5, <1>f, <2>2, <3>2 DEF WriteUpstash, ReportInv, Records
    <3> QED BY <3>3, <3>4
  <2> QED BY <1>5, <2>1, <2>2 DEF WriteUpstash
<1>6. CASE DeleteBlob
  <2>1. run'.todo = run.todo /\ run'.now = {} /\ run'.stage = "next"
    BY <1>0, <1>6 DEF DeleteBlob, NextVault, Run
  <2>2. ReportedOnce'
    BY <1>6, <2>1 DEF DeleteBlob, ReportInv, ReportedOnce
  <2>3. Records'
    BY <1>6, <1>f DEF DeleteBlob, ReportInv, Records
  <2> QED BY <2>2, <2>3
<1>7. CASE EndMigration
  <2>1. ReportedOnce'
    BY <1>7 DEF EndMigration, ReportInv, ReportedOnce, Idling
  <2>2. [migrated |-> report.migrated, failed |-> report.failed,
         left |-> {v \in Vaults : upstash[v] = Missing}]
           \in [migrated : SUBSET Vaults, failed : SUBSET Vaults, left : SUBSET Vaults]
    BY DEF ReportInv, Records
  <2>3. Records'
    BY <1>7, <2>2 DEF EndMigration, ReportInv, Records
  <2> QED BY <2>1, <2>3
<1>8. CASE AbortMigration
  <2>1. ReportedOnce'
    BY <1>8 DEF AbortMigration, ReportInv, ReportedOnce, Idling
  <2>2. Records'
    BY <1>8, <1>f DEF AbortMigration, ReportInv, Records
  <2> QED BY <2>1, <2>2
<1>9. CASE \E v \in Vaults : ClientPushes(v)
  <2>1. PICK v \in Vaults : ClientPushes(v)
    BY <1>9
  <2>2. pushes + 1 \in 0..MaxPushes
    BY <1>0, <2>1 DEF ClientPushes, ReportInv, Records
  <2>3. ReportedOnce'
    BY <2>1 DEF ClientPushes, ReportInv, ReportedOnce
  <2>4. Records'
    BY <2>1, <2>2 DEF ClientPushes, ReportInv, Records
  <2> QED BY <2>3, <2>4
<1> QED BY <1>1, <1>2, <1>3, <1>4, <1>5, <1>6, <1>7, <1>8, <1>9 DEF MigrationNext

\* A run that works on one vault at a time holds a set of at most one.
LEMMA TypeFromReport == ASSUME ReportInv PROVE MigrationTypeOK
<1>1. Cardinality(run.now) \in {0, 1}
  <2>1. CASE run.now = {}
    BY <2>1, FS_EmptySet
  <2>2. CASE run.now # {}
    <3>1. PICK v \in run.now : run.now = {v}
      BY <2>2 DEF ReportInv, MigrationInv, OneAtATime
    <3> QED BY <3>1, FS_Singleton
  <2> QED BY <2>1, <2>2
<1> QED BY <1>1 DEF ReportInv, MigrationInv, Shape, Run, ReportedOnce, Records, MigrationTypeOK

\* The migration keeps its variables in range: it works on one vault at a time, and
\* no report has a vault both as migrated and as failed (blob-to-upstash.ts).
THEOREM MigrationTypeCorrect == MigrationSpec => []MigrationTypeOK
<1>1. ASSUME MigrationInit PROVE ReportedOnce /\ Records
  BY <1>1, MigrationAssumption DEF MigrationInit, ReportedOnce, Records, NoReport, Idling
<1>2. ASSUME ReportInv, [MigrationNext]_migrationVars PROVE ReportedOnce' /\ Records'
  <2>1. CASE UNCHANGED migrationVars
    BY <1>2, <2>1 DEF migrationVars, ReportInv, ReportedOnce, Records
  <2> QED BY <1>2, <2>1, StepKeepsReport
<1>3. MigrationInv /\ ReportedOnce /\ Records <=> ReportInv
  BY DEF ReportInv
<1> QED BY <1>1, <1>2, <1>3, TypeFromReport, MigrationInvariant, PTL DEF MigrationSpec

-----------------------------------------------------------------------------
(* The parts of the server together.                                       *)

\* Each part of the server runs as it does alone: no step of one touches another's variables.
LEMMA PartsRunAlone ==
    Spec => LicenceSpec /\ ProxySpec /\ MigrationSpec /\ FileSpec /\ PacingSpec
<1>1. Init => LicenceInit /\ ProxyInit /\ MigrationInit /\ FileInit /\ PacingInit
  BY DEF Init
<1>2. [Next]_serverVars => [LicenceNext]_licenceVars
  BY DEF Next, serverVars
<1>3. [Next]_serverVars => [ProxyNext]_proxyVars
  BY DEF Next, serverVars
<1>4. [Next]_serverVars => [MigrationNext]_migrationVars
  BY DEF Next, serverVars
<1>5. [Next]_serverVars => [FileNext]_fileVars
  BY DEF Next, serverVars
<1>6. [Next]_serverVars => [PacingNext]_pacingVars
  BY DEF Next, serverVars
<1> QED BY <1>1, <1>2, <1>3, <1>4, <1>5, <1>6, PTL
    DEF Spec, LicenceSpec, ProxySpec, MigrationSpec, FileSpec, PacingSpec

\* Every part of the server keeps its variables in range, whatever fails (webhook-handler.ts,
\* rate-limiter.ts, blob-to-upstash.ts, filesystem-adapter.ts, host-pause.ts).
THEOREM ServerTypeCorrect == Spec => []ServerTypeOK
<1>1. LicenceTypeOK /\ ProxyInv /\ MigrationTypeOK /\ FileInv /\ PacingInv => ServerTypeOK
  BY DEF ServerTypeOK, ProxyInv, FileInv, PacingInv
<1> QED BY <1>1, PartsRunAlone, LicenceTypeCorrect, ProxyInvariant, MigrationTypeCorrect,
           FileInvariant, PacingInvariant, PTL
=============================================================================
