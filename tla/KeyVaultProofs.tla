---------------------------- MODULE KeyVaultProofs ----------------------------
(***************************************************************************)
(* Proofs about KeyVault, for every set of passphrases and every bound.     *)
(***************************************************************************)
EXTENDS KeyVault, TLAPS

\* The stages that each flow goes through, what it knows, and where the boot is when it
\* begins.
FlowShape ==
    /\ flow.op = "none" => flow = NoFlow
    /\ flow.op \in {"init", "init-sync", "recover"} /\ flow.stage \in {"cleanup", "delete", "open", "store"}
       => boot \in {"needs-onboarding", "reset"}
    /\ flow.op \in {"replace", "merge", "enable"} => boot \in {"ready", "needs-recovery"}
    /\ flow.op = "wipe" => flow.stage \in {"cleanup", "delete"}
    /\ flow.op \in {"init", "init-sync"}
       => flow.stage \in {"cleanup", "delete", "open", "store", "enable", "push", "finish"}
    /\ flow.op = "recover"
       => flow.stage \in {"delete", "open", "store", "import", "upgrade", "rekey", "finish"}
    /\ flow.op \in {"replace", "merge"}
       => flow.stage \in {"delete", "open", "import", "persist", "push", "upgrade", "rekey", "finish"}
    /\ flow.stage = "push" => flow.op # "replace"
    /\ flow.op = "enable" => flow.stage \in {"enable", "push", "finish"}
    /\ flow.op \in {"recover", "replace", "merge"} => flow.kdf \in {"pbkdf2", "argon2id"}
    /\ flow.op \in {"init", "init-sync", "enable"} => flow.kdf = "none"
    /\ flow.op \notin {"none", "wipe"} => flow.pass # {}
    /\ boot \in {"closed", "hydrating"} => flow = NoFlow
    /\ boot = "closed" => mem = {}

\* The stored key is the key of the data and of the open database.
DbKeys == {s.db : s \in stored}

Coupled == disk.keys \subseteq DbKeys /\ mem \subseteq DbKeys

\* A flow that has deleted the database decouples key and data until it has stored the
\* new key; meanwhile all there is in the new database is encrypted with the key at hand.
KeysFollowData ==
    /\ flow.stage = "open" => disk.keys = {} /\ mem = {}
    /\ flow.stage = "store" => disk.keys = {}
    /\ Tears => disk.keys \subseteq mem
    /\ flow.op = "merge" /\ flow.stage \in {"import", "persist", "push"} => mem # {}
    /\ ~torn /\ ~Tears /\ flow.stage # "store" => Coupled

\* A stored key of a vault is the stronger one, and the server's vault is not under the
\* weaker one.
Strong(v) == v.kdf = "argon2id" /\ cloud[v.pass].kdf # "pbkdf2"

\* The flow has stored the vault key that it came with and has not yet upgraded it.
NotYetUpgraded ==
    \/ flow.op \in {"recover", "replace", "merge"} /\ flow.stage \in {"push", "upgrade", "rekey"}
    \/ flow.op = "recover" /\ flow.stage = "import"

\* When nothing goes wrong, every flow ends with the stronger key stored and at hand.
VaultKeysAreStrong ==
    /\ \A v \in creds : v.kdf = "argon2id"
    /\ flow.op \notin {"none", "wipe"} /\ (flow.kdf # "pbkdf2" \/ flow.stage = "rekey")
       => cloud[ThePass].kdf # "pbkdf2"
    /\ flow.op \in {"recover", "replace", "merge"} /\ flow.stage = "finish"
       => flow.kdf = "argon2id"
    /\ \A s \in stored : \A v \in s.vault : IF NotYetUpgraded THEN v = TheKey ELSE Strong(v)

\* The onboarding shows when it has not been completed or no keys are stored.
OnboardingHasReason ==
    boot \in {"needs-onboarding", "reset"}
    /\ flow.stage \in {"none", "cleanup", "delete", "open", "store"}
    => ~onboarded \/ stored = {}

KeyInv ==
    /\ KeyTypeOK
    /\ FlowShape
    /\ KeysFollowData
    /\ keyMishaps = 0 => VaultKeysAreStrong
    /\ OnboardingHasReason

-----------------------------------------------------------------------------
(* The passphrase of a flow, and the types.                                *)

\* A flow that has a passphrase has one, and it is the one the flow works with.
LEMMA FlowHasOnePass ==
    ASSUME KeyTypeOK, flow.pass # {}
    PROVE  ThePass \in Passphrases /\ flow.pass = {ThePass}
<1>1. PICK p \in Passphrases : flow.pass = {p}
  BY DEF KeyTypeOK, Opt
<1>2. ThePass = p
  BY <1>1 DEF ThePass
<1> QED
  BY <1>1, <1>2

\* What a flow that knows a vault's KDF stores is a vault key.
LEMMA FlowKeyIsKey ==
    ASSUME KeyTypeOK, FlowShape, flow.op \in {"recover", "replace", "merge"}
    PROVE  TheKey \in VaultKey
<1>1. ThePass \in Passphrases
  BY FlowHasOnePass DEF FlowShape
<1>2. flow.kdf \in {"pbkdf2", "argon2id"}
  BY DEF FlowShape
<1> QED
  BY <1>1, <1>2 DEF TheKey, VaultKey

\* A vault that is there is under one of the two KDFs.
LEMMA VaultHasKdf ==
    ASSUME KeyTypeOK, NEW p \in Passphrases
    PROVE  /\ cloud[p].kdf \in {"none", "pbkdf2", "argon2id"}
           /\ cloud[p].has \in Has
           /\ cloud[p] = NoVault \/ cloud[p].kdf \in {"pbkdf2", "argon2id"}
  BY DEF KeyTypeOK, NoVault, Has

\* A flow begins with the passphrase it is given and what the server says of its vault.
LEMMA BeginGivesFlow ==
    ASSUME KeyTypeOK, NEW p \in Passphrases,
           NEW op \in {"init", "init-sync", "recover", "replace", "merge", "enable"},
           NEW stage \in {"cleanup", "delete", "enable"},
           Begin(op, stage, p)
    PROVE  /\ flow' \in [op : {op}, stage : {stage}, pass : {{p}},
                          kdf : {"none", "pbkdf2", "argon2id"}, has : Has]
           /\ flow'.op = op /\ flow'.stage = stage /\ flow'.pass = {p}
           /\ flow'.kdf = cloud[p].kdf /\ flow'.has = cloud[p].has
  BY VaultHasKdf DEF Begin

\* The new browser is typed, with no flow, no keys and no data.
LEMMA InitKeyInv ==
    KeyInit => KeyInv
<1> SUFFICES ASSUME KeyInit PROVE KeyInv
  OBVIOUS
<1>1. KeyTypeOK
  <2>1. cloud \in [Passphrases -> {NoVault} \cup [kdf : {"pbkdf2", "argon2id"}, has : Has]]
    <3>1. PICK p \in Passphrases, kdf \in {"pbkdf2", "argon2id"} :
             cloud = [q \in Passphrases |-> IF q = p THEN [kdf |-> kdf, has |-> {"library"}]
                                                     ELSE NoVault]
      BY DEF KeyInit
    <3>2. [kdf |-> kdf, has |-> {"library"}] \in [kdf : {"pbkdf2", "argon2id"}, has : Has]
      BY DEF Has
    <3> HIDE DEF NoVault
    <3> QED
      BY <3>1, <3>2
  <2>2. 0 \in 0..MaxOpens /\ 0 \in 0..MaxKeyMishaps
    BY KeyAssumption
  <2>3. NoDisk \in [salt : 0..MaxOpens, keys : SUBSET Key, has : Has]
    BY <2>2 DEF NoDisk, Has
  <2>4. flow \in [op : {"none"}, stage : {"none"}, pass : {{}}, kdf : {"none"}, has : Has]
    BY DEF KeyInit, NoFlow, Has
  <2> QED
    BY <2>1, <2>2, <2>3, <2>4 DEF KeyInit, KeyTypeOK, Opt
<1>2. FlowShape /\ KeysFollowData /\ OnboardingHasReason
  BY DEF KeyInit, FlowShape, KeysFollowData, OnboardingHasReason, Coupled, Tears, NoFlow, NoDisk
<1>3. VaultKeysAreStrong
  BY DEF KeyInit, VaultKeysAreStrong, NoFlow
<1> QED
  BY <1>1, <1>2, <1>3 DEF KeyInv

-----------------------------------------------------------------------------
(* Types and the shape of the flows.                                       *)

\* What stands in localStorage when the vault key beside the database key is replaced.
LEMMA VaultKeyReplaced ==
    ASSUME KeyTypeOK, NEW V \in Opt(VaultKey)
    PROVE  {[s EXCEPT !.vault = V] : s \in stored} \in Opt([db : Key, vault : Opt(VaultKey)])
<1> DEFINE S == [db : Key, vault : Opt(VaultKey)]
<1>1. \A s \in S : [s EXCEPT !.vault = V] \in S
  OBVIOUS
<1>2. CASE stored = {}
  <2>1. {[s EXCEPT !.vault = V] : s \in stored} = {}
    BY <1>2
  <2> QED
    BY <2>1 DEF Opt
<1>3. CASE stored # {}
  <2>1. PICK s0 \in S : stored = {s0}
    BY <1>3 DEF KeyTypeOK, Opt
  <2>2. {[s EXCEPT !.vault = V] : s \in stored} = {[s0 EXCEPT !.vault = V]}
    BY <2>1
  <2> QED
    BY <1>1, <2>2 DEF Opt
<1> QED
  BY <1>2, <1>3

\* What stands in localStorage when the open database's key is stored with a vault key.
LEMMA OpenKeyStored ==
    ASSUME KeyTypeOK, NEW V \in Opt(VaultKey)
    PROVE  {[db |-> k, vault |-> V] : k \in mem} \in Opt([db : Key, vault : Opt(VaultKey)])
<1> DEFINE S == [db : Key, vault : Opt(VaultKey)]
<1>1. \A k \in Key : [db |-> k, vault |-> V] \in S
  OBVIOUS
<1>2. CASE mem = {}
  <2>1. {[db |-> k, vault |-> V] : k \in mem} = {}
    BY <1>2
  <2> QED
    BY <2>1 DEF Opt
<1>3. CASE mem # {}
  <2>1. PICK k0 \in Key : mem = {k0}
    BY <1>3 DEF KeyTypeOK, Opt
  <2>2. {[db |-> k, vault |-> V] : k \in mem} = {[db |-> k0, vault |-> V]}
    BY <2>1
  <2> QED
    BY <1>1, <2>2 DEF Opt
<1> QED
  BY <1>2, <1>3

\* To go to a stage changes nothing else of the flow.
LEMMA GotoKeepsRest ==
    ASSUME KeyTypeOK,
           NEW stage \in {"none", "cleanup", "delete", "open", "store", "import", "persist",
                          "enable", "push", "upgrade", "rekey", "finish"},
           Goto(stage)
    PROVE  /\ flow' \in [op : {flow.op}, stage : {stage}, pass : {flow.pass}, kdf : {flow.kdf},
                          has : {flow.has}]
           /\ flow'.op = flow.op /\ flow'.stage = stage /\ flow'.pass = flow.pass
           /\ flow'.kdf = flow.kdf /\ flow'.has = flow.has
           /\ flow.op \in {"none", "init", "init-sync", "recover", "replace", "merge", "enable",
                           "wipe"}
           /\ flow.pass \in Opt(Passphrases) /\ flow.has \in Has
           /\ flow.kdf \in {"none", "pbkdf2", "argon2id"}
  BY DEF KeyTypeOK, Goto

\* A step of the flow at hand keeps the types.
LEMMA FlowStepTyped ==
    ASSUME KeyTypeOK, FlowShape, FlowStep
    PROVE  KeyTypeOK'
<1> USE KeyAssumption
<1>1. CASE Cleanup
  BY <1>1 DEF KeyTypeOK, Cleanup, FlowAt, Mishap, Goto, NoVault
<1>2. CASE DeleteDatabase
  <2>1. disk' \in [salt : 0..MaxOpens, keys : SUBSET Key, has : Has]
    BY <1>2 DEF DeleteDatabase, NoDisk, Has
  <2>2. stored' \in Opt([db : Key, vault : Opt(VaultKey)]) /\ mem' \in Opt(Key)
        /\ creds' \in Opt(VaultKey)
    BY <1>2 DEF DeleteDatabase, KeyTypeOK, Opt
  <2>3. flow' \in [op : {"none", "init", "init-sync", "recover", "replace", "merge", "enable",
                         "wipe"},
                   stage : {"none", "cleanup", "delete", "open", "store", "import", "persist",
                            "enable", "push", "upgrade", "rekey", "finish"},
                   pass : Opt(Passphrases), kdf : {"none", "pbkdf2", "argon2id"}, has : Has]
    BY <1>2, GotoKeepsRest DEF DeleteDatabase, NoFlow, Opt, Has
  <2> QED
    BY <1>2, <2>1, <2>2, <2>3 DEF DeleteDatabase, KeyTypeOK
<1>3. CASE OpenFresh
  BY <1>3, FlowHasOnePass DEF KeyTypeOK, FlowShape, OpenFresh, FlowAt, Goto, Opt, Has, Key, NoDisk,
       NoFlow
<1>4. CASE StoreKeys
  <2> DEFINE kdf   == IF flow.op = "recover" THEN flow.kdf ELSE "argon2id"
             vault == IF flow.op = "init" THEN {} ELSE {[pass |-> ThePass, kdf |-> kdf]}
  <2>0. flow.op \in {"init", "init-sync", "recover"}
    BY <1>4 DEF StoreKeys, FlowAt, FlowShape, KeyTypeOK, NoFlow
  <2>1. vault \in Opt(VaultKey)
    BY <2>0, FlowHasOnePass DEF FlowShape, KeyTypeOK, VaultKey, Opt
  <2>2. stored' \in Opt([db : Key, vault : Opt(VaultKey)])
    <3> HIDE DEF vault
    <3>1. {[db |-> k, vault |-> vault] : k \in mem} \in Opt([db : Key, vault : Opt(VaultKey)])
      BY <2>1, OpenKeyStored
    <3>2. stored' = {[db |-> k, vault |-> vault] : k \in mem}
      BY <1>4 DEF StoreKeys, vault
    <3> QED
      BY <3>1, <3>2
  <2>3. creds' \in Opt(VaultKey)
    BY <1>4, <2>1 DEF StoreKeys, KeyTypeOK
  <2>4. flow' \in [op : {"none", "init", "init-sync", "recover", "replace", "merge", "enable",
                         "wipe"},
                   stage : {"none", "cleanup", "delete", "open", "store", "import", "persist",
                            "enable", "push", "upgrade", "rekey", "finish"},
                   pass : Opt(Passphrases), kdf : {"none", "pbkdf2", "argon2id"}, has : Has]
    BY <1>4 DEF StoreKeys, Goto, KeyTypeOK
  <2>5. /\ torn' = FALSE /\ boot' \in {boot, "ready"}
        /\ UNCHANGED <<disk, onboarded, mem, cloud, opens, keyMishaps>>
    BY <1>4 DEF StoreKeys
  <2> QED
    BY <2>2, <2>3, <2>4, <2>5 DEF KeyTypeOK
<1>5. CASE AddVaultKeys
  <2>1. flow.stage = "enable" => flow.pass # {}
    BY DEF FlowShape, KeyTypeOK, NoFlow
  <2>2. {[pass |-> ThePass, kdf |-> "argon2id"]} \in Opt(VaultKey)
    BY <1>5, <2>1, FlowHasOnePass DEF AddVaultKeys, FlowAt, VaultKey, Opt
  <2>3. stored' \in Opt([db : Key, vault : Opt(VaultKey)])
    <3>1. CASE stored = {}
      BY <1>5, <3>1 DEF AddVaultKeys, KeyTypeOK
    <3>2. CASE stored # {}
      <4>1. stored' = {[s EXCEPT !.vault = {[pass |-> ThePass, kdf |-> "argon2id"]}] :
                         s \in stored}
        BY <1>5, <3>2 DEF AddVaultKeys
      <4> QED
        BY <2>2, <4>1, VaultKeyReplaced
    <3> QED
      BY <3>1, <3>2
  <2>4. creds' \in Opt(VaultKey)
    BY <1>5, <2>2 DEF AddVaultKeys, KeyTypeOK
  <2> QED
    BY <1>5, <2>3, <2>4 DEF AddVaultKeys, Goto, KeyTypeOK
<1>6. CASE ImportVault
  <2>1. disk' \in [salt : 0..MaxOpens, keys : SUBSET Key, has : Has]
    <3>1. mem \in SUBSET Key /\ flow.has \in Has
      BY DEF KeyTypeOK, Opt
    <3> QED
      BY <1>6, <3>1 DEF ImportVault, KeyTypeOK
  <2> QED
    BY <1>6, <2>1 DEF ImportVault, Mishap, Goto, KeyTypeOK
<1>7. CASE PersistKeys
  <2>1. flow.op \in {"replace", "merge"}
    BY <1>7 DEF PersistKeys, FlowAt, FlowShape, KeyTypeOK, NoFlow
  <2>2. {TheKey} \in Opt(VaultKey)
    BY <2>1, FlowKeyIsKey DEF Opt
  <2>3. stored' = {[db |-> k, vault |-> {TheKey}] : k \in mem}
    BY <1>7 DEF PersistKeys
  <2>4. stored' \in Opt([db : Key, vault : Opt(VaultKey)])
    BY <2>2, <2>3, OpenKeyStored
  <2> QED
    BY <1>7, <2>4 DEF PersistKeys, Goto, KeyTypeOK
<1>8. CASE FlowPush
  BY <1>8, FlowHasOnePass DEF KeyTypeOK, FlowShape, FlowPush, FlowAt, Mishap, Goto, Opt, Has, NoFlow
<1>9. CASE Upgrade
  BY <1>9, FlowHasOnePass DEF KeyTypeOK, FlowShape, Upgrade, FlowAt, Mishap, Goto
<1>10. CASE Rekey
  <2>1. flow.op \in {"recover", "replace", "merge"}
    BY <1>10 DEF Rekey, FlowAt, FlowShape, KeyTypeOK, NoFlow
  <2>2. {[pass |-> ThePass, kdf |-> "argon2id"]} \in Opt(VaultKey)
    BY <2>1, FlowHasOnePass DEF FlowShape, VaultKey, Opt
  <2>3. stored' = {[s EXCEPT !.vault = {[pass |-> ThePass, kdf |-> "argon2id"]}] : s \in stored}
    BY <1>10 DEF Rekey
  <2>4. stored' \in Opt([db : Key, vault : Opt(VaultKey)])
    BY <2>2, <2>3, VaultKeyReplaced
  <2> QED
    BY <1>10, <2>4 DEF Rekey, KeyTypeOK
<1>11. CASE Finish
  BY ZenonT(40), <1>11, FlowKeyIsKey DEF KeyTypeOK, FlowShape, Finish, Opt, Has, NoFlow
<1> QED
  BY <1>1, <1>2, <1>3, <1>4, <1>5, <1>6, <1>7, <1>8, <1>9, <1>10, <1>11 DEF FlowStep

\* A step of the flow at hand keeps to the stages of its flow.
LEMMA FlowStepKeepsShape ==
    ASSUME KeyTypeOK, FlowShape, FlowStep
    PROVE  FlowShape'
<1> USE DEF KeyTypeOK, FlowShape, FlowAt, Goto, NoFlow
<1>1. CASE Cleanup
  BY <1>1 DEF Cleanup
<1>2. CASE DeleteDatabase
  BY <1>2 DEF DeleteDatabase
<1>3. CASE OpenFresh
  BY <1>3 DEF OpenFresh
<1>4. CASE StoreKeys
  BY <1>4 DEF StoreKeys
<1>5. CASE AddVaultKeys
  BY <1>5 DEF AddVaultKeys
<1>6. CASE ImportVault
  BY <1>6 DEF ImportVault
<1>7. CASE PersistKeys
  BY <1>7 DEF PersistKeys
<1>8. CASE FlowPush
  BY <1>8 DEF FlowPush
<1>9. CASE Upgrade
  BY <1>9 DEF Upgrade
<1>10. CASE Rekey
  BY <1>10 DEF Rekey
<1>11. CASE Finish
  BY <1>11 DEF Finish
<1> QED
  BY <1>1, <1>2, <1>3, <1>4, <1>5, <1>6, <1>7, <1>8, <1>9, <1>10, <1>11 DEF FlowStep

\* The steps that begin a flow give it all it needs to know.
LEMMA FlowsBegin ==
    ASSUME KeyTypeOK, FlowShape, NEW p \in Passphrases,
           StartNew(p) \/ StartRecovery(p) \/ StartReplace(p) \/ StartMerge(p) \/ StartEnable(p)
    PROVE  KeyTypeOK' /\ FlowShape'
<1> USE DEF Onboarding
<1>1. /\ flow' \in [op : {"init", "init-sync", "recover", "replace", "merge", "enable"},
                     stage : {"cleanup", "delete", "enable"},
                     pass : {{p}}, kdf : {"none", "pbkdf2", "argon2id"}, has : Has]
      /\ flow'.pass = {p} /\ flow'.kdf = cloud[p].kdf
  BY VaultHasKdf DEF StartNew, StartRecovery, StartReplace, StartMerge, StartEnable, Begin,
     KeyTypeOK, Has
<1>2. KeyTypeOK'
  <2>1. {p} \in Opt(Passphrases)
    BY DEF Opt
  <2>2. /\ boot' \in {boot, "needs-onboarding"}
        /\ UNCHANGED <<disk, stored, onboarded, mem, creds, cloud, torn, opens, keyMishaps>>
    BY DEF StartNew, StartRecovery, StartReplace, StartMerge, StartEnable
  <2> QED
    BY ZenonT(40), <1>1, <2>1, <2>2 DEF KeyTypeOK
<1>3. FlowShape'
  <2>1. CASE StartNew(p)
    BY <2>1, <1>1 DEF StartNew, Begin, FlowShape, KeyTypeOK, NoVault
  <2>2. CASE StartRecovery(p)
    BY <2>2, <1>1, VaultHasKdf DEF StartRecovery, Begin, FlowShape, KeyTypeOK
  <2>3. CASE StartReplace(p)
    BY <2>3, <1>1, VaultHasKdf DEF StartReplace, Begin, FlowShape, KeyTypeOK
  <2>4. CASE StartMerge(p)
    BY <2>4, <1>1, VaultHasKdf DEF StartMerge, FlowShape, KeyTypeOK
  <2>5. CASE StartEnable(p)
    BY <2>5, <1>1 DEF StartEnable, Begin, FlowShape, KeyTypeOK, NoVault
  <2> QED
    BY <2>1, <2>2, <2>3, <2>4, <2>5
<1> QED
  BY <1>2, <1>3

\* Every other step: the boot, the open database, a failure.
LEMMA RestTyped ==
    ASSUME KeyTypeOK, FlowShape,
           \/ LoadPage \/ Hydrated \/ ClosePage \/ AddsFeed \/ Push \/ Pull \/ DisableSync
           \/ StartWipe \/ StepFails
           \/ \E p \in Passphrases : UpgradedElsewhere(p)
    PROVE  KeyTypeOK' /\ FlowShape'
<1> USE KeyAssumption
<1>1. ASSUME LoadPage PROVE KeyTypeOK' /\ FlowShape'
  BY <1>1 DEF LoadPage, KeyTypeOK, FlowShape, Opt
<1>2. ASSUME Hydrated PROVE KeyTypeOK' /\ FlowShape'
  BY <1>2 DEF Hydrated, KeyTypeOK, FlowShape, NoFlow
<1>3. ASSUME ClosePage PROVE KeyTypeOK' /\ FlowShape'
  BY <1>3 DEF ClosePage, Mishap, KeyTypeOK, FlowShape, NoFlow, Opt, Has
<1>4. ASSUME AddsFeed PROVE KeyTypeOK' /\ FlowShape'
  <2>1. disk.keys \cup mem \in SUBSET Key /\ disk.has \cup {"own"} \in Has
    BY DEF KeyTypeOK, Opt, Has
  <2> QED
    BY ZenonT(40), <1>4, <2>1 DEF AddsFeed, KeyTypeOK, FlowShape
<1>5. ASSUME Push PROVE KeyTypeOK' /\ FlowShape'
  <2>1. PICK v \in VaultKey : cloud' = [cloud EXCEPT ![v.pass] = [kdf |-> v.kdf, has |-> disk.has]]
    <3>1. creds \subseteq VaultKey
      BY DEF KeyTypeOK, Opt
    <3> QED
      BY <1>5, <3>1 DEF Push
  <2>2. [kdf |-> v.kdf, has |-> disk.has] \in [kdf : {"pbkdf2", "argon2id"}, has : Has]
    BY DEF VaultKey, KeyTypeOK
  <2>3. cloud' \in [Passphrases -> {NoVault} \cup [kdf : {"pbkdf2", "argon2id"}, has : Has]]
    BY <2>1, <2>2 DEF VaultKey, KeyTypeOK
  <2> QED
    BY <1>5, <2>3 DEF Push, KeyTypeOK, FlowShape
<1>6. ASSUME Pull PROVE KeyTypeOK' /\ FlowShape'
  <2>1. PICK v \in VaultKey : disk' = [disk EXCEPT !.keys = mem, !.has = cloud[v.pass].has]
    <3>1. creds \subseteq VaultKey
      BY DEF KeyTypeOK, Opt
    <3> QED
      BY <1>6, <3>1 DEF Pull
  <2>2. mem \in SUBSET Key /\ cloud[v.pass].has \in Has
    BY VaultHasKdf DEF KeyTypeOK, Opt, VaultKey
  <2>3. disk' \in [salt : 0..MaxOpens, keys : SUBSET Key, has : Has]
    <3> HIDE DEF Key, Has
    <3> QED
      BY <2>1, <2>2 DEF KeyTypeOK
  <2>4. UNCHANGED <<stored, onboarded, mem, creds, boot, flow, cloud, torn, opens, keyMishaps>>
    BY <1>6 DEF Pull
  <2>5. KeyTypeOK'
    BY <2>3, <2>4 DEF KeyTypeOK
  <2> QED
    BY <2>4, <2>5 DEF FlowShape
<1>7. ASSUME DisableSync PROVE KeyTypeOK' /\ FlowShape'
  <2>1. stored' = {[s EXCEPT !.vault = {}] : s \in stored} /\ creds' = {}
    BY <1>7 DEF DisableSync
  <2>2. {} \in Opt(VaultKey)
    BY DEF Opt
  <2>3. stored' \in Opt([db : Key, vault : Opt(VaultKey)])
    BY <2>1, <2>2, VaultKeyReplaced
  <2>4. cloud' \in [Passphrases -> {NoVault} \cup [kdf : {"pbkdf2", "argon2id"}, has : Has]]
    BY <1>7 DEF DisableSync, KeyTypeOK
  <2> QED
    BY <1>7, <2>1, <2>2, <2>3, <2>4 DEF DisableSync, KeyTypeOK, FlowShape
<1>8. ASSUME StartWipe PROVE KeyTypeOK' /\ FlowShape'
  BY ZenonT(40), <1>8 DEF StartWipe, KeyTypeOK, FlowShape, NoFlow, Has, Opt
<1>9. ASSUME StepFails PROVE KeyTypeOK' /\ FlowShape'
  <2>1. disk' \in [salt : 0..MaxOpens, keys : SUBSET Key, has : Has]
    BY <1>9 DEF StepFails, KeyTypeOK, NoDisk, Has
  <2>2. stored' \in Opt([db : Key, vault : Opt(VaultKey)]) /\ onboarded' \in BOOLEAN
        /\ mem' \in Opt(Key) /\ torn' \in BOOLEAN
    BY <1>9 DEF StepFails, KeyTypeOK, Opt, Tears
  <2>3. flow' \in [op : {"none", "init", "init-sync", "recover", "replace", "merge", "enable",
                         "wipe"},
                   stage : {"none", "cleanup", "delete", "open", "store", "import", "persist",
                            "enable", "push", "upgrade", "rekey", "finish"},
                   pass : Opt(Passphrases), kdf : {"none", "pbkdf2", "argon2id"}, has : Has]
    BY <1>9 DEF StepFails, Goto, KeyTypeOK, NoFlow, Opt, Has
  <2>4. keyMishaps' \in 0..MaxKeyMishaps /\ boot' \in {boot, "error"}
        /\ UNCHANGED <<creds, cloud, opens>>
    BY <1>9 DEF StepFails, Mishap, KeyTypeOK
  <2>5. KeyTypeOK'
    BY <2>1, <2>2, <2>3, <2>4 DEF KeyTypeOK
  <2>6. FlowShape'
    BY <1>9 DEF StepFails, FlowAt, Goto, KeyTypeOK, FlowShape, NoFlow
  <2> QED
    BY <2>5, <2>6
<1>10. ASSUME NEW p \in Passphrases, UpgradedElsewhere(p) PROVE KeyTypeOK' /\ FlowShape'
  BY <1>10 DEF UpgradedElsewhere, Mishap, KeyTypeOK, FlowShape, NoVault
<1> QED
  BY <1>1, <1>2, <1>3, <1>4, <1>5, <1>6, <1>7, <1>8, <1>9, <1>10

\* Types and shape are kept by every step.
LEMMA NextKeepsShape ==
    ASSUME KeyTypeOK, FlowShape, [KeyNext]_keyVars
    PROVE  KeyTypeOK' /\ FlowShape'
<1>1. CASE FlowStep
  BY <1>1, FlowStepTyped, FlowStepKeepsShape
<1>2. ASSUME NEW p \in Passphrases,
             \/ StartNew(p) \/ StartRecovery(p) \/ StartReplace(p) \/ StartMerge(p)
             \/ StartEnable(p)
      PROVE  KeyTypeOK' /\ FlowShape'
  BY <1>2, FlowsBegin
<1>3. CASE \/ LoadPage \/ Hydrated \/ ClosePage \/ AddsFeed \/ Push \/ Pull \/ DisableSync
           \/ StartWipe \/ StepFails
           \/ \E p \in Passphrases : UpgradedElsewhere(p)
  BY <1>3, RestTyped
<1>4. CASE UNCHANGED keyVars
  BY <1>4 DEF keyVars, KeyTypeOK, FlowShape
<1> QED
  BY <1>1, <1>2, <1>3, <1>4 DEF KeyNext

-----------------------------------------------------------------------------
(* The key follows the data.                                               *)

\* The database keys in localStorage when the vault key beside them is replaced, and
\* when the open database's key is stored.
LEMMA DbKeysStay ==
    ASSUME KeyTypeOK, NEW V, stored' = {[s EXCEPT !.vault = V] : s \in stored}
    PROVE  DbKeys' = DbKeys
<1>1. \A s \in stored : [s EXCEPT !.vault = V].db = s.db
  BY DEF KeyTypeOK, Opt
<1> QED
  BY <1>1 DEF DbKeys

\* The keys a database can be opened with are those of the one that is open.
LEMMA DbKeysOfOpen ==
    ASSUME NEW V, stored' = {[db |-> k, vault |-> V] : k \in mem}
    PROVE  DbKeys' = mem
<1>1. \A k \in mem : [db |-> k, vault |-> V].db = k
  OBVIOUS
<1> QED
  BY <1>1 DEF DbKeys

\* The steps that store keys: those that take up the open database's key, and those that
\* touch the vault key only.
LEMMA StoringKeys ==
    ASSUME KeyTypeOK
    PROVE  /\ StoreKeys \/ PersistKeys => DbKeys' = mem
           /\ AddVaultKeys \/ Rekey \/ DisableSync => DbKeys' = DbKeys
<1>1. ASSUME StoreKeys PROVE DbKeys' = mem
  <2> DEFINE kdf   == IF flow.op = "recover" THEN flow.kdf ELSE "argon2id"
             vault == IF flow.op = "init" THEN {} ELSE {[pass |-> ThePass, kdf |-> kdf]}
  <2>1. stored' = {[db |-> k, vault |-> vault] : k \in mem}
    BY <1>1 DEF StoreKeys
  <2> HIDE DEF vault
  <2> QED
    BY <2>1, DbKeysOfOpen
<1>2. ASSUME PersistKeys PROVE DbKeys' = mem
  <2>1. stored' = {[db |-> k, vault |-> {TheKey}] : k \in mem}
    BY <1>2 DEF PersistKeys
  <2> QED
    BY <2>1, DbKeysOfOpen
<1>3. ASSUME AddVaultKeys PROVE DbKeys' = DbKeys
  <2>1. CASE stored = {}
    BY <1>3, <2>1 DEF AddVaultKeys, DbKeys
  <2>2. CASE stored # {}
    <3>1. stored' = {[s EXCEPT !.vault = {[pass |-> ThePass, kdf |-> "argon2id"]}] : s \in stored}
      BY <1>3, <2>2 DEF AddVaultKeys
    <3> QED
      BY <3>1, DbKeysStay
  <2> QED
    BY <2>1, <2>2
<1>4. ASSUME Rekey PROVE DbKeys' = DbKeys
  <2>1. stored' = {[s EXCEPT !.vault = {[pass |-> ThePass, kdf |-> "argon2id"]}] : s \in stored}
    BY <1>4 DEF Rekey
  <2> QED
    BY <2>1, DbKeysStay
<1>5. ASSUME DisableSync PROVE DbKeys' = DbKeys
  <2>1. stored' = {[s EXCEPT !.vault = {}] : s \in stored}
    BY <1>5 DEF DisableSync
  <2> QED
    BY <2>1, DbKeysStay
<1> QED
  BY <1>1, <1>2, <1>3, <1>4, <1>5

\* A step of the flow at hand.
LEMMA FlowStepFollowsData ==
    ASSUME KeyTypeOK, FlowShape, KeysFollowData, FlowStep
    PROVE  KeysFollowData'
<1> USE DEF KeyTypeOK, FlowShape, KeysFollowData, Coupled, Tears, FlowAt, Goto, NoFlow
<1>1. CASE Cleanup
  <2>1. DbKeys' = DbKeys
    BY <1>1 DEF Cleanup, DbKeys
  <2> QED
    BY <1>1, <2>1 DEF Cleanup
<1>2. CASE DeleteDatabase
  <2>1. flow'.stage \in {"open", "none"} /\ disk'.keys = {} /\ mem' = {}
    BY <1>2 DEF DeleteDatabase, NoDisk
  <2> QED
    BY <2>1
<1>3. CASE OpenFresh
  <2>1. flow'.stage \in {"import", "store"} /\ disk'.keys = {} /\ mem' # {} /\ flow'.op = flow.op
    BY <1>3 DEF OpenFresh, NoDisk
  <2>2. flow'.stage = "import" => flow.op \in {"replace", "merge"}
    BY <1>3 DEF OpenFresh
  <2> QED
    BY <2>1, <2>2
<1>4. CASE StoreKeys
  <2>2. DbKeys' = mem
    BY <1>4, StoringKeys
  <2>3. disk.keys = {} /\ UNCHANGED <<disk, mem>>
    BY <1>4 DEF StoreKeys
  <2>4. flow'.stage \in {"import", "finish", "enable"} /\ flow'.op = flow.op
        /\ flow.op \in {"init", "init-sync", "recover"}
    BY <1>4 DEF StoreKeys
  <2> QED
    BY <2>2, <2>3, <2>4
<1>5. CASE AddVaultKeys
  <2>1. DbKeys' = DbKeys
    BY <1>5, StoringKeys
  <2>2. UNCHANGED <<disk, mem, torn>> /\ flow.op \in {"init", "init-sync", "enable"}
    BY <1>5 DEF AddVaultKeys
  <2>3. flow'.stage \in {"finish", "push"} /\ flow'.op = flow.op
    BY <1>5 DEF AddVaultKeys
  <2> QED
    BY <1>5, <2>1, <2>2, <2>3 DEF AddVaultKeys
<1>6. CASE ImportVault
  <2>1. DbKeys' = DbKeys
    BY <1>6 DEF ImportVault, DbKeys
  <2> QED
    BY <1>6, <2>1 DEF ImportVault
<1>7. CASE PersistKeys
  <2>1. DbKeys' = mem
    BY <1>7, StoringKeys
  <2>2. flow.op \in {"replace", "merge"} /\ flow.stage = "persist" /\ UNCHANGED <<disk, mem>>
    BY <1>7 DEF PersistKeys
  <2>3. disk.keys \subseteq mem /\ (flow.op = "merge" => mem # {})
    BY <2>2
  <2>4. flow'.stage \in {"push", "upgrade"} /\ flow'.op = flow.op
    BY <1>7 DEF PersistKeys
  <2> QED
    BY <2>1, <2>2, <2>3, <2>4
<1>8. CASE FlowPush
  <2>1. DbKeys' = DbKeys
    BY <1>8 DEF FlowPush, DbKeys
  <2> QED
    BY <1>8, <2>1 DEF FlowPush
<1>9. CASE Upgrade
  <2>1. DbKeys' = DbKeys
    BY <1>9 DEF Upgrade, DbKeys
  <2> QED
    BY <1>9, <2>1 DEF Upgrade
<1>10. CASE Rekey
  <2>1. DbKeys' = DbKeys
    BY <1>10, StoringKeys
  <2>2. UNCHANGED <<disk, mem, torn>> /\ flow.stage = "rekey" /\ flow'.stage = "finish"
    BY <1>10 DEF Rekey
  <2> QED
    BY <2>1, <2>2
<1>11. CASE Finish
  <2>1. DbKeys' = DbKeys
    BY <1>11 DEF Finish, DbKeys
  <2> QED
    BY <1>11, <2>1 DEF Finish
<1> QED
  BY <1>1, <1>2, <1>3, <1>4, <1>5, <1>6, <1>7, <1>8, <1>9, <1>10, <1>11 DEF FlowStep

\* Any other step.
LEMMA RestFollowsData ==
    ASSUME KeyTypeOK, FlowShape, KeysFollowData,
           \/ LoadPage \/ Hydrated \/ ClosePage \/ AddsFeed \/ Push \/ Pull \/ DisableSync
           \/ StartWipe \/ StepFails
           \/ \E p \in Passphrases :
                 \/ UpgradedElsewhere(p) \/ StartNew(p) \/ StartRecovery(p) \/ StartReplace(p)
                 \/ StartMerge(p) \/ StartEnable(p)
    PROVE  KeysFollowData'
<1> USE DEF KeyTypeOK, FlowShape, KeysFollowData, Coupled, Tears, NoFlow
<1>1. CASE LoadPage
  <2>1. DbKeys' = DbKeys
    BY <1>1 DEF LoadPage, DbKeys
  <2>2. CASE ~onboarded \/ stored = {}
    BY <1>1, <2>1, <2>2 DEF LoadPage
  <2>3. CASE ~(~onboarded \/ stored = {})
    <3>1. PICK s \in stored : mem' = {s.db}
      BY <1>1, <2>3 DEF LoadPage
    <3>2. mem' \subseteq DbKeys
      BY <3>1 DEF DbKeys
    <3>3. flow = NoFlow /\ UNCHANGED <<disk, flow, torn>>
      BY <1>1 DEF LoadPage
    <3> QED
      BY <2>1, <3>2, <3>3
  <2> QED
    BY <2>2, <2>3
<1>2. CASE Hydrated
  <2>1. DbKeys' = DbKeys
    BY <1>2 DEF Hydrated, DbKeys
  <2> QED
    BY <1>2, <2>1 DEF Hydrated
<1>3. CASE ClosePage
  <2>1. DbKeys' = DbKeys
    BY <1>3 DEF ClosePage, DbKeys
  <2> QED
    BY <1>3, <2>1 DEF ClosePage
<1>4. CASE AddsFeed
  <2>1. DbKeys' = DbKeys
    BY <1>4 DEF AddsFeed, DbKeys
  <2> QED
    BY <1>4, <2>1 DEF AddsFeed
<1>5. CASE Push
  <2>1. DbKeys' = DbKeys
    BY <1>5 DEF Push, DbKeys
  <2> QED
    BY <1>5, <2>1 DEF Push
<1>6. CASE Pull
  <2>1. disk'.keys = mem /\ UNCHANGED <<DbKeys, mem, flow, torn>>
    <3>1. PICK has : disk' = [disk EXCEPT !.keys = mem, !.has = has]
      BY <1>6 DEF Pull
    <3>2. disk \in [salt : 0..MaxOpens, keys : SUBSET Key, has : Has]
      OBVIOUS
    <3> QED
      BY <1>6, <3>1, <3>2 DEF Pull, DbKeys
  <2>2. flow.stage \notin {"open", "store"}
    <3>1. boot \in {"hydrating", "ready"} /\ mem # {}
      BY <1>6 DEF Pull
    <3>2. flow.stage # "open"
      BY <3>1
    <3>3. flow.stage = "store" => flow.op \in {"init", "init-sync", "recover"}
      OBVIOUS
    <3> QED
      BY <3>1, <3>2, <3>3
  <2> QED
    BY <2>1, <2>2
<1>7. CASE DisableSync
  <2>1. DbKeys' = DbKeys
    BY <1>7, StoringKeys
  <2> QED
    BY <1>7, <2>1 DEF DisableSync
<1>8. CASE StartWipe
  <2>1. DbKeys' = DbKeys
    BY <1>8 DEF StartWipe, DbKeys
  <2> QED
    BY <1>8, <2>1 DEF StartWipe
<1>9. CASE StepFails
  <2>1. CASE flow.op \in {"init", "init-sync", "recover"}
    <3>1. disk'.keys = {} /\ mem' = {} /\ torn' = torn
      BY <1>9, <2>1 DEF StepFails, NoDisk
    <3>2. flow'.stage \in {"none", "finish", "enable"}
      BY <1>9, <2>1 DEF StepFails, Goto
    <3> QED
      BY <3>1, <3>2
  <2>2. CASE flow.op \in {"replace", "merge"}
    <3>1. flow' = NoFlow /\ UNCHANGED <<disk, DbKeys>> /\ torn' = (torn \/ Tears)
          /\ mem' \in {{}, mem}
      BY <1>9, <2>2 DEF StepFails, DbKeys
    <3> QED
      BY <2>2, <3>1, <1>9 DEF StepFails
  <2> QED
    BY <1>9, <2>1, <2>2 DEF StepFails
<1>10. ASSUME NEW p \in Passphrases,
              \/ UpgradedElsewhere(p) \/ StartNew(p) \/ StartRecovery(p) \/ StartReplace(p)
              \/ StartMerge(p) \/ StartEnable(p)
       PROVE  KeysFollowData'
  <2>1. /\ UNCHANGED <<disk, DbKeys, mem, torn>>
        /\ flow' = flow \/ flow'.stage \in {"cleanup", "delete", "enable"}
    BY <1>10 DEF UpgradedElsewhere, StartNew, StartRecovery, StartReplace, StartMerge, StartEnable,
       Begin, DbKeys
  <2>2. flow' = flow \/ flow = NoFlow
    BY <1>10 DEF UpgradedElsewhere, StartNew, StartRecovery, StartReplace, StartMerge, StartEnable
  <2> QED
    BY <2>1, <2>2
<1> QED
  BY <1>1, <1>2, <1>3, <1>4, <1>5, <1>6, <1>7, <1>8, <1>9, <1>10

\* Every step.
LEMMA NextFollowsData ==
    ASSUME KeyTypeOK, FlowShape, KeysFollowData, [KeyNext]_keyVars
    PROVE  KeysFollowData'
<1>1. CASE FlowStep
  BY <1>1, FlowStepFollowsData
<1>2. CASE UNCHANGED keyVars
  BY <1>2 DEF keyVars, KeysFollowData, Coupled, DbKeys, Tears
<1>3. CASE KeyNext /\ ~FlowStep
  BY <1>3, RestFollowsData DEF KeyNext
<1> QED
  BY <1>1, <1>2, <1>3

-----------------------------------------------------------------------------
(* Why the onboarding shows.                                               *)

\* The onboarding shows only to those who have not completed it or have no keys.
LEMMA NextHasReason ==
    ASSUME KeyTypeOK, FlowShape, OnboardingHasReason, [KeyNext]_keyVars
    PROVE  OnboardingHasReason'
<1> USE DEF OnboardingHasReason, FlowShape, FlowAt, Goto, NoFlow
<1>1. CASE FlowStep
  <2>1. CASE Cleanup
    BY <2>1 DEF Cleanup, KeyTypeOK
  <2>2. CASE DeleteDatabase
    BY <2>2 DEF DeleteDatabase, KeyTypeOK
  <2>3. CASE OpenFresh
    BY <2>3 DEF OpenFresh, KeyTypeOK
  <2>4. CASE StoreKeys
    BY <2>4 DEF StoreKeys, KeyTypeOK
  <2>5. CASE AddVaultKeys
    BY <2>5 DEF AddVaultKeys, KeyTypeOK
  <2>6. CASE ImportVault
    BY <2>6 DEF ImportVault, KeyTypeOK
  <2>7. CASE PersistKeys
    BY <2>7 DEF PersistKeys, KeyTypeOK
  <2>8. CASE FlowPush
    BY <2>8 DEF FlowPush, KeyTypeOK
  <2>9. CASE Upgrade
    BY <2>9 DEF Upgrade, KeyTypeOK
  <2>10. CASE Rekey
    BY <2>10 DEF Rekey, KeyTypeOK
  <2>11. CASE Finish
    BY <2>11 DEF Finish, KeyTypeOK
  <2> QED
    BY <1>1, <2>1, <2>2, <2>3, <2>4, <2>5, <2>6, <2>7, <2>8, <2>9, <2>10, <2>11 DEF FlowStep
<1>2. CASE LoadPage
  BY <1>2 DEF LoadPage
<1>3. CASE Hydrated \/ ClosePage \/ AddsFeed \/ Push \/ Pull
  BY <1>3 DEF Hydrated, ClosePage, AddsFeed, Push, Pull
<1>4. CASE DisableSync
  BY <1>4 DEF DisableSync
<1>5. CASE StartWipe
  BY <1>5 DEF StartWipe
<1>6. CASE StepFails
  BY <1>6 DEF StepFails, KeyTypeOK
<1>7. ASSUME NEW p \in Passphrases,
             \/ UpgradedElsewhere(p) \/ StartNew(p) \/ StartRecovery(p) \/ StartReplace(p)
             \/ StartMerge(p) \/ StartEnable(p)
      PROVE  OnboardingHasReason'
  <2>1. CASE UpgradedElsewhere(p)
    BY <2>1 DEF UpgradedElsewhere
  <2>2. CASE StartNew(p)
    BY <2>2 DEF StartNew, Onboarding
  <2>3. CASE StartRecovery(p)
    BY <2>3 DEF StartRecovery, Onboarding
  <2>4. CASE StartReplace(p)
    BY <2>4 DEF StartReplace
  <2>5. CASE StartMerge(p) \/ StartEnable(p)
    BY <2>5 DEF StartMerge, StartEnable
  <2> QED
    BY <1>7, <2>1, <2>2, <2>3, <2>4, <2>5
<1>8. CASE UNCHANGED keyVars
  BY <1>8 DEF keyVars
<1> QED
  BY <1>1, <1>2, <1>3, <1>4, <1>5, <1>6, <1>7, <1>8 DEF KeyNext

-----------------------------------------------------------------------------
(* The strength of the vault keys.                                         *)

\* The mishaps are never forgotten: in a step that is not one, nothing is counted.
LEMMA MishapIsCounted ==
    ASSUME KeyTypeOK, Mishap
    PROVE  keyMishaps' # 0
<1>1. keyMishaps \in Nat /\ keyMishaps' = keyMishaps + 1
  BY KeyAssumption DEF KeyTypeOK, Mishap
<1> QED
  BY <1>1

\* Mishaps are only counted up: what holds while there was none holds of the state before.
LEMMA MishapsAreNotForgotten ==
    ASSUME KeyTypeOK, [KeyNext]_keyVars, keyMishaps' = 0
    PROVE  keyMishaps = 0
<1>1. Mishap \/ keyMishaps' = keyMishaps
  BY DEF KeyNext, keyVars, FlowStep, LoadPage, Hydrated, ClosePage, AddsFeed, Push, Pull,
     DisableSync, UpgradedElsewhere, StartNew, StartRecovery, StartReplace, StartMerge, StartEnable,
     StartWipe, Cleanup, DeleteDatabase, OpenFresh, StoreKeys, AddVaultKeys, ImportVault,
     PersistKeys, FlowPush, Upgrade, Rekey, Finish, StepFails
<1> QED
  BY <1>1, MishapIsCounted

\* The passphrase a flow works with is the one it has.
LEMMA SamePass ==
    ASSUME flow'.pass = flow.pass
    PROVE  ThePass' = ThePass
  BY DEF ThePass

\* What the user gives a flow is a passphrase.
LEMMA GivenPass ==
    ASSUME NEW p \in Passphrases, flow'.pass = {p}
    PROVE  ThePass' = p
  BY DEF ThePass

\* No vault of the server is now under the weaker KDF that was not before.
NoneWeaker == \A p \in Passphrases : cloud[p].kdf # "pbkdf2" => cloud'[p].kdf # "pbkdf2"

\* A vault key that is stored belongs to a passphrase.
LEMMA StoredVaultKeys ==
    ASSUME KeyTypeOK
    PROVE  /\ \A s \in stored : s.db \in Key /\ s.vault \in Opt(VaultKey)
           /\ \A s \in stored : \A v \in s.vault : v \in VaultKey
           /\ \A v \in creds : v \in VaultKey
<1>1. \A s \in stored : s.db \in Key /\ s.vault \in Opt(VaultKey)
  BY DEF KeyTypeOK, Opt
<1>2. \A V \in Opt(VaultKey) : \A v \in V : v \in VaultKey
  BY DEF Opt
<1>3. creds \in Opt(VaultKey)
  BY DEF KeyTypeOK
<1> QED
  BY <1>1, <1>2, <1>3

\* A step that leaves the stored keys alone, weakens no vault and takes the flow no further
\* than to a stage of the same kind keeps the keys strong.
LEMMA StrongStays ==
    ASSUME KeyTypeOK, FlowShape, VaultKeysAreStrong, NoneWeaker,
           stored' = stored, creds' \subseteq creds,
           flow'.op = flow.op, flow'.pass = flow.pass, flow'.kdf = flow.kdf,
           flow'.stage = "rekey" => flow.stage = "rekey",
           flow'.stage = "finish"
             => flow.stage = "finish" \/ flow.op \notin {"recover", "replace", "merge"},
           NotYetUpgraded' = NotYetUpgraded
    PROVE  VaultKeysAreStrong'
<1>1. ThePass' = ThePass /\ TheKey' = TheKey
  BY SamePass DEF TheKey
<1>2. \A v \in creds' : v.kdf = "argon2id"
  BY DEF VaultKeysAreStrong
<1>3. flow'.op \notin {"none", "wipe"} /\ (flow'.kdf # "pbkdf2" \/ flow'.stage = "rekey")
      => cloud'[ThePass'].kdf # "pbkdf2"
  BY <1>1, FlowHasOnePass DEF VaultKeysAreStrong, FlowShape, NoneWeaker
<1>4. flow'.op \in {"recover", "replace", "merge"} /\ flow'.stage = "finish"
      => flow'.kdf = "argon2id"
  BY DEF VaultKeysAreStrong
<1>5. \A s \in stored' : \A v \in s.vault :
         IF NotYetUpgraded' THEN v = TheKey' ELSE Strong(v)'
  <2>1. \A v \in VaultKey : Strong(v) => Strong(v)'
    BY DEF Strong, NoneWeaker, VaultKey
  <2> QED
    BY <1>1, <2>1, StoredVaultKeys DEF VaultKeysAreStrong
<1> QED
  BY <1>2, <1>3, <1>4, <1>5 DEF VaultKeysAreStrong

\* What has to be shown of a step that changes the stored vault keys: each is the strong
\* key of the passphrase the flow works with.
LEMMA StrongReplaced ==
    ASSUME KeyTypeOK, FlowShape, VaultKeysAreStrong,
           flow.op \notin {"none", "wipe"}, flow.kdf # "pbkdf2" \/ flow.stage = "rekey",
           cloud' = cloud, flow'.op = flow.op, flow'.pass = flow.pass,
           flow'.kdf \in {flow.kdf, "argon2id"}, flow'.stage # "rekey", ~NotYetUpgraded',
           flow'.op \in {"recover", "replace", "merge"} /\ flow'.stage = "finish"
             => flow'.kdf = "argon2id",
           creds' \subseteq creds \cup {[pass |-> ThePass, kdf |-> "argon2id"]},
           \A s \in stored' : s.vault \subseteq {[pass |-> ThePass, kdf |-> "argon2id"]}
    PROVE  VaultKeysAreStrong'
<1>1. ThePass' = ThePass
  BY SamePass
<1>2. cloud[ThePass].kdf # "pbkdf2"
  BY DEF VaultKeysAreStrong
<1>3. \A v \in creds' : v.kdf = "argon2id"
  BY DEF VaultKeysAreStrong
<1>4. \A s \in stored' : \A v \in s.vault : Strong(v)'
  BY <1>2 DEF Strong
<1> QED
  BY <1>1, <1>2, <1>3, <1>4 DEF VaultKeysAreStrong

\* A step of the flow at hand, when nothing goes wrong.
LEMMA FlowStepKeepsStrong ==
    ASSUME KeyTypeOK, FlowShape, KeysFollowData, VaultKeysAreStrong, FlowStep, keyMishaps' = 0
    PROVE  VaultKeysAreStrong'
<1> USE DEF FlowAt
<1>0. /\ flow.op \in {"none", "init", "init-sync", "recover", "replace", "merge", "enable", "wipe"}
      /\ flow.kdf \in {"none", "pbkdf2", "argon2id"}
  BY DEF KeyTypeOK
<1>1. CASE Cleanup
  <2>1. NoneWeaker
    BY <1>1, MishapIsCounted DEF Cleanup, NoneWeaker, NoVault
  <2>2. /\ flow'.op = flow.op /\ flow'.pass = flow.pass /\ flow'.kdf = flow.kdf
        /\ flow'.stage = "delete" /\ flow.stage = "cleanup"
        /\ UNCHANGED <<stored, creds>>
    BY <1>1, GotoKeepsRest DEF Cleanup
  <2>3. NotYetUpgraded' = NotYetUpgraded
    BY <2>2 DEF NotYetUpgraded
  <2> QED
    BY <2>1, <2>2, <2>3, StrongStays
<1>2. CASE DeleteDatabase
  <2>1. CASE flow.op = "wipe"
    BY <1>2, <2>1 DEF DeleteDatabase, VaultKeysAreStrong, NoFlow
  <2>2. CASE flow.op # "wipe"
    <3>1. NoneWeaker /\ UNCHANGED <<stored, creds>>
      BY <1>2, <2>2 DEF DeleteDatabase, NoneWeaker
    <3>2. /\ flow'.op = flow.op /\ flow'.pass = flow.pass /\ flow'.kdf = flow.kdf
          /\ flow'.stage = "open" /\ flow.stage = "delete"
      BY <1>2, <2>2, GotoKeepsRest DEF DeleteDatabase
    <3>3. NotYetUpgraded' = NotYetUpgraded
      BY <3>2 DEF NotYetUpgraded
    <3> QED
      BY <3>1, <3>2, <3>3, StrongStays
  <2> QED
    BY <2>1, <2>2
<1>3. CASE OpenFresh
  <2>1. NoneWeaker /\ UNCHANGED <<stored, creds>>
    BY <1>3 DEF OpenFresh, NoneWeaker
  <2>2. /\ flow'.op = flow.op /\ flow'.pass = flow.pass /\ flow'.kdf = flow.kdf
        /\ flow'.stage \in {"import", "store"} /\ flow.stage = "open"
        /\ (flow.op = "recover" => flow'.stage = "store")
    BY <1>3, GotoKeepsRest DEF OpenFresh
  <2>3. NotYetUpgraded' = NotYetUpgraded
    BY <2>2 DEF NotYetUpgraded
  <2> QED
    BY <2>1, <2>2, <2>3, StrongStays
<1>4. CASE StoreKeys
  <2>0. /\ flow'.op = flow.op /\ flow'.pass = flow.pass /\ flow'.kdf = flow.kdf
        /\ flow.op \in {"init", "init-sync", "recover"} /\ cloud' = cloud
        /\ flow'.stage = (IF flow.op = "recover" THEN "import"
                          ELSE IF flow.op = "init" THEN "finish" ELSE "enable")
    BY <1>0, <1>4, GotoKeepsRest DEF StoreKeys, FlowShape, NoFlow
  <2>1. CASE flow.op = "recover"
    <3>1. /\ stored' = {[db |-> k, vault |-> {TheKey}] : k \in mem} /\ creds' = creds
      BY <1>4, <2>1 DEF StoreKeys, TheKey
    <3>2. ThePass' = ThePass /\ TheKey' = TheKey /\ NotYetUpgraded'
      BY <2>0, <2>1, SamePass DEF TheKey, NotYetUpgraded
    <3>3. \A s \in stored' : \A v \in s.vault : v = TheKey'
      BY <3>1, <3>2
    <3> QED
      BY <2>0, <2>1, <3>1, <3>2, <3>3 DEF VaultKeysAreStrong
  <2>2. CASE flow.op \in {"init", "init-sync"}
    <3>1. \A s \in stored' : s.vault \subseteq {[pass |-> ThePass, kdf |-> "argon2id"]}
      BY <1>4, <2>2 DEF StoreKeys
    <3>2. creds' \subseteq creds \cup {[pass |-> ThePass, kdf |-> "argon2id"]}
      BY <1>4, <2>2 DEF StoreKeys
    <3>3. flow.kdf = "none"
      BY <2>2 DEF FlowShape
    <3>4. ~NotYetUpgraded'
      BY <2>0, <2>2 DEF NotYetUpgraded
    <3> QED
      BY <2>0, <2>2, <3>1, <3>2, <3>3, <3>4, StrongReplaced
  <2> QED
    BY <2>0, <2>1, <2>2
<1>5. CASE AddVaultKeys
  <2>0. /\ flow'.op = flow.op /\ flow'.pass = flow.pass /\ flow'.kdf = flow.kdf
        /\ flow.op \in {"init", "init-sync", "enable"} /\ cloud' = cloud
        /\ flow'.stage \in {"finish", "push"}
    BY <1>0, <1>5, GotoKeepsRest DEF AddVaultKeys, FlowShape, NoFlow
  <2>1. \A s \in stored' : s.vault \subseteq {[pass |-> ThePass, kdf |-> "argon2id"]}
    <3>1. CASE stored = {}
      BY <1>5, <3>1 DEF AddVaultKeys
    <3>2. CASE stored # {}
      <4>1. stored' = {[s EXCEPT !.vault = {[pass |-> ThePass, kdf |-> "argon2id"]}] :
                         s \in stored}
        BY <1>5, <3>2 DEF AddVaultKeys
      <4>2. \A s \in stored : \A V : [s EXCEPT !.vault = V].vault = V
        BY DEF KeyTypeOK, Opt
      <4> QED
        BY <4>1, <4>2
    <3> QED
      BY <3>1, <3>2
  <2>2. creds' \subseteq creds \cup {[pass |-> ThePass, kdf |-> "argon2id"]}
    BY <1>5 DEF AddVaultKeys
  <2>3. flow.kdf = "none"
    BY <2>0 DEF FlowShape
  <2>4. ~NotYetUpgraded'
    BY <2>0 DEF NotYetUpgraded
  <2> QED
    BY <2>0, <2>1, <2>2, <2>3, <2>4, StrongReplaced
<1>6. CASE ImportVault
  <2>1. NoneWeaker /\ UNCHANGED <<stored, creds>>
    BY <1>6 DEF ImportVault, NoneWeaker
  <2>2. /\ flow'.op = flow.op /\ flow'.pass = flow.pass /\ flow'.kdf = flow.kdf
        /\ flow.stage = "import"
        /\ flow'.stage = (IF flow.op = "recover" THEN "upgrade" ELSE "persist")
    BY <1>6, GotoKeepsRest DEF ImportVault
  <2>3. NotYetUpgraded' = NotYetUpgraded
    BY <2>2 DEF NotYetUpgraded
  <2> QED
    BY <2>1, <2>2, <2>3, StrongStays
<1>7. CASE PersistKeys
  <2>1. /\ flow'.op = flow.op /\ flow'.pass = flow.pass /\ flow'.kdf = flow.kdf
        /\ flow.op \in {"replace", "merge"} /\ UNCHANGED <<cloud, creds>>
        /\ flow'.stage \in {"push", "upgrade"}
    BY <1>0, <1>7, GotoKeepsRest DEF PersistKeys, FlowShape, NoFlow
  <2>2. stored' = {[db |-> k, vault |-> {TheKey}] : k \in mem}
    BY <1>7 DEF PersistKeys
  <2>3. ThePass' = ThePass /\ TheKey' = TheKey /\ NotYetUpgraded'
    BY <2>1, SamePass DEF TheKey, NotYetUpgraded
  <2>4. \A s \in stored' : \A v \in s.vault : v = TheKey'
    BY <2>2, <2>3
  <2> QED
    BY <2>1, <2>3, <2>4 DEF VaultKeysAreStrong
<1>8. CASE FlowPush
  <2>0. /\ flow.op \in {"init", "init-sync", "enable", "merge"} /\ flow.stage = "push"
        /\ ThePass \in Passphrases /\ UNCHANGED <<stored, creds>>
    BY <1>0, <1>8, FlowHasOnePass DEF FlowPush, FlowShape, NoFlow
  <2>1. CASE flow.op = "merge"
    <3>1. mem # {}
      BY <2>0, <2>1 DEF KeysFollowData
    <3>2. /\ cloud' = [cloud EXCEPT ![ThePass] = [kdf |-> flow.kdf, has |-> disk.has]]
          /\ flow'.op = flow.op /\ flow'.pass = flow.pass /\ flow'.kdf = flow.kdf
          /\ flow'.stage = "upgrade"
      BY <1>8, <2>1, <3>1, MishapIsCounted, GotoKeepsRest DEF FlowPush
    <3>3. ThePass' = ThePass /\ TheKey' = TheKey
      BY <3>2, SamePass DEF TheKey
    <3>4. cloud'[ThePass].kdf = flow.kdf
      BY <2>0, <3>2 DEF KeyTypeOK
    <3>5. NotYetUpgraded /\ NotYetUpgraded'
      BY <2>0, <2>1, <3>2 DEF NotYetUpgraded
    <3> QED
      BY <2>0, <2>1, <3>2, <3>3, <3>4, <3>5 DEF VaultKeysAreStrong
  <2>2. CASE flow.op # "merge"
    <3>1. /\ flow'.op = flow.op /\ flow'.pass = flow.pass /\ flow'.kdf = flow.kdf
          /\ flow'.stage = "finish"
      BY <1>8, <2>2, MishapIsCounted, GotoKeepsRest DEF FlowPush
    <3>2. NoneWeaker
      BY <1>8, <2>0, <2>2, MishapIsCounted DEF FlowPush, NoneWeaker, KeyTypeOK
    <3>3. NotYetUpgraded' = NotYetUpgraded
      BY <2>0, <2>2, <3>1 DEF NotYetUpgraded
    <3> QED
      BY <2>0, <2>2, <3>1, <3>2, <3>3, StrongStays
  <2> QED
    BY <2>1, <2>2
<1>9. CASE Upgrade
  <2>0. /\ flow.op \in {"recover", "replace", "merge"} /\ flow.stage = "upgrade"
        /\ ThePass \in Passphrases /\ UNCHANGED <<stored, creds>>
        /\ flow'.op = flow.op /\ flow'.pass = flow.pass /\ flow'.kdf = flow.kdf
        /\ NotYetUpgraded
    BY <1>0, <1>9, FlowHasOnePass, GotoKeepsRest DEF Upgrade, FlowShape, NoFlow, NotYetUpgraded
  <2>1. ThePass' = ThePass /\ TheKey' = TheKey
    BY <2>0, SamePass DEF TheKey
  <2>2. CASE flow'.stage = "rekey"
    <3>1. cloud' = [cloud EXCEPT ![ThePass] = [kdf |-> "argon2id", has |-> flow.has]]
      BY <1>9, <2>2, GotoKeepsRest DEF Upgrade
    <3>2. cloud'[ThePass].kdf = "argon2id"
      BY <2>0, <3>1 DEF KeyTypeOK
    <3>3. NotYetUpgraded'
      BY <2>0, <2>2 DEF NotYetUpgraded
    <3> QED
      BY <2>0, <2>1, <2>2, <3>2, <3>3 DEF VaultKeysAreStrong
  <2>3. CASE flow'.stage # "rekey"
    <3>1. flow'.stage = "finish" /\ flow.kdf = "argon2id" /\ cloud' = cloud
      BY <1>9, <2>3, MishapIsCounted, GotoKeepsRest DEF Upgrade
    <3>2. ~NotYetUpgraded'
      BY <2>0, <3>1 DEF NotYetUpgraded
    <3>3. \A s \in stored' : s.vault \subseteq {[pass |-> ThePass, kdf |-> "argon2id"]}
      BY <2>0, <3>1 DEF VaultKeysAreStrong, TheKey
    <3> QED
      BY <2>0, <3>1, <3>2, <3>3, StrongReplaced
  <2> QED
    BY <2>2, <2>3
<1>10. CASE Rekey
  <2>1. /\ flow.op \in {"recover", "replace", "merge"} /\ flow.stage = "rekey"
        /\ flow'.op = flow.op /\ flow'.pass = flow.pass /\ flow'.kdf = "argon2id"
        /\ flow'.stage = "finish" /\ UNCHANGED <<cloud, creds>>
    BY <1>0, <1>10 DEF Rekey, FlowShape, NoFlow, KeyTypeOK
  <2>2. stored' = {[s EXCEPT !.vault = {[pass |-> ThePass, kdf |-> "argon2id"]}] : s \in stored}
    BY <1>10 DEF Rekey
  <2>3. \A s \in stored : \A V : [s EXCEPT !.vault = V].vault = V
    BY DEF KeyTypeOK, Opt
  <2>4. \A s \in stored' : s.vault \subseteq {[pass |-> ThePass, kdf |-> "argon2id"]}
    BY <2>2, <2>3
  <2>5. ~NotYetUpgraded'
    BY <2>1 DEF NotYetUpgraded
  <2> QED
    BY <2>1, <2>4, <2>5, StrongReplaced
<1>11. CASE Finish
  <2>1. flow' = NoFlow /\ UNCHANGED <<stored, cloud>> /\ flow.stage = "finish"
    BY <1>11 DEF Finish
  <2>2. \A v \in creds' : v.kdf = "argon2id"
    BY <1>11, <2>1 DEF Finish, VaultKeysAreStrong, TheKey
  <2>3. ~NotYetUpgraded /\ ~NotYetUpgraded'
    BY <2>1 DEF NotYetUpgraded, NoFlow
  <2>4. \A s \in stored' : \A v \in s.vault : Strong(v)'
    BY <2>1, <2>3 DEF VaultKeysAreStrong, Strong
  <2> QED
    BY <2>1, <2>2, <2>3, <2>4 DEF VaultKeysAreStrong, NoFlow
<1> QED
  BY <1>1, <1>2, <1>3, <1>4, <1>5, <1>6, <1>7, <1>8, <1>9, <1>10, <1>11 DEF FlowStep

\* Any other step, when nothing goes wrong.
LEMMA RestKeepsStrong ==
    ASSUME KeyTypeOK, FlowShape, VaultKeysAreStrong, keyMishaps' = 0,
           \/ LoadPage \/ Hydrated \/ ClosePage \/ AddsFeed \/ Push \/ Pull \/ DisableSync
           \/ StartWipe \/ StepFails
           \/ \E p \in Passphrases :
                 \/ UpgradedElsewhere(p) \/ StartNew(p) \/ StartRecovery(p) \/ StartReplace(p)
                 \/ StartMerge(p) \/ StartEnable(p)
    PROVE  VaultKeysAreStrong'
<1>1. CASE LoadPage
  <2>1. flow = NoFlow /\ ~NotYetUpgraded
    BY <1>1 DEF LoadPage, FlowShape, NotYetUpgraded, NoFlow
  <2>2. \A s \in stored : \A v \in s.vault : v.kdf = "argon2id"
    BY <2>1 DEF VaultKeysAreStrong, Strong
  <2>3. \A v \in creds' : v.kdf = "argon2id"
    BY <1>1, <2>2 DEF LoadPage, VaultKeysAreStrong
  <2>4. UNCHANGED <<stored, cloud, flow>>
    BY <1>1 DEF LoadPage
  <2> QED
    BY <2>3, <2>4 DEF VaultKeysAreStrong, NotYetUpgraded, Strong, TheKey, ThePass
<1>2. CASE Hydrated \/ AddsFeed \/ Pull
  <2>1. UNCHANGED <<stored, cloud, flow, creds>>
    BY <1>2 DEF Hydrated, AddsFeed, Pull
  <2> QED
    BY <2>1 DEF VaultKeysAreStrong, NotYetUpgraded, Strong, TheKey, ThePass
<1>3. CASE ClosePage
  <2>1. flow = NoFlow /\ flow' = NoFlow /\ creds' = {} /\ UNCHANGED <<stored, cloud>>
    BY <1>3, MishapIsCounted DEF ClosePage
  <2> QED
    BY <2>1 DEF VaultKeysAreStrong, NotYetUpgraded, Strong, TheKey, ThePass, NoFlow
<1>4. CASE Push
  <2>1. PICK v \in creds : cloud' = [cloud EXCEPT ![v.pass] = [kdf |-> v.kdf, has |-> disk.has]]
    BY <1>4 DEF Push
  <2>2. v \in VaultKey /\ v.kdf = "argon2id"
    BY StoredVaultKeys DEF VaultKeysAreStrong
  <2>3. NoneWeaker
    BY <2>1, <2>2 DEF NoneWeaker, KeyTypeOK, VaultKey
  <2>4. UNCHANGED <<stored, creds, flow>>
    BY <1>4 DEF Push
  <2>5. NotYetUpgraded' = NotYetUpgraded
    BY <2>4 DEF NotYetUpgraded
  <2> QED
    BY <2>3, <2>4, <2>5, StrongStays
<1>5. CASE DisableSync
  <2>1. stored' = {[s EXCEPT !.vault = {}] : s \in stored} /\ creds' = {} /\ flow = NoFlow /\ flow' = flow
    BY <1>5 DEF DisableSync
  <2>2. \A s \in stored : \A V : [s EXCEPT !.vault = V].vault = V
    BY DEF KeyTypeOK, Opt
  <2>3. \A s \in stored' : s.vault = {}
    BY <2>1, <2>2
  <2> QED
    BY <2>1, <2>3 DEF VaultKeysAreStrong, NoFlow
<1>6. CASE StartWipe
  <2>1. flow = NoFlow /\ UNCHANGED <<stored, cloud, creds>> /\ flow'.op = "wipe" /\ flow'.stage = "cleanup"
    BY <1>6 DEF StartWipe, NoFlow
  <2>2. ~NotYetUpgraded /\ ~NotYetUpgraded'
    BY <2>1 DEF NotYetUpgraded, NoFlow
  <2> QED
    BY <2>1, <2>2 DEF VaultKeysAreStrong, Strong
<1>7. CASE StepFails
  BY <1>7, MishapIsCounted DEF StepFails
<1>8. ASSUME NEW p \in Passphrases, UpgradedElsewhere(p) PROVE VaultKeysAreStrong'
  BY <1>8, MishapIsCounted DEF UpgradedElsewhere
<1>9. ASSUME NEW p \in Passphrases,
             \/ StartNew(p) \/ StartRecovery(p) \/ StartReplace(p) \/ StartMerge(p)
             \/ StartEnable(p)
      PROVE  VaultKeysAreStrong'
  <2>1. flow = NoFlow /\ UNCHANGED <<stored, cloud, creds>>
    BY <1>9 DEF StartNew, StartRecovery, StartReplace, StartMerge, StartEnable
  <2>2. /\ flow'.stage \in {"cleanup", "delete", "enable"} /\ flow'.pass = {p}
        /\ flow'.kdf = cloud[p].kdf
    BY <1>9 DEF StartNew, StartRecovery, StartReplace, StartMerge, StartEnable, Begin
  <2>3. ThePass' = p
    BY <2>2, GivenPass
  <2>4. ~NotYetUpgraded /\ ~NotYetUpgraded'
    BY <2>1, <2>2 DEF NotYetUpgraded, NoFlow
  <2> QED
    BY <2>1, <2>2, <2>3, <2>4 DEF VaultKeysAreStrong, Strong
<1> QED
  BY <1>1, <1>2, <1>3, <1>4, <1>5, <1>6, <1>7, <1>8, <1>9

-----------------------------------------------------------------------------
(* The invariant and what follows from it.                                 *)

\* Every step keeps the invariant.
LEMMA NextKeepsKeyInv ==
    ASSUME KeyInv, [KeyNext]_keyVars
    PROVE  KeyInv'
<1> USE DEF KeyInv
<1>1. KeyTypeOK' /\ FlowShape'
  BY NextKeepsShape
<1>2. KeysFollowData'
  BY NextFollowsData
<1>3. OnboardingHasReason'
  BY NextHasReason
<1>4. ASSUME keyMishaps' = 0 PROVE VaultKeysAreStrong'
  <2>1. VaultKeysAreStrong
    BY <1>4, MishapsAreNotForgotten
  <2>2. CASE FlowStep
    BY <1>4, <2>1, <2>2, FlowStepKeepsStrong
  <2>3. CASE UNCHANGED keyVars
    BY <2>1, <2>3 DEF keyVars, VaultKeysAreStrong, NotYetUpgraded, Strong, TheKey, ThePass
  <2>4. CASE KeyNext /\ ~FlowStep
    BY <1>4, <2>1, <2>4, RestKeepsStrong DEF KeyNext
  <2> QED
    BY <2>2, <2>3, <2>4
<1> QED
  BY <1>1, <1>2, <1>3, <1>4

\* The types, the shape of every flow, the coupling of key and data while flows and
\* failures go on, and the strength of the vault keys hold throughout.
THEOREM KeyInvariant == KeySpec => []KeyInv
<1>1. KeyInit => KeyInv
  BY InitKeyInv
<1>2. KeyInv /\ [KeyNext]_keyVars => KeyInv'
  BY NextKeepsKeyInv
<1> QED
  BY <1>1, <1>2, PTL DEF KeySpec

\* Key-data coupling (key-manager.ts): whatever flow was begun, failed or was cut short by
\* a closed page, the stored key decrypts the feeds between flows, and the database is
\* open with it, unless a switch ended between its import and its persisting of the keys.
THEOREM StoredKeyOpensTheData == KeySpec => []KeysOpenData
<1>1. KeyInv => KeysOpenData
  BY DEF KeyInv, KeysFollowData, Coupled, DbKeys, Tears, KeysOpenData, Resting, NoFlow
<1> QED
  BY <1>1, KeyInvariant, PTL

\* When no step failed, no flow was cut short and no other device touched the vault, the
\* vault key that every flow leaves behind is the one the server's vault is under.
THEOREM StoredKeyOpensTheVault == KeySpec => []StoredKeyOpensVault
<1>1. ASSUME KeyInv, Resting, keyMishaps = 0, NEW s \in stored, NEW v \in s.vault,
             cloud[v.pass] # NoVault
      PROVE  cloud[v.pass].kdf = v.kdf
  <2>1. ~NotYetUpgraded
    BY <1>1 DEF Resting, NotYetUpgraded, NoFlow
  <2>2. v.kdf = "argon2id" /\ cloud[v.pass].kdf # "pbkdf2"
    BY <1>1, <2>1 DEF KeyInv, VaultKeysAreStrong, Strong
  <2>3. v.pass \in Passphrases
    BY <1>1, StoredVaultKeys DEF KeyInv, VaultKey
  <2> QED
    BY <1>1, <2>2, <2>3, VaultHasKdf DEF KeyInv
<1>2. KeyInv => StoredKeyOpensVault
  BY <1>1 DEF StoredKeyOpensVault
<1> QED
  BY <1>2, KeyInvariant, PTL

\* ADR 018: once the onboarding is complete, no flow, failure or closed page takes a vault
\* off the server; a wipe does, and turning sync off.
THEOREM VaultsOutliveTheFlows == KeySpec => OnboardedVaultsSurvive
<1> DEFINE Survives == \A p \in Passphrases :
                         onboarded /\ cloud[p] # NoVault /\ cloud'[p] = NoVault
                         => flow.op = "wipe" \/ (creds # {} /\ creds' = {})
<1>1. ASSUME KeyInv, KeyNext, NEW p \in Passphrases, onboarded, cloud[p] # NoVault,
             cloud'[p] = NoVault
      PROVE  flow.op = "wipe" \/ (creds # {} /\ creds' = {})
  <2> USE DEF KeyInv
  <2>1. CASE Cleanup
    <3>1. stored # {} /\ flow.stage = "cleanup"
      BY <1>1, <2>1 DEF Cleanup, FlowAt
    <3>2. flow.op \in {"init", "init-sync", "wipe"}
      BY <1>1, <3>1 DEF FlowShape, KeyTypeOK, NoFlow
    <3>3. boot \notin {"needs-onboarding", "reset"}
      BY <1>1, <3>1 DEF OnboardingHasReason
    <3> QED
      BY <1>1, <3>1, <3>2, <3>3 DEF FlowShape
  <2>2. CASE DisableSync
    BY <2>2 DEF DisableSync
  <2>3. CASE Push
    <3>1. PICK v \in creds : cloud' = [cloud EXCEPT ![v.pass] = [kdf |-> v.kdf, has |-> disk.has]]
      BY <2>3 DEF Push
    <3>2. v.kdf # "none"
      BY <1>1, StoredVaultKeys DEF VaultKey
    <3> QED
      BY <1>1, <3>1, <3>2 DEF KeyTypeOK, NoVault
  <2>4. CASE FlowPush
    <3>1. flow.op = "merge" => flow.kdf # "none"
      BY <1>1 DEF FlowShape
    <3> QED
      BY <1>1, <2>4, <3>1 DEF FlowPush, KeyTypeOK, NoVault
  <2>5. CASE Upgrade
    BY <1>1, <2>5 DEF Upgrade, KeyTypeOK, NoVault
  <2>6. ASSUME NEW q \in Passphrases, UpgradedElsewhere(q) PROVE FALSE
    BY <1>1, <2>6 DEF UpgradedElsewhere, KeyTypeOK, NoVault
  <2>7. CASE cloud' = cloud
    BY <1>1, <2>7
  <2>8. \/ Cleanup \/ DisableSync \/ Push \/ FlowPush \/ Upgrade \/ cloud' = cloud
        \/ \E q \in Passphrases : UpgradedElsewhere(q)
    BY <1>1 DEF KeyNext, FlowStep, LoadPage, Hydrated, ClosePage, AddsFeed, Pull, StartNew,
       StartRecovery, StartReplace, StartMerge, StartEnable, StartWipe, DeleteDatabase, OpenFresh,
       StoreKeys, AddVaultKeys, ImportVault, PersistKeys, Rekey, Finish, StepFails
  <2> QED
    BY <2>1, <2>2, <2>3, <2>4, <2>5, <2>6, <2>7, <2>8
<1>2. KeyInv /\ [KeyNext]_keyVars => [Survives]_keyVars
  BY <1>1
<1> QED
  BY <1>2, KeyInvariant, PTL DEF KeySpec, OnboardedVaultsSurvive
================================================================================
