------------------------------ MODULE MCServer ------------------------------
(* The parts of the server that share no state, and the pacing of the      *)
(* requests that a browser sends to its proxy, checked in one run: `part`  *)
(* is chosen first and only the module it names takes steps.  The vaults   *)
(* are covered twice, as an object that is migrated and as files on disk.  *)
EXTENDS Licences, Proxy, VaultMigration, FileVault, Pacing, TLC

VARIABLE part

\* Three feeds, two of them of one host.
TwoHosts == <<"a", "a", "b">>

serverVars == <<licenceVars, proxyVars, migrationVars, fileVars, pacingVars, part>>

Init ==
    /\ part \in {"licences", "proxy", "migration", "files", "pace"}
    /\ LicenceInit /\ ProxyInit /\ MigrationInit /\ FileInit /\ PacingInit
    \* One initial state is enough for the parts that stay idle.
    /\ part = "proxy" \/ hosted
    \* One feed is new, the others have been quiet.
    /\ \A f \in FeedSet : feedRecord[f].fetched = IF f = 1 THEN 0 ELSE 1

Next ==
    \/ /\ part = "licences" /\ LicenceNext
       /\ UNCHANGED <<proxyVars, migrationVars, fileVars, pacingVars, part>>
    \/ /\ part = "proxy" /\ ProxyNext
       /\ UNCHANGED <<licenceVars, migrationVars, fileVars, pacingVars, part>>
    \/ /\ part = "migration" /\ MigrationNext
       /\ UNCHANGED <<licenceVars, proxyVars, fileVars, pacingVars, part>>
    \/ /\ part = "files" /\ FileNext
       /\ UNCHANGED <<licenceVars, proxyVars, migrationVars, pacingVars, part>>
    \/ /\ part = "pace" /\ PacingNext
       /\ UNCHANGED <<licenceVars, proxyVars, migrationVars, fileVars, part>>

Spec == Init /\ [][Next]_serverVars

\* Every part keeps its variables in range: a slot, a record, a counter or a
\* file, and a pause, is always one of the values its module names, whatever
\* fails.
ServerTypeOK ==
    LicenceTypeOK /\ ProxyTypeOK /\ MigrationTypeOK /\ FileTypeOK /\ PacingTypeOK

\* Which subscription, key or webhook request is which makes no difference.
Symmetry == Permutations(Keys) \cup Permutations(Handlers) \cup Permutations(Subscriptions)
=============================================================================
