----------------------------- MODULE MCBrowser ------------------------------
(* The parts of the browser application that share no state, checked in one *)
(* run: `part` is chosen first and only the module it names takes steps.    *)
EXTENDS KeyVault, ArticleRows, Preferences, Subscriptions

VARIABLE part

browserVars == <<keyVars, rowVars, prefVars, subsVars, part>>

Init ==
    /\ part \in {"keys", "rows", "prefs", "subs"}
    /\ KeyInit /\ ArticleInit /\ PreferencesInit /\ SubscriptionsInit
    \* One initial state is enough for the parts that stay idle.
    /\ part = "keys" \/ cloud[CHOOSE p \in Passphrases : TRUE].kdf = "argon2id"
    /\ part = "rows" \/ table = None
    /\ part = "prefs" \/ (stamp = 0 /\ other.ts = 0)
    /\ part = "subs" \/ (feeds = {} /\ orphans = {})
    \* The other devices have preferences, and so has the vault.
    /\ part = "prefs" => vault.ts = 1 /\ other.ts = 1
    \* Which address is which makes no difference.
    /\ part = "subs" =>
          LET u == CHOOSE u \in Urls : TRUE
          IN  /\ \A f \in feeds : f.url = u
              /\ feeds = {} => orphans \subseteq {u}

Next ==
    \/ /\ part = "keys" /\ KeyNext
       /\ UNCHANGED <<rowVars, prefVars, subsVars, part>>
    \/ /\ part = "rows" /\ ArticleNext
       /\ UNCHANGED <<keyVars, prefVars, subsVars, part>>
    \/ /\ part = "prefs" /\ PreferencesNext
       /\ UNCHANGED <<keyVars, rowVars, subsVars, part>>
    \/ /\ part = "subs" /\ SubscriptionsNext
       /\ UNCHANGED <<keyVars, rowVars, prefVars, part>>

Spec == Init /\ [][Next]_browserVars

\* Every part keeps its variables in range: stored keys, databases, calls in
\* progress, rows, preferences, feeds and folders are always of the forms
\* their modules name.
BrowserTypeOK ==
    /\ KeyTypeOK /\ ArticleTypeOK /\ PreferencesTypeOK /\ SubscriptionsTypeOK
=============================================================================
