------------------------------ MODULE MCClient ------------------------------
(* What the browser must finish, checked in one run: `part` is chosen first *)
(* and only the module it names takes steps.  The licence and the refresh   *)
(* share no state, and in the initial state of neither is an action enabled *)
(* that must eventually be taken, so the idle part is not under an          *)
(* obligation.                                                              *)
EXTENDS FeedRefresh, LicenceClient

VARIABLE part

mcVars == <<vars, clientVars, part>>

MCInit ==
    /\ part \in {"refresh", "licence"}
    /\ Init /\ ClientInit
    \* One initial state is enough for the refresh that stays idle.
    /\ part = "refresh" \/ (row.success = 0 /\ publisher.items = {})

MCNext ==
    \/ part = "refresh" /\ Next /\ UNCHANGED <<clientVars, part>>
    \/ part = "licence" /\ ClientNext /\ UNCHANGED <<vars, part>>

MCSpec == MCInit /\ [][MCNext]_mcVars /\ RefreshFairness /\ ClientFairness
=============================================================================
