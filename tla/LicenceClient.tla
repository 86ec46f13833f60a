----------------------------- MODULE LicenceClient -----------------------------
(***************************************************************************)
(* The licence in the browser, composed with the server of Licences: the   *)
(* store that knows the tier (src/src/stores/license-store.ts), the forms   *)
(* that save a token (components/billing/license-token-input.tsx,           *)
(* settings/license-token-paste-form.tsx), the pages that fetch one         *)
(* (pages/billing-success.tsx, billing-issued.tsx) and the endpoints they   *)
(* call (core/license/verify-handler.ts, retrieve-handler.ts,               *)
(* issue-from-recovery-handler.ts).                                         *)
(*                                                                         *)
(* A token is a key and the expiry that was signed; it never changes.  A    *)
(* check is a token on its way to /api/license/verify and back.             *)
(***************************************************************************)
EXTENDS Licences

CONSTANTS
    Checks,             \* verifications in progress at once
    MaxTabEvents        \* bound: saves, clears and reloads by the user, and
                        \* verifications that the endpoint does not answer

ASSUME ClientAssumption == MaxTabEvents \in Nat

VARIABLES
    token,      \* localStorage: the empty set or one token
    tier,       \* useLicenseStore.tier
    check,      \* the verifications in progress
    signed,     \* tokens that were handed to the customer
    userActs, lostAnswers   \* how much of the bounds is used

tabVars    == <<token, tier, check, signed, userActs, lostAnswers>>
clientVars == <<licenceVars, tabVars>>

Token == [key : Keys, expiry : Nat]

NoCheck == [op |-> "none", token |-> {}, answer |-> "none"]

ClientTypeOK ==
    /\ LicenceTypeOK
    /\ signed \subseteq Token
    /\ token = {} \/ \E t \in signed : token = {t}
    /\ tier \in {"free", "paid"}
    /\ \A c \in Checks :
          \/ check[c] = NoCheck
          \/ /\ check[c].op \in {"refresh", "save"}
             /\ \E t \in signed : check[c].token = {t}
             /\ check[c].answer \in {"none", "valid", "rejected", "unread", "failed"}
    /\ userActs \in Nat /\ lostAnswers \in Nat
    /\ userActs + lostAnswers <= MaxTabEvents

ClientInit ==
    /\ LicenceInit
    /\ token = {} /\ tier = "free" /\ signed = {}
    /\ check = [c \in Checks |-> NoCheck]
    /\ userActs = 0 /\ lostAnswers = 0

-----------------------------------------------------------------------------
(* The endpoints.                                                          *)

\* handleLicenseVerifyRequest: the expiry in the token, then the deny-list; the
\* record is not consulted.
Accepted(t) == t.expiry >= today /\ t.key \notin denied

\* findActiveUnrevokedRecord: the newest record that has not expired and is not
\* revoked, signed anew as it now stands.
Retrievable(earliest) ==
    LET fresh == {k \in index \ denied : record[k].expiry >= earliest}
    IN  {[key |-> k, expiry |-> record[k].expiry] :
            k \in {k \in fresh : \A j \in fresh : record[j].issued <= record[k].issued}}

\* What the page after the checkout gets.
AfterCheckout == Retrievable(today)

\* handleIssueFromRecoveryRequest: the last second does not count, and Stripe must
\* still call the subscription active.
AfterRecovery ==
    {t \in Retrievable(today + 1) :
        plan[record[t.key].sub].status = "active"}

-----------------------------------------------------------------------------
(* The browser.                                                            *)

MoreEvents == userActs + lostAnswers < MaxTabEvents

\* Mutant of BeginRefresh: no token, nothing to do.
BeginRefreshIfStored(c, stored) ==
    IF stored = {}
    THEN UNCHANGED tier /\ check' = [check EXCEPT ![c] = NoCheck]
    ELSE /\ tier' = "paid"
         /\ check' = [check EXCEPT ![c] = [op |-> "refresh", token |-> stored,
                                           answer |-> "none"]]

\* Mutant of BeginRefresh: the tier as the token spells it (no normalizeTier).
BeginRefreshVerbatim(c, stored) ==
    IF stored = {}
    THEN tier' = "free" /\ check' = [check EXCEPT ![c] = NoCheck]
    ELSE /\ tier' = "pro"
         /\ check' = [check EXCEPT ![c] = [op |-> "refresh", token |-> stored,
                                           answer |-> "none"]]

\* refresh, until it awaits the server: the tier is taken from the token.  (Tokens are
\* of one tier; those that say "pro" are normalised to it.)
BeginRefresh(c, stored) ==
    IF stored = {}
    THEN tier' = "free" /\ check' = [check EXCEPT ![c] = NoCheck]
    ELSE /\ tier' = "paid"
         /\ check' = [check EXCEPT ![c] = [op |-> "refresh", token |-> stored,
                                           answer |-> "none"]]

\* Daily, on focus, at boot, or because another tab has changed the token.
Refresh(c) ==
    /\ check[c] = NoCheck
    /\ BeginRefresh(c, token)
    /\ UNCHANGED <<licenceVars, token, signed, userActs, lostAnswers>>

ServerVerifies(c) ==
    /\ check[c].answer = "none" /\ check[c] # NoCheck
    /\ \E t \in check[c].token :
          check' = [check EXCEPT ![c].answer = IF Accepted(t) THEN "valid" ELSE "rejected"]
    /\ UNCHANGED <<licenceVars, token, tier, signed, userActs, lostAnswers>>

\* What the client makes of an answer that is not the endpoint's: without one, or with a
\* 5xx, the check has failed; a 429 of the rate limiter, or a 200 whose body is cut short
\* or is no JSON, reads as an empty object below 500.
NoVerdict == {"failed", "unread"}

\* The network, the function, Redis or something in front of them fails.
VerifyFails(c) ==
    /\ check[c].answer = "none" /\ check[c] # NoCheck
    /\ MoreEvents
    /\ lostAnswers' = lostAnswers + 1
    /\ \E outcome \in NoVerdict : check' = [check EXCEPT ![c].answer = outcome]
    /\ UNCHANGED <<licenceVars, token, tier, signed, userActs>>

\* Mutant of RefreshSettles: a failure clears the token as a rejection does.
RefreshClearsOnFailure(c) ==
    /\ check[c].op = "refresh" /\ check[c].answer # "none"
    /\ IF check[c].answer = "valid"
       THEN tier' = "paid" /\ UNCHANGED token
       ELSE tier' = "free" /\ token' = {}
    /\ check' = [check EXCEPT ![c] = NoCheck]
    /\ UNCHANGED <<licenceVars, signed, userActs, lostAnswers>>

\* Mutant of RefreshSettles: a rejection is taken for a failure.
RefreshKeepsRejected(c) ==
    /\ check[c].op = "refresh" /\ check[c].answer # "none"
    /\ tier' = IF check[c].answer = "valid" THEN "paid" ELSE tier
    /\ check' = [check EXCEPT ![c] = NoCheck]
    /\ UNCHANGED <<licenceVars, token, signed, userActs, lostAnswers>>

\* The rest of refresh.  Any answer below 500 that confirms nothing is taken for a
\* rejection.  The tier is that of the answer, the token that is cleared is the one now
\* stored.
RefreshSettles(c) ==
    /\ check[c].op = "refresh"
    /\ \/ check[c].answer = "valid" /\ tier' = "paid" /\ UNCHANGED token
       \/ check[c].answer \in {"rejected", "unread"} /\ tier' = "free" /\ token' = {}
       \/ check[c].answer = "failed" /\ UNCHANGED <<tier, token>>
    /\ check' = [check EXCEPT ![c] = NoCheck]
    /\ UNCHANGED <<licenceVars, signed, userActs, lostAnswers>>

Act == MoreEvents /\ userActs' = userActs + 1

\* runVerify and handleVerify: the token is stored before it is verified.
SaveToken(c, t) ==
    /\ Act
    /\ check[c] = NoCheck
    /\ \A d \in Checks : check[d].op # "save"
    /\ token' = {t}
    /\ signed' = signed \cup {t}
    /\ check' = [check EXCEPT ![c] = [op |-> "save", token |-> {t}, answer |-> "none"]]
    /\ UNCHANGED <<licenceVars, tier, lostAnswers>>

\* billing-success hands what it has retrieved to the form, unless there is a token;
\* on other days the user pastes one they were given.
CheckoutFills(c) == token = {} /\ \E t \in AfterCheckout : SaveToken(c, t)
Paste(c)         == \E t \in signed : SaveToken(c, t)

\* The rest of it: a token not confirmed, for whatever reason, is taken back; the tier
\* is left to the next refresh.
SaveSettles(c) ==
    /\ check[c].op = "save"
    /\ \/ /\ check[c].answer = "valid"
          /\ BeginRefresh(c, token)
          /\ UNCHANGED token
       \/ /\ check[c].answer \in {"rejected", "unread", "failed"}
          /\ token' = {}
          /\ check' = [check EXCEPT ![c] = NoCheck]
          /\ UNCHANGED tier
    /\ UNCHANGED <<licenceVars, signed, userActs, lostAnswers>>

\* billing-issued stores what it is given and refreshes.
Recover(c) ==
    /\ Act
    /\ check[c] = NoCheck
    /\ \E t \in AfterRecovery :
          /\ token' = {t}
          /\ signed' = signed \cup {t}
          /\ BeginRefresh(c, {t})
    /\ UNCHANGED <<licenceVars, lostAnswers>>

\* onClear
Clear(c) ==
    /\ Act
    /\ check[c] = NoCheck
    /\ token' = {}
    /\ BeginRefresh(c, {})
    /\ UNCHANGED <<licenceVars, signed, lostAnswers>>

\* The tab is closed and opened: what was in progress is gone, and boot refreshes.
ReloadTab(c) ==
    /\ Act
    /\ IF token = {}
       THEN tier' = "free" /\ check' = [d \in Checks |-> NoCheck]
       ELSE /\ tier' = "paid"
            /\ check' = [d \in Checks |-> IF d = c THEN [op |-> "refresh", token |-> token,
                                                         answer |-> "none"]
                                          ELSE NoCheck]
    /\ UNCHANGED <<licenceVars, token, signed, lostAnswers>>

CheckStep(c) == ServerVerifies(c) \/ RefreshSettles(c) \/ SaveSettles(c)

ClientNext ==
    \/ LicenceNext /\ UNCHANGED tabVars
    \/ \E c \in Checks :
          \/ Refresh(c) \/ ServerVerifies(c) \/ VerifyFails(c)
          \/ RefreshSettles(c) \/ CheckoutFills(c) \/ Paste(c) \/ SaveSettles(c)
          \/ Recover(c) \/ Clear(c) \/ ReloadTab(c)

\* A verification that is under way ends, and the hook use-license-refresh keeps
\* starting one as long as the tab is open.
ClientFairness ==
    \A c \in Checks : WF_clientVars(Refresh(c)) /\ WF_clientVars(CheckStep(c))

ClientSpec == ClientInit /\ [][ClientNext]_clientVars /\ ClientFairness

-----------------------------------------------------------------------------
(* Properties.                                                             *)

NoneInProgress == \A c \in Checks : check[c] = NoCheck

\* A browser that stays open learns that its licence has ended: a token that is
\* revoked or has expired does not stay in localStorage (the daily refresh).
EndedTokenIsDropped ==
    \A k \in Keys : (\E t \in token : t.key = k /\ ~Accepted(t))
                        ~> (\A t \in token : t.key # k \/ Accepted(t))

\* Whoever has no token ends up without the tier, however the answers of overlapping
\* refreshes are ordered.
NoTokenEndsFree == (token = {}) ~> (token # {} \/ tier = "free")

\* The check in c ends in this step.
Ends(c) == check[c] # NoCheck /\ check'[c] = NoCheck

\* An offline user, or one whose check meets a 5xx, keeps the licence: without an act of
\* the user a token is dropped only by a check that ends on an answer.  Either the token
\* this check asked about is still, at the time of the drop, expired or revoked, or what
\* came back below 500 confirmed nothing; a save that fails also takes its token back.
DropsOnlyAnswered ==
    [][\A t \in token : token' = {} /\ userActs' = userActs
          => \E c \in Checks :
                /\ Ends(c)
                /\ \/ check[c].answer = "rejected" /\ \A r \in check[c].token : ~Accepted(r)
                   \/ check[c].answer = "unread"
                   \/ check[c].op = "save" /\ check[c].answer = "failed"]_clientVars

\* issuer.ts:44-60 adds slack to a renewal because without it "verify.ts rejects the
\* instant the old period lapses and the client's 4xx branch clears the token, so a
\* paying customer drops to Free".  The server should reject no token whose licence it
\* has on record as lasting and not revoked.
RejectsOnlyEnded ==
    [][\A c \in Checks : \A t \in check[c].token :
          check[c].answer = "none" /\ check'[c].answer = "rejected"
          => t.key \in denied \/ record[t.key].expiry < today]_clientVars

\* license-store.ts:16-19: "If the server rejects (revoked, expired, forged), clear the
\* stored token [...] Network errors do NOT clear the token".  A refresh should drop a
\* token only on a rejection.
RefreshDropsOnlyRejected ==
    [][\A t \in token : token' = {} /\ userActs' = userActs
          => \E c \in Checks :
                /\ Ends(c)
                /\ check[c].answer = "rejected" \/ check[c].op = "save"]_clientVars

\* hooks/use-license-refresh.ts:15: "overlapping triggers are safe".  When nothing is in
\* progress, whoever has no token does not have the tier.
TierNeedsToken == NoneInProgress /\ token = {} => tier = "free"
=============================================================================
