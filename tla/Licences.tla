------------------------------- MODULE Licences -------------------------------
(***************************************************************************)
(* Licences as the server keeps them: Stripe's webhook                      *)
(* (src/src/core/stripe/webhook-handler.ts), the store of events seen       *)
(* (stripe/seen-event-store.ts), the issuer (license/issuer.ts), its storage *)
(* in Redis (license/storage-upstash.ts), and the operator's reissue.       *)
(*                                                                         *)
(* One customer, who may subscribe, cancel and subscribe again.  Stripe     *)
(* delivers an event until it is answered with 200, in any order and        *)
(* perhaps twice.  A delivery runs in a handler; each of its actions is one *)
(* command to Redis, because other function instances work between them.    *)
(***************************************************************************)
EXTENDS Naturals, FiniteSets

CONSTANTS
    Subscriptions,      \* subscriptions of the customer
    Keys,               \* key ids the issuer may generate
    Handlers,           \* webhook requests in progress at once
    NoKey,              \* a handler that has not chosen a key
    Grace,              \* RENEWAL_GRACE_SEC, in units of the clock
    MaxClock,           \* bound on time; a subscription is paid one unit ahead
    MaxMishaps          \* bound: commands to Redis that fail, instances that die, and
                        \* deliveries of an event already answered

ASSUME LicenceAssumption ==
    /\ NoKey \notin Keys
    /\ Grace \in Nat /\ MaxClock \in Nat
    /\ MaxMishaps \in Nat

VARIABLES
    today,      \* now, as Stripe and the server see it
    plan,       \* subscription -> what Stripe knows of it
    emitted,    \* events Stripe has created
    outbox,     \* events Stripe has no 200 for
    seen,       \* event ids marked in Redis
    record,     \* license:record:<key> for the keys that have one
    index,      \* customer:<id>:keys
    denied,     \* license:revoked:<key>
    handler,    \* the webhook requests in progress
    minted,     \* history: <<key, event>>, the licences issued for an event
    doomed,     \* history: keys in the index when Stripe cancelled a subscription
    handlerFaults, redeliveries     \* how much of the bounds is used

redis        == <<seen, record, index, denied>>
stripe       == <<today, plan, emitted>>
licenceVars  == <<stripe, outbox, redis, handler, minted, doomed,
                  handlerFaults, redeliveries>>

Times == 0..(MaxClock + 1)

Event == [type : {"created", "paid", "updated", "deleted"},
          sub : Subscriptions, end : Times]

\* A licence lasts to the end of the period, and a renewed one for Grace longer.
Expiries == 0..(MaxClock + 1 + Grace)

Record == [sub : Subscriptions, issued : Times, expiry : Expiries]

HandlerStages == {"idle", "mark", "issue", "index", "list", "renew", "members", "revoke"}

AtRest == [stage |-> "idle", event |-> {}, sub |-> {}, key |-> NoKey,
         expiry |-> 0, keys |-> {}]

Busy == [stage : HandlerStages \ {"idle"}, event : {{}} \cup {{e} : e \in Event},
         sub : {{s} : s \in Subscriptions}, key : Keys \cup {NoKey},
         expiry : Expiries, keys : SUBSET Keys]

LicenceTypeOK ==
    /\ today \in 0..MaxClock
    /\ plan \in [Subscriptions -> [status : {"none", "active", "cancelled"}, end : Times]]
    /\ emitted \in SUBSET Event
    /\ outbox \in SUBSET emitted
    /\ seen \in SUBSET emitted
    /\ \E known \in SUBSET Keys : record \in [known -> Record]
    /\ index \in SUBSET DOMAIN record
    /\ denied \in SUBSET index
    /\ \A h \in Handlers : handler[h] = AtRest \/ handler[h] \in Busy
    /\ minted \in SUBSET (Keys \X emitted)
    /\ doomed \in SUBSET index
    /\ handlerFaults \in Nat /\ redeliveries \in Nat
    /\ handlerFaults + redeliveries <= MaxMishaps

LicenceInit ==
    /\ today = 0
    /\ plan = [s \in Subscriptions |-> [status |-> "none", end |-> 0]]
    /\ emitted = {} /\ outbox = {} /\ seen = {}
    /\ record = [k \in {} |-> {}] /\ index = {} /\ denied = {}
    /\ handler = [h \in Handlers |-> AtRest]
    /\ minted = {} /\ doomed = {}
    /\ handlerFaults = 0 /\ redeliveries = 0

-----------------------------------------------------------------------------
(* Stripe.                                                                 *)

MoreMishaps == handlerFaults + redeliveries < MaxMishaps

Emit(events) ==
    /\ emitted' = emitted \cup events
    /\ outbox' = outbox \cup events

\* Checkout completes, and the first invoice is paid (or is one of zero, for a trial).
\* A customer has one subscription at a time.
Subscribe(s) ==
    /\ plan[s].status = "none"
    /\ \A t \in Subscriptions : plan[t].status # "active"
    /\ plan' = [plan EXCEPT ![s] = [status |-> "active", end |-> today + 1]]
    /\ Emit({[type |-> t, sub |-> s, end |-> today + 1] : t \in {"created", "paid"}})
    /\ UNCHANGED <<today, redis, handler, minted, doomed, handlerFaults, redeliveries>>

\* The next period is charged.  Stripe retries an event for three days, which is
\* less than any period: the events of the last one are no longer under way.
Charge(s) ==
    /\ plan[s].status = "active"
    /\ today = plan[s].end
    /\ today < MaxClock                      \* the bound lets this period end too
    /\ \A e \in outbox : e.sub # s
    /\ \A h \in Handlers : s \notin handler[h].sub
    /\ plan' = [plan EXCEPT ![s].end = today + 1]
    /\ Emit({[type |-> t, sub |-> s, end |-> today + 1] : t \in {"paid", "updated"}})
    /\ UNCHANGED <<today, redis, handler, minted, doomed, handlerFaults, redeliveries>>

\* The subscription ends.  (A customer.subscription.updated with status
\* "canceled" takes the same path through the handler.)
Cancel(s) ==
    /\ plan[s].status = "active"
    /\ plan' = [plan EXCEPT ![s].status = "cancelled"]
    /\ doomed' = doomed \cup index
    /\ Emit({[type |-> "deleted", sub |-> s, end |-> plan[s].end]})
    /\ UNCHANGED <<today, redis, handler, minted, handlerFaults, redeliveries>>

Tick ==
    /\ today < MaxClock
    /\ today' = today + 1
    /\ UNCHANGED <<plan, emitted, outbox, redis, handler, minted, doomed,
                   handlerFaults, redeliveries>>

-----------------------------------------------------------------------------
(* The webhook: handleStripeWebhook.  While signups are paused it answers   *)
(* 503 before it has touched anything, which is a delivery that never was.  *)

Deliver(h, e) ==
    /\ handler[h] = AtRest
    /\ e \in emitted
    /\ IF e \in outbox THEN UNCHANGED redeliveries
       ELSE MoreMishaps /\ redeliveries' = redeliveries + 1
    /\ handler' = [handler EXCEPT ![h] =
                     [AtRest EXCEPT !.stage = "mark", !.event = {e}, !.sub = {e.sub}]]
    /\ UNCHANGED <<stripe, outbox, redis, minted, doomed, handlerFaults>>

\* The stage in which dispatchEvent begins.
FirstStage(e) ==
    CASE e.type = "created" -> "issue"
      [] e.type \in {"paid", "updated"} -> "list"
      [] e.type = "deleted" -> "members"

Proceed(h, change) == handler' = [handler EXCEPT ![h] = change]

\* The request is answered with 200.
Answer(h) ==
    /\ Proceed(h, AtRest)
    /\ outbox' = outbox \ handler[h].event

\* Mutant of MarkSeen: the event is looked up and marked without NX.
MarkSeenAlways(h) ==
    /\ handler[h].stage = "mark"
    /\ \E e \in handler[h].event :
          /\ seen' = seen \cup {e}
          /\ Proceed(h, [handler[h] EXCEPT !.stage = FirstStage(e), !.expiry = e.end])
          /\ UNCHANGED outbox
    /\ UNCHANGED <<stripe, record, index, denied, minted, doomed, handlerFaults, redeliveries>>

\* markSeenIfNew: SET NX.  An event seen before is answered at once.
MarkSeen(h) ==
    /\ handler[h].stage = "mark"
    /\ \E e \in handler[h].event :
          IF e \in seen
          THEN Answer(h) /\ UNCHANGED seen
          ELSE /\ seen' = seen \cup {e}
               /\ Proceed(h, [handler[h] EXCEPT !.stage = FirstStage(e), !.expiry = e.end])
               /\ UNCHANGED outbox
    /\ UNCHANGED <<stripe, record, index, denied, minted, doomed, handlerFaults, redeliveries>>

\* mintAndPersist, first command of put: a record under a fresh key.
PutRecord(h) ==
    /\ handler[h].stage = "issue"
    /\ \E k \in Keys \ DOMAIN record, s \in handler[h].sub :
          /\ record' = [x \in DOMAIN record \cup {k} |->
                          IF x = k THEN [sub |-> s, issued |-> today,
                                         expiry |-> handler[h].expiry]
                          ELSE record[x]]
          /\ minted' = minted \cup {<<k, e>> : e \in handler[h].event}
          /\ Proceed(h, [handler[h] EXCEPT !.stage = "index", !.key = k])
    /\ UNCHANGED <<stripe, outbox, seen, index, denied, doomed, handlerFaults, redeliveries>>

\* Second command of put: SADD to the customer's index.
AddToIndex(h) ==
    /\ handler[h].stage = "index"
    /\ index' = index \cup {handler[h].key}
    /\ Answer(h)
    /\ UNCHANGED <<stripe, seen, record, denied, minted, doomed, handlerFaults, redeliveries>>

\* recordRenewal: the record of the subscription, or a new one if the renewal
\* overtook the creation.  Revocation does not touch a record's status, so one on
\* the deny-list is found as well.  What is read of the record is not used later,
\* so the reads of listByCustomer are one action.
FindRecord(h) ==
    /\ handler[h].stage = "list"
    /\ \/ \E k \in index :
             /\ record[k].sub \in handler[h].sub
             /\ Proceed(h, [handler[h] EXCEPT !.stage = "renew", !.key = k,
                                              !.expiry = @ + Grace])
       \/ /\ \A k \in index : record[k].sub \notin handler[h].sub
          /\ Proceed(h, [handler[h] EXCEPT !.stage = "issue", !.expiry = @ + Grace])
    /\ UNCHANGED <<stripe, outbox, redis, minted, doomed, handlerFaults, redeliveries>>

\* Mutant of PutRenewal: the grace is added to what was stored.
PutRenewalFromStored(h) ==
    /\ handler[h].stage = "renew"
    /\ record' = [record EXCEPT ![handler[h].key].expiry = @ + Grace + 1]
    /\ Answer(h)
    /\ UNCHANGED <<stripe, seen, index, denied, minted, doomed, handlerFaults, redeliveries>>

\* Mutant of PutRenewal: the record is stored again with the expiry it had.
PutRenewalUnchanged(h) ==
    /\ handler[h].stage = "renew"
    /\ Answer(h)
    /\ UNCHANGED <<stripe, redis, minted, doomed, handlerFaults, redeliveries>>

\* put of the renewed record; its SADD finds the key in the index.
PutRenewal(h) ==
    /\ handler[h].stage = "renew"
    /\ record' = [record EXCEPT ![handler[h].key].expiry = handler[h].expiry]
    /\ Answer(h)
    /\ UNCHANGED <<stripe, seen, index, denied, minted, doomed, handlerFaults, redeliveries>>

\* revokeAllForCustomer: SMEMBERS, then one SET for each key.
ListKeys(h) ==
    /\ handler[h].stage = "members"
    /\ IF index = {}
       THEN Answer(h)
       ELSE /\ Proceed(h, [handler[h] EXCEPT !.stage = "revoke", !.keys = index])
            /\ UNCHANGED outbox
    /\ UNCHANGED <<stripe, redis, minted, doomed, handlerFaults, redeliveries>>

\* Mutant of RevokeKey: the first key revoked ends the loop.
RevokeFirstKey(h) ==
    /\ handler[h].stage = "revoke"
    /\ \E k \in handler[h].keys : denied' = denied \cup {k}
    /\ Answer(h)
    /\ UNCHANGED <<stripe, seen, record, index, minted, doomed, handlerFaults, redeliveries>>

RevokeKey(h) ==
    /\ handler[h].stage = "revoke"
    /\ \E k \in handler[h].keys :
          /\ denied' = denied \cup {k}
          /\ IF handler[h].keys = {k}
             THEN Answer(h)
             ELSE Proceed(h, [handler[h] EXCEPT !.keys = @ \ {k}]) /\ UNCHANGED outbox
    /\ UNCHANGED <<stripe, seen, record, index, minted, doomed, handlerFaults, redeliveries>>

\* A command fails and the answer is 500, or the instance dies: Stripe keeps the event.
HandlerFails(h) ==
    /\ handler[h] # AtRest
    /\ MoreMishaps
    /\ handlerFaults' = handlerFaults + 1
    /\ Proceed(h, AtRest)
    /\ UNCHANGED <<stripe, outbox, redis, minted, doomed, redeliveries>>

\* reissueLicenseFor: the operator mints another licence after the newest one,
\* which expires a year from now.
Reissue(h) ==
    /\ handler[h] = AtRest
    /\ Keys # DOMAIN record                  \* of the bound, a key is left
    /\ \E k \in index :
          /\ \A j \in index : record[j].issued <= record[k].issued
          /\ Proceed(h, [AtRest EXCEPT !.stage = "issue", !.sub = {record[k].sub},
                                     !.expiry = today + 1])
    /\ UNCHANGED <<stripe, outbox, redis, minted, doomed, handlerFaults, redeliveries>>

-----------------------------------------------------------------------------
HandlerStep(h) ==
    \/ MarkSeen(h) \/ PutRecord(h) \/ AddToIndex(h) \/ FindRecord(h)
    \/ PutRenewal(h) \/ ListKeys(h) \/ RevokeKey(h)

StripeStep ==
    \/ \E s \in Subscriptions : Subscribe(s) \/ Charge(s) \/ Cancel(s)
    \/ Tick

LicenceNext ==
    \/ StripeStep
    \/ \E h \in Handlers :
          \/ \E e \in emitted : Deliver(h, e)
          \/ HandlerStep(h)
          \/ HandlerFails(h)
          \/ Reissue(h)

LicenceSpec == LicenceInit /\ [][LicenceNext]_licenceVars

-----------------------------------------------------------------------------
(* Properties.                                                             *)

\* Stripe has an answer for everything it sent and nothing is in progress.
Delivered == outbox = {} /\ \A h \in Handlers : handler[h] = AtRest

Usable(k) == k \in index \ denied

\* However often Stripe delivers an event, and on however many instances at once,
\* at most one licence is issued for it (markSeenIfNew before dispatch).
MintedOnce ==
    \A a, b \in minted : a[2] = b[2] => a[1] = b[1]

\* An answered event has had its whole effect when nothing in Redis has failed.
Settled == Delivered /\ handlerFaults = 0

Unserved == \E s \in Subscriptions :
             /\ plan[s].status = "active"
             /\ \A t \in Subscriptions : plan[t].status # "cancelled"
             /\ \A k \in DOMAIN record :
                   ~(Usable(k) /\ record[k].sub = s /\ record[k].expiry >= plan[s].end)

\* When every event has been answered and no command failed, a customer who pays and has
\* never cancelled holds a usable licence that lasts to the end of the paid period,
\* whichever of the creation and the invoices overtook the other (recordRenewal).
PaidHasLicence == Settled => ~Unserved

\* When every event has been answered and no command failed, no licence a customer held
\* when they cancelled is usable (handleSubscriptionDeleted revokes all of them).
CancelledLosesLicences == Settled => doomed \subseteq denied

\* webhook-handler.ts:240: "Errors become 500 so Stripe retries with exponential backoff."
\* A customer who pays has a licence when Stripe has its answer, whatever failed on the
\* way.
RetriesRepair == Delivered => ~Unserved

\* docs/features/014-stripe-trial.md:39: after a cancellation "issuer.revoke marks every
\* license for that customer as revoked".  A customer without a subscription holds no
\* usable licence when every event has been answered.
CancelledHoldsNothing ==
    /\ Delivered
    /\ \E s \in Subscriptions : plan[s].status = "cancelled"
    /\ \A s \in Subscriptions : plan[s].status # "active"
    => \A k \in index : ~Usable(k)
=============================================================================
