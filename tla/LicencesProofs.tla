---------------------------- MODULE LicencesProofs ----------------------------
(***************************************************************************)
(* Proofs about Licences, for every number of subscriptions, keys and       *)
(* webhook requests, however often events are delivered, and about          *)
(* LicenceClient beside it, for every number of checks.                     *)
(***************************************************************************)
EXTENDS LicenceClient, TLAPS

\* The part of the type invariant that most arguments need; InRange, below, has the bounds.
AnyEvent == [type : {"created", "paid", "updated", "deleted"}, sub : Subscriptions, end : Nat]

AnyHandler == [stage : HandlerStages, event : SUBSET AnyEvent, sub : SUBSET Subscriptions,
               key : Keys \cup {NoKey}, expiry : Nat, keys : SUBSET Keys]

AnyRecord == [sub : Subscriptions, issued : Nat, expiry : Nat]

LicenceShape ==
    /\ today \in Nat
    /\ plan \in [Subscriptions -> [status : {"none", "active", "cancelled"}, end : Nat]]
    /\ emitted \subseteq AnyEvent
    /\ outbox \subseteq emitted /\ seen \subseteq emitted
    /\ record \in [DOMAIN record -> AnyRecord]
    /\ index \subseteq DOMAIN record /\ DOMAIN record \subseteq Keys
    /\ handler \in [Handlers -> AnyHandler]
    /\ \A h \in Handlers : handler[h].stage = "index" => handler[h].key \in DOMAIN record
    /\ minted \subseteq Keys \X AnyEvent
    /\ handlerFaults \in Nat

\* A request carries at most one event, which is marked once the request is past the mark;
\* past the mark no two requests carry the same.
MarksExclude ==
    /\ \A h \in Handlers :
          /\ handler[h].event \subseteq emitted
          /\ \A d, e \in handler[h].event : d = e
          /\ handler[h].stage # "mark" => handler[h].event \subseteq seen
    /\ \A g, h \in Handlers :
          g # h /\ handler[g].stage # "mark" /\ handler[h].stage # "mark"
              => handler[g].event \cap handler[h].event = {}

\* No licence has been issued for an event that is not marked, or for one whose request
\* has yet to issue.
NotYetMinted ==
    /\ \A m \in minted : m[2] \in seen
    /\ \A h \in Handlers : handler[h].stage \in {"issue", "list"}
          => \A m \in minted : m[2] \notin handler[h].event

\* A request that will put the key on the deny-list, or an event that will start one.
WillRevoke(k) ==
    \/ \E e \in outbox : e.type = "deleted" /\ e \notin seen
    \/ \E h \in Handlers : \/ handler[h].stage = "members"
                           \/ handler[h].stage = "revoke" /\ k \in handler[h].keys

\* As long as no command fails, every doomed key is denied or will be.
DoomIsComing ==
    /\ doomed \subseteq index
    /\ \A e \in emitted : e.type = "deleted" => plan[e.sub].status = "cancelled"
    /\ handlerFaults = 0 => \A k \in doomed \ denied : WillRevoke(k)

LicenceInv ==
    /\ LicenceShape
    /\ MarksExclude
    /\ NotYetMinted
    /\ MintedOnce
    /\ DoomIsComing

-----------------------------------------------------------------------------
(* Small facts.                                                            *)

\* A webhook instance at rest is one of the states it may be in.
LEMMA IdleIsHandler == AtRest \in AnyHandler
BY DEF AtRest, AnyHandler, HandlerStages

\* The first stage lies behind the mark, and only a deletion begins with the key list.
LEMMA FirstStages ==
    ASSUME NEW e \in AnyEvent
    PROVE  /\ FirstStage(e) \in {"issue", "list", "members"}
           /\ e.type = "deleted" => FirstStage(e) = "members"
BY DEF FirstStage, AnyEvent

\* What a request is made of when it takes a step.
LEMMA HandlersMove ==
    ASSUME LicenceShape, NEW h \in Handlers, NEW c \in AnyHandler, Proceed(h, c)
    PROVE  /\ handler' \in [Handlers -> AnyHandler]
           /\ handler'[h] = c
           /\ \A g \in Handlers : g # h => handler'[g] = handler[g]
BY DEF LicenceShape, Proceed

\* A request that takes a step leaves the shape of everything as it was.
LEMMA MovingKeepsShape ==
    ASSUME LicenceShape, NEW h \in Handlers, NEW c \in AnyHandler, Proceed(h, c),
           UNCHANGED stripe, outbox' \subseteq outbox, seen' \subseteq emitted,
           record' \in [DOMAIN record' -> AnyRecord],
           DOMAIN record \subseteq DOMAIN record', DOMAIN record' \subseteq Keys,
           index' \subseteq DOMAIN record', minted' \subseteq Keys \X AnyEvent,
           handlerFaults' \in Nat,
           c.stage = "index" => c.key \in DOMAIN record'
    PROVE  LicenceShape'
<1>1. /\ handler' \in [Handlers -> AnyHandler] /\ handler'[h] = c
      /\ \A g \in Handlers : g # h => handler'[g] = handler[g]
  BY HandlersMove
<1>2. ASSUME NEW g \in Handlers, handler'[g].stage = "index"
      PROVE  handler'[g].key \in DOMAIN record'
  <2>1. CASE g = h
    BY <1>1, <1>2, <2>1
  <2>2. CASE g # h
    BY <1>1, <1>2, <2>2 DEF LicenceShape
  <2> QED BY <2>1, <2>2
<1> QED BY <1>1, <1>2 DEF LicenceShape, stripe

-----------------------------------------------------------------------------

\* At first there is nothing.
LEMMA InitLicenceInv == ASSUME LicenceInit PROVE LicenceInv
<1>1. LicenceShape
  BY IdleIsHandler DEF LicenceInit, LicenceShape, AtRest
<1>2. MarksExclude
  BY DEF LicenceInit, MarksExclude, AtRest
<1> QED BY <1>1, <1>2 DEF LicenceInit, LicenceInv, NotYetMinted, MintedOnce, DoomIsComing, AtRest

\* Stripe creates events that nobody has seen; a cancellation dooms the keys of now, and
\* its event will start a request.
LEMMA StripeKeepsInv ==
    ASSUME LicenceInv, StripeStep
    PROVE  LicenceInv'
<1>1. UNCHANGED <<redis, handler, minted, handlerFaults>>
  BY DEF StripeStep, Subscribe, Charge, Cancel, Tick
<1>2. LicenceShape' /\ emitted \subseteq emitted' /\ outbox \subseteq outbox'
  <2>1. ASSUME NEW s \in Subscriptions, Subscribe(s)
        PROVE  LicenceShape' /\ emitted \subseteq emitted' /\ outbox \subseteq outbox'
    <3>1. {[type |-> t, sub |-> s, end |-> today + 1] : t \in {"created", "paid"}}
             \subseteq AnyEvent
      BY DEF LicenceInv, LicenceShape, AnyEvent
    <3> QED BY <1>1, <2>1, <3>1 DEF Subscribe, Emit, LicenceInv, LicenceShape, redis
  <2>2. ASSUME NEW s \in Subscriptions, Charge(s)
        PROVE  LicenceShape' /\ emitted \subseteq emitted' /\ outbox \subseteq outbox'
    <3>1. {[type |-> t, sub |-> s, end |-> today + 1] : t \in {"paid", "updated"}}
             \subseteq AnyEvent
      BY DEF LicenceInv, LicenceShape, AnyEvent
    <3> QED BY <1>1, <2>2, <3>1 DEF Charge, Emit, LicenceInv, LicenceShape, redis
  <2>3. ASSUME NEW s \in Subscriptions, Cancel(s)
        PROVE  LicenceShape' /\ emitted \subseteq emitted' /\ outbox \subseteq outbox'
    <3>1. [type |-> "deleted", sub |-> s, end |-> plan[s].end] \in AnyEvent
      BY DEF LicenceInv, LicenceShape, AnyEvent
    <3> QED BY <1>1, <2>3, <3>1 DEF Cancel, Emit, LicenceInv, LicenceShape, redis
  <2>4. CASE Tick
    BY <1>1, <2>4 DEF Tick, LicenceInv, LicenceShape, redis
  <2> QED BY <2>1, <2>2, <2>3, <2>4 DEF StripeStep
<1>3. MarksExclude'
  BY <1>1, <1>2 DEF LicenceInv, MarksExclude, redis
<1>4. NotYetMinted' /\ MintedOnce'
  BY <1>1 DEF LicenceInv, NotYetMinted, MintedOnce, redis
<1>5. DoomIsComing'
  <2>1. CASE Tick
    BY <1>1, <2>1 DEF Tick, LicenceInv, DoomIsComing, WillRevoke, redis
  <2>2. ASSUME NEW s \in Subscriptions, Subscribe(s) \/ Charge(s)
        PROVE  DoomIsComing'
    <3>1. \A e \in emitted' : e.type = "deleted" => plan'[e.sub].status = "cancelled"
      BY <2>2 DEF Subscribe, Charge, Emit, LicenceInv, LicenceShape, DoomIsComing, AnyEvent
    <3>2. doomed' = doomed
      BY <2>2 DEF Subscribe, Charge
    <3> QED BY <1>1, <1>2, <3>1, <3>2 DEF LicenceInv, DoomIsComing, WillRevoke, redis
  <2>3. ASSUME NEW s \in Subscriptions, Cancel(s)
        PROVE  DoomIsComing'
    <3> DEFINE e == [type |-> "deleted", sub |-> s, end |-> plan[s].end]
    <3>1. e \notin emitted /\ e \in outbox' /\ emitted' = emitted \cup {e}
      BY <2>3 DEF Cancel, Emit, LicenceInv, DoomIsComing
    <3>2. \A d \in emitted' : d.type = "deleted" => plan'[d.sub].status = "cancelled"
      BY <2>3, <3>1 DEF Cancel, LicenceInv, LicenceShape, DoomIsComing, AnyEvent
    <3>3. e \notin seen' /\ e.type = "deleted"
      BY <1>1, <3>1 DEF LicenceInv, LicenceShape, redis
    <3>4. doomed' \subseteq index'
      BY <1>1, <2>3 DEF Cancel, LicenceInv, DoomIsComing, redis
    <3> QED BY <3>1, <3>2, <3>3, <3>4 DEF DoomIsComing, WillRevoke
  <2> QED BY <2>1, <2>2, <2>3 DEF StripeStep
<1> QED BY <1>2, <1>3, <1>4, <1>5 DEF LicenceInv

-----------------------------------------------------------------------------

\* A request that goes on with its event, or without one, marks and issues nothing.
LEMMA GoingOnKeepsMarks ==
    ASSUME LicenceInv, NEW h \in Handlers, NEW c \in AnyHandler, Proceed(h, c),
           UNCHANGED <<emitted, seen, minted>>,
           c.event \subseteq handler[h].event, c.stage # "mark",
           handler[h].stage # "mark" \/ c.event = {},
           c.stage \in {"issue", "list"} => handler[h].stage \in {"issue", "list"} \/ c.event = {}
    PROVE  MarksExclude' /\ NotYetMinted' /\ MintedOnce'
<1>1. /\ handler'[h] = c
      /\ \A g \in Handlers : g # h => handler'[g] = handler[g]
  BY HandlersMove DEF LicenceInv
<1>2. MarksExclude'
  <2>1. ASSUME NEW g \in Handlers
        PROVE  /\ handler'[g].event \subseteq emitted'
               /\ \A d, e \in handler'[g].event : d = e
               /\ handler'[g].stage # "mark" => handler'[g].event \subseteq seen'
    BY <1>1 DEF LicenceInv, MarksExclude
  <2>2. ASSUME NEW f \in Handlers, NEW g \in Handlers, f # g,
               handler'[f].stage # "mark", handler'[g].stage # "mark"
        PROVE  handler'[f].event \cap handler'[g].event = {}
    BY <1>1, <2>2 DEF LicenceInv, MarksExclude
  <2> QED BY <2>1, <2>2 DEF MarksExclude
<1>3. NotYetMinted'
  BY <1>1 DEF LicenceInv, NotYetMinted
<1> QED BY <1>2, <1>3 DEF LicenceInv, MintedOnce

\* A request that ends in an answer takes back only events that are marked.
LEMMA AnsweringKeepsDoom ==
    ASSUME LicenceInv, NEW h \in Handlers, Answer(h), handler[h].event \subseteq seen,
           UNCHANGED <<stripe, seen, doomed, handlerFaults>>,
           index \subseteq index', denied \subseteq denied',
           handler[h].stage # "members" \/ index = {},
           handler[h].stage = "revoke" => handler[h].keys \subseteq denied'
    PROVE  DoomIsComing'
<1>1. /\ handler'[h] = AtRest
      /\ \A g \in Handlers : g # h => handler'[g] = handler[g]
  BY HandlersMove, IdleIsHandler DEF Answer, LicenceInv
<1>2. ASSUME handlerFaults = 0, NEW k \in doomed \ denied'
      PROVE  WillRevoke(k)'
  <2>1. WillRevoke(k) /\ k \in index
    BY <1>2 DEF LicenceInv, DoomIsComing
  <2>2. CASE \E e \in outbox : e.type = "deleted" /\ e \notin seen
    BY <2>2 DEF Answer, WillRevoke
  <2>3. CASE \E g \in Handlers : \/ handler[g].stage = "members"
                                 \/ handler[g].stage = "revoke" /\ k \in handler[g].keys
    <3>1. PICK g \in Handlers : \/ handler[g].stage = "members"
                                \/ handler[g].stage = "revoke" /\ k \in handler[g].keys
      BY <2>3
    <3>2. g # h
      BY <1>2, <2>1, <3>1
    <3> QED BY <1>1, <3>1, <3>2 DEF WillRevoke
  <2> QED BY <2>1, <2>2, <2>3 DEF WillRevoke
<1> QED BY <1>2 DEF LicenceInv, DoomIsComing, stripe

\* A request that goes on to a stage that revokes as much as the one it leaves.
LEMMA GoingOnKeepsDoom ==
    ASSUME LicenceInv, NEW h \in Handlers, NEW c \in AnyHandler, Proceed(h, c),
           UNCHANGED <<stripe, outbox, seen, doomed, handlerFaults>>,
           index \subseteq index', denied \subseteq denied',
           handler[h].stage = "members" =>
               c.stage = "members" \/ (c.stage = "revoke" /\ index \subseteq c.keys),
           handler[h].stage = "revoke" =>
               c.stage = "revoke" /\ handler[h].keys \subseteq c.keys \cup denied'
    PROVE  DoomIsComing'
<1>1. /\ handler'[h] = c
      /\ \A g \in Handlers : g # h => handler'[g] = handler[g]
  BY HandlersMove DEF LicenceInv
<1>2. ASSUME handlerFaults = 0, NEW k \in doomed \ denied'
      PROVE  WillRevoke(k)'
  <2>1. WillRevoke(k) /\ k \in index
    BY <1>2 DEF LicenceInv, DoomIsComing
  <2>2. CASE \E e \in outbox : e.type = "deleted" /\ e \notin seen
    BY <2>2 DEF WillRevoke
  <2>3. CASE \E g \in Handlers : \/ handler[g].stage = "members"
                                 \/ handler[g].stage = "revoke" /\ k \in handler[g].keys
    <3>1. PICK g \in Handlers : \/ handler[g].stage = "members"
                                \/ handler[g].stage = "revoke" /\ k \in handler[g].keys
      BY <2>3
    <3>2. CASE g # h
      BY <1>1, <3>1, <3>2 DEF WillRevoke
    <3>3. CASE g = h
      <4>1. \/ c.stage = "members"
            \/ c.stage = "revoke" /\ k \in c.keys
        BY <1>2, <2>1, <3>1, <3>3
      <4> QED BY <1>1, <4>1 DEF WillRevoke
    <3> QED BY <3>2, <3>3
  <2> QED BY <2>1, <2>2, <2>3 DEF WillRevoke
<1> QED BY <1>2 DEF LicenceInv, DoomIsComing, stripe

\* A delivery carries one event, unmarked or not, to a request that was free.
LEMMA DeliverKeepsInv ==
    ASSUME LicenceInv, NEW h \in Handlers, NEW e \in emitted, Deliver(h, e)
    PROVE  LicenceInv'
<1> DEFINE c == [AtRest EXCEPT !.stage = "mark", !.event = {e}, !.sub = {e.sub}]
<1>1. c \in AnyHandler /\ c.stage = "mark" /\ c.event = {e}
  BY IdleIsHandler DEF AnyHandler, HandlerStages, LicenceInv, LicenceShape, AnyEvent
<1>2. Proceed(h, c) /\ handler[h] = AtRest
  BY DEF Deliver, Proceed
<1>3. UNCHANGED <<stripe, outbox, seen, record, index, denied, minted, doomed, handlerFaults>>
  BY DEF Deliver, redis
<1>4. /\ handler' \in [Handlers -> AnyHandler] /\ handler'[h] = c
      /\ \A g \in Handlers : g # h => handler'[g] = handler[g]
  BY <1>1, <1>2, HandlersMove DEF LicenceInv
<1> HIDE DEF c
<1>5. LicenceShape'
  BY <1>1, <1>2, <1>3, MovingKeepsShape DEF LicenceInv, LicenceShape, stripe
<1>6. MarksExclude'
  <2>1. ASSUME NEW g \in Handlers
        PROVE  /\ handler'[g].event \subseteq emitted'
               /\ \A a, b \in handler'[g].event : a = b
               /\ handler'[g].stage # "mark" => handler'[g].event \subseteq seen'
    <3>1. CASE g = h
      BY <1>1, <1>3, <1>4, <3>1 DEF stripe
    <3>2. CASE g # h
      BY <1>3, <1>4, <3>2 DEF LicenceInv, MarksExclude, stripe
    <3> QED BY <3>1, <3>2
  <2>2. ASSUME NEW f \in Handlers, NEW g \in Handlers, f # g,
               handler'[f].stage # "mark", handler'[g].stage # "mark"
        PROVE  handler'[f].event \cap handler'[g].event = {}
    <3>1. f # h /\ g # h
      BY <1>1, <1>4, <2>2
    <3> QED BY <1>4, <2>2, <3>1 DEF LicenceInv, MarksExclude
  <2> QED BY <2>1, <2>2 DEF MarksExclude
<1>7. NotYetMinted' /\ MintedOnce'
  BY <1>1, <1>3, <1>4 DEF LicenceInv, NotYetMinted, MintedOnce
<1>8. DoomIsComing'
  BY <1>1, <1>2, <1>3, GoingOnKeepsDoom DEF AtRest
<1> QED BY <1>5, <1>6, <1>7, <1>8 DEF LicenceInv

\* The first request to mark an event is the only one that goes on with it.
LEMMA MarkSeenKeepsInv ==
    ASSUME LicenceInv, NEW h \in Handlers, MarkSeen(h)
    PROVE  LicenceInv'
<1>1. PICK e \in handler[h].event :
          IF e \in seen
          THEN Answer(h) /\ UNCHANGED seen
          ELSE /\ seen' = seen \cup {e}
               /\ Proceed(h, [handler[h] EXCEPT !.stage = FirstStage(e), !.expiry = e.end])
               /\ UNCHANGED outbox
  BY DEF MarkSeen
<1>2. /\ UNCHANGED <<stripe, record, index, denied, minted, doomed, handlerFaults>>
      /\ handler[h].stage = "mark"
  BY DEF MarkSeen
<1>3. e \in AnyEvent /\ e \in emitted /\ handler[h].event = {e}
  BY DEF LicenceInv, LicenceShape, MarksExclude, AnyHandler
<1>4. CASE e \in seen
  <2>1. Proceed(h, AtRest) /\ outbox' \subseteq outbox /\ seen' = seen /\ Answer(h)
    BY <1>1, <1>4 DEF Answer
  <2>2. AtRest.event = {} /\ AtRest.stage = "idle"
    BY DEF AtRest
  <2>3. LicenceShape'
    BY <1>2, <2>1, <2>2, MovingKeepsShape, IdleIsHandler DEF LicenceInv, LicenceShape
  <2>4. MarksExclude' /\ NotYetMinted' /\ MintedOnce'
    BY <1>2, <2>1, <2>2, GoingOnKeepsMarks, IdleIsHandler DEF stripe
  <2>5. DoomIsComing'
    BY <1>2, <1>3, <1>4, <2>1, AnsweringKeepsDoom
  <2> QED BY <2>3, <2>4, <2>5 DEF LicenceInv
<1>5. CASE e \notin seen
  <2> DEFINE c == [handler[h] EXCEPT !.stage = FirstStage(e), !.expiry = e.end]
  <2>1. c \in AnyHandler /\ c.stage = FirstStage(e) /\ c.event = {e}
    BY ZenonT(40), <1>3, FirstStages DEF LicenceInv, LicenceShape, AnyHandler, AnyEvent, HandlerStages
  <2>2. Proceed(h, c) /\ seen' = seen \cup {e} /\ outbox' = outbox
    BY <1>1, <1>5
  <2>3. /\ handler' \in [Handlers -> AnyHandler] /\ handler'[h] = c
        /\ \A g \in Handlers : g # h => handler'[g] = handler[g]
    BY <2>1, <2>2, HandlersMove DEF LicenceInv
  <2>4. c.stage # "index" /\ c.stage # "mark"
    BY <1>3, <2>1, FirstStages
  <2> HIDE DEF c
  <2>5. LicenceShape'
    BY <1>2, <1>3, <2>1, <2>2, <2>4, MovingKeepsShape DEF LicenceInv, LicenceShape
  <2>6. MarksExclude'
    <3>1. ASSUME NEW g \in Handlers
          PROVE  /\ handler'[g].event \subseteq emitted'
                 /\ \A a, b \in handler'[g].event : a = b
                 /\ handler'[g].stage # "mark" => handler'[g].event \subseteq seen'
      BY <1>2, <1>3, <2>1, <2>2, <2>3 DEF LicenceInv, MarksExclude, stripe
    <3>2. ASSUME NEW f \in Handlers, NEW g \in Handlers, f # g,
                 handler'[f].stage # "mark", handler'[g].stage # "mark"
          PROVE  handler'[f].event \cap handler'[g].event = {}
      <4>1. \A k \in Handlers : k # h /\ handler'[k].stage # "mark"
                => e \notin handler'[k].event
        BY <1>5, <2>3 DEF LicenceInv, MarksExclude
      <4>2. CASE f = h \/ g = h
        BY <2>1, <2>3, <3>2, <4>1, <4>2
      <4>3. CASE f # h /\ g # h
        BY <2>3, <3>2, <4>3 DEF LicenceInv, MarksExclude
      <4> QED BY <4>2, <4>3
    <3> QED BY <3>1, <3>2 DEF MarksExclude
  <2>7. NotYetMinted' /\ MintedOnce'
    <3>1. \A m \in minted' : m[2] \in seen /\ m[2] # e
      BY <1>2, <1>5 DEF LicenceInv, NotYetMinted
    <3>2. ASSUME NEW g \in Handlers, handler'[g].stage \in {"issue", "list"}, NEW m \in minted'
          PROVE  m[2] \notin handler'[g].event
      <4>1. CASE g = h
        BY <2>1, <2>3, <3>1, <4>1
      <4>2. CASE g # h
        BY <1>2, <2>3, <3>2, <4>2 DEF LicenceInv, NotYetMinted
      <4> QED BY <4>1, <4>2
    <3> QED BY <1>2, <2>2, <3>1, <3>2 DEF LicenceInv, NotYetMinted, MintedOnce
  <2>8. DoomIsComing'
    <3>1. ASSUME handlerFaults = 0, NEW k \in doomed \ denied
          PROVE  WillRevoke(k)'
      <4>1. CASE e.type = "deleted"
        BY <1>3, <2>1, <2>3, <4>1, FirstStages DEF WillRevoke
      <4>2. CASE e.type # "deleted"
        <5>1. WillRevoke(k)
          BY <3>1 DEF LicenceInv, DoomIsComing
        <5> QED BY <1>2, <2>2, <2>3, <4>2, <5>1 DEF WillRevoke
      <4> QED BY <4>1, <4>2
    <3> QED BY <1>2, <3>1 DEF LicenceInv, DoomIsComing, stripe
  <2> QED BY <2>5, <2>6, <2>7, <2>8 DEF LicenceInv
<1> QED BY <1>4, <1>5

-----------------------------------------------------------------------------

\* A licence is issued for an event nobody has issued one for.
LEMMA PutRecordKeepsInv ==
    ASSUME LicenceInv, NEW h \in Handlers, PutRecord(h)
    PROVE  LicenceInv'
<1>1. PICK k \in Keys \ DOMAIN record, s \in handler[h].sub :
          /\ record' = [x \in DOMAIN record \cup {k} |->
                          IF x = k THEN [sub |-> s, issued |-> today,
                                         expiry |-> handler[h].expiry]
                          ELSE record[x]]
          /\ minted' = minted \cup {<<k, e>> : e \in handler[h].event}
          /\ Proceed(h, [handler[h] EXCEPT !.stage = "index", !.key = k])
  BY DEF PutRecord
<1>2. /\ UNCHANGED <<stripe, outbox, seen, index, denied, doomed, handlerFaults>>
      /\ handler[h].stage = "issue" /\ handler[h] \in AnyHandler
  BY DEF PutRecord, LicenceInv, LicenceShape
<1> DEFINE c == [handler[h] EXCEPT !.stage = "index", !.key = k]
<1>3. /\ c \in AnyHandler /\ c.stage = "index" /\ c.key = k
      /\ c.event = handler[h].event
  BY <1>2 DEF AnyHandler, HandlerStages
<1>4. Proceed(h, c)
  BY <1>1
<1>5. [sub |-> s, issued |-> today, expiry |-> handler[h].expiry] \in AnyRecord
  BY <1>2 DEF LicenceInv, LicenceShape, AnyHandler, AnyRecord
<1>6. /\ handler[h].event \subseteq emitted /\ handler[h].event \subseteq seen
      /\ \A d, e \in handler[h].event : d = e
      /\ \A m \in minted : m[2] \notin handler[h].event
  BY <1>2 DEF LicenceInv, MarksExclude, NotYetMinted
<1> HIDE DEF c
<1>7. /\ handler'[h] = c
      /\ \A g \in Handlers : g # h => handler'[g] = handler[g]
  BY <1>3, <1>4, HandlersMove DEF LicenceInv
<1>8. LicenceShape'
  <2>1. /\ record' \in [DOMAIN record' -> AnyRecord]
        /\ DOMAIN record' = DOMAIN record \cup {k}
    BY <1>1, <1>5 DEF LicenceInv, LicenceShape
  <2>2. minted' \subseteq Keys \X AnyEvent
    BY <1>1, <1>6 DEF LicenceInv, LicenceShape
  <2> QED BY <1>2, <1>3, <1>4, <2>1, <2>2, MovingKeepsShape DEF LicenceInv, LicenceShape
<1>9. MarksExclude'
  <2>1. ASSUME NEW g \in Handlers
        PROVE  /\ handler'[g].event \subseteq emitted'
               /\ \A d, e \in handler'[g].event : d = e
               /\ handler'[g].stage # "mark" => handler'[g].event \subseteq seen'
    BY <1>2, <1>3, <1>6, <1>7 DEF LicenceInv, MarksExclude, stripe
  <2>2. ASSUME NEW f \in Handlers, NEW g \in Handlers, f # g,
               handler'[f].stage # "mark", handler'[g].stage # "mark"
        PROVE  handler'[f].event \cap handler'[g].event = {}
    BY <1>2, <1>3, <1>7, <2>2 DEF LicenceInv, MarksExclude
  <2> QED BY <2>1, <2>2 DEF MarksExclude
<1>10. NotYetMinted'
  <2>1. \A m \in minted' : m[2] \in seen'
    BY <1>1, <1>2, <1>6 DEF LicenceInv, NotYetMinted
  <2>2. ASSUME NEW g \in Handlers, handler'[g].stage \in {"issue", "list"}, NEW m \in minted'
        PROVE  m[2] \notin handler'[g].event
    <3>1. g # h /\ handler'[g] = handler[g]
      BY <1>3, <1>7, <2>2
    <3>2. handler[g].event \cap handler[h].event = {}
      BY <1>2, <2>2, <3>1 DEF LicenceInv, MarksExclude
    <3> QED BY <1>1, <2>2, <3>1, <3>2 DEF LicenceInv, NotYetMinted
  <2> QED BY <2>1, <2>2 DEF NotYetMinted
<1>11. MintedOnce'
  <2>1. ASSUME NEW a \in minted', NEW b \in minted', a[2] = b[2]
        PROVE  a[1] = b[1]
    <3>1. ASSUME NEW m \in minted', m \notin minted
          PROVE  m[1] = k /\ m[2] \in handler[h].event
      <4>1. PICK e \in handler[h].event : m = <<k, e>>
        BY <1>1, <3>1
      <4> QED BY <4>1
    <3> QED BY <1>6, <2>1, <3>1 DEF LicenceInv, MintedOnce
  <2> QED BY <2>1 DEF MintedOnce
<1>12. DoomIsComing'
  BY <1>2, <1>3, <1>4, GoingOnKeepsDoom
<1> QED BY <1>8, <1>9, <1>10, <1>11, <1>12 DEF LicenceInv

\* A request that answers and has changed at most the expiry of a record, the index or
\* the deny-list.
LEMMA AnsweringKeepsInv ==
    ASSUME LicenceInv, NEW h \in Handlers, Answer(h), handler[h].stage # "mark",
           UNCHANGED <<stripe, seen, minted, doomed, handlerFaults>>,
           record' \in [DOMAIN record' -> AnyRecord], DOMAIN record' = DOMAIN record,
           index \subseteq index', denied \subseteq denied', index' \subseteq DOMAIN record,
           handler[h].stage # "members" \/ index = {},
           handler[h].stage = "revoke" => handler[h].keys \subseteq denied'
    PROVE  LicenceInv'
<1>1. /\ Proceed(h, AtRest) /\ outbox' \subseteq outbox
      /\ AtRest \in AnyHandler /\ AtRest.event = {} /\ AtRest.stage = "idle"
  BY IdleIsHandler DEF Answer, AtRest
<1>2. LicenceShape'
  BY <1>1, MovingKeepsShape DEF LicenceInv, LicenceShape
<1>3. MarksExclude' /\ NotYetMinted' /\ MintedOnce'
  BY <1>1, GoingOnKeepsMarks DEF stripe
<1>4. DoomIsComing'
  BY AnsweringKeepsDoom DEF LicenceInv, MarksExclude
<1> QED BY <1>2, <1>3, <1>4 DEF LicenceInv

\* SADD: the key is listed, and a deletion that comes later will find it.
LEMMA AddToIndexKeepsInv ==
    ASSUME LicenceInv, NEW h \in Handlers, AddToIndex(h)
    PROVE  LicenceInv'
<1>1. /\ Answer(h) /\ handler[h].stage = "index" /\ index' = index \cup {handler[h].key}
      /\ UNCHANGED <<stripe, seen, record, denied, minted, doomed, handlerFaults>>
  BY DEF AddToIndex
<1>2. index' \subseteq DOMAIN record
  BY <1>1 DEF LicenceInv, LicenceShape
<1> QED BY <1>1, <1>2, AnsweringKeepsInv DEF LicenceInv, LicenceShape

\* A renewal writes a later expiry under the key the subscription has.
LEMMA PutRenewalKeepsInv ==
    ASSUME LicenceInv, NEW h \in Handlers, PutRenewal(h)
    PROVE  LicenceInv'
<1>1. /\ Answer(h) /\ handler[h].stage = "renew"
      /\ record' = [record EXCEPT ![handler[h].key].expiry = handler[h].expiry]
      /\ UNCHANGED <<stripe, seen, index, denied, minted, doomed, handlerFaults>>
  BY DEF PutRenewal
<1>2. /\ record' \in [DOMAIN record' -> AnyRecord]
      /\ DOMAIN record' = DOMAIN record
  BY ZenonT(40), <1>1 DEF LicenceInv, LicenceShape, AnyHandler, AnyRecord
<1> QED BY <1>1, <1>2, AnsweringKeepsInv DEF LicenceInv, LicenceShape

\* The renewal goes on with the record it found, or issues a licence.
LEMMA FindRecordKeepsInv ==
    ASSUME LicenceInv, NEW h \in Handlers, FindRecord(h)
    PROVE  LicenceInv'
<1>1. /\ UNCHANGED <<stripe, outbox, redis, minted, doomed, handlerFaults>>
      /\ handler[h].stage = "list" /\ handler[h] \in AnyHandler
  BY DEF FindRecord, LicenceInv, LicenceShape
<1>2. PICK c \in AnyHandler :
          Proceed(h, c) /\ c.event = handler[h].event /\ c.stage \in {"renew", "issue"}
  <2> DEFINE x == handler[h].expiry + Grace
  <2>1. x \in Nat
    BY <1>1, LicenceAssumption DEF AnyHandler
  <2>2. CASE \E k \in index :
                Proceed(h, [handler[h] EXCEPT !.stage = "renew", !.key = k,
                                              !.expiry = @ + Grace])
    <3>1. PICK k \in index : Proceed(h, [handler[h] EXCEPT !.stage = "renew", !.key = k,
                                                           !.expiry = @ + Grace])
      BY <2>2
    <3>2. k \in Keys
      BY DEF LicenceInv, LicenceShape
    <3> DEFINE d == [handler[h] EXCEPT !.stage = "renew", !.key = k, !.expiry = x]
    <3> HIDE DEF x
    <3>3. d \in AnyHandler /\ d.event = handler[h].event /\ d.stage = "renew"
      BY <1>1, <2>1, <3>2 DEF AnyHandler, HandlerStages
    <3> USE DEF x
    <3> QED BY <3>1, <3>3
  <2>3. CASE Proceed(h, [handler[h] EXCEPT !.stage = "issue", !.expiry = @ + Grace])
    <3> DEFINE d == [handler[h] EXCEPT !.stage = "issue", !.expiry = x]
    <3> HIDE DEF x
    <3>1. d \in AnyHandler /\ d.event = handler[h].event /\ d.stage = "issue"
      BY <1>1, <2>1 DEF AnyHandler, HandlerStages
    <3> USE DEF x
    <3> QED BY <2>3, <3>1
  <2> QED BY <2>2, <2>3 DEF FindRecord
<1>3. LicenceShape'
  BY <1>1, <1>2, MovingKeepsShape DEF LicenceInv, LicenceShape, redis
<1>4. MarksExclude' /\ NotYetMinted' /\ MintedOnce'
  BY <1>1, <1>2, GoingOnKeepsMarks DEF stripe, redis
<1>5. DoomIsComing'
  BY <1>1, <1>2, GoingOnKeepsDoom DEF redis
<1> QED BY <1>3, <1>4, <1>5 DEF LicenceInv

\* The revocation takes every key of the index with it.
LEMMA ListKeysKeepsInv ==
    ASSUME LicenceInv, NEW h \in Handlers, ListKeys(h)
    PROVE  LicenceInv'
<1>1. /\ UNCHANGED <<stripe, redis, minted, doomed, handlerFaults>>
      /\ handler[h].stage = "members" /\ handler[h] \in AnyHandler
  BY DEF ListKeys, LicenceInv, LicenceShape
<1>2. CASE index = {}
  BY <1>1, <1>2, AnsweringKeepsInv DEF ListKeys, LicenceInv, LicenceShape, redis
<1>3. CASE index # {}
  <2> DEFINE c == [handler[h] EXCEPT !.stage = "revoke", !.keys = index]
  <2>1. Proceed(h, c) /\ outbox' = outbox
    BY <1>3 DEF ListKeys
  <2>2. /\ c \in AnyHandler /\ c.event = handler[h].event
        /\ c.stage = "revoke" /\ c.keys = index
    BY <1>1 DEF LicenceInv, LicenceShape, AnyHandler, HandlerStages
  <2> HIDE DEF c
  <2>3. LicenceShape'
    BY <1>1, <2>1, <2>2, MovingKeepsShape DEF LicenceInv, LicenceShape, redis
  <2>4. MarksExclude' /\ NotYetMinted' /\ MintedOnce'
    BY <1>1, <2>1, <2>2, GoingOnKeepsMarks DEF stripe, redis
  <2>5. DoomIsComing'
    BY <1>1, <2>1, <2>2, GoingOnKeepsDoom DEF redis
  <2> QED BY <2>3, <2>4, <2>5 DEF LicenceInv
<1> QED BY <1>2, <1>3

\* A key leaves the list of the request when it enters the deny-list.
LEMMA RevokeKeyKeepsInv ==
    ASSUME LicenceInv, NEW h \in Handlers, RevokeKey(h)
    PROVE  LicenceInv'
<1>1. PICK k \in handler[h].keys :
          /\ denied' = denied \cup {k}
          /\ IF handler[h].keys = {k}
             THEN Answer(h)
             ELSE Proceed(h, [handler[h] EXCEPT !.keys = @ \ {k}]) /\ UNCHANGED outbox
  BY DEF RevokeKey
<1>2. /\ UNCHANGED <<stripe, seen, record, index, minted, doomed, handlerFaults>>
      /\ handler[h].stage = "revoke" /\ handler[h] \in AnyHandler
  BY DEF RevokeKey, LicenceInv, LicenceShape
<1>3. CASE handler[h].keys = {k}
  BY <1>1, <1>2, <1>3, AnsweringKeepsInv DEF LicenceInv, LicenceShape
<1>4. CASE handler[h].keys # {k}
  <2> DEFINE c == [handler[h] EXCEPT !.keys = @ \ {k}]
  <2>1. Proceed(h, c) /\ outbox' = outbox
    BY <1>1, <1>4
  <2>2. /\ c \in AnyHandler /\ c.event = handler[h].event
        /\ c.stage = "revoke" /\ handler[h].keys \subseteq c.keys \cup denied'
    BY <1>1, <1>2 DEF AnyHandler
  <2> HIDE DEF c
  <2>3. LicenceShape'
    BY <1>2, <2>1, <2>2, MovingKeepsShape DEF LicenceInv, LicenceShape
  <2>4. MarksExclude' /\ NotYetMinted' /\ MintedOnce'
    BY <1>2, <2>1, <2>2, GoingOnKeepsMarks DEF stripe
  <2>5. DoomIsComing'
    BY <1>1, <1>2, <2>1, <2>2, GoingOnKeepsDoom
  <2> QED BY <2>3, <2>4, <2>5 DEF LicenceInv
<1> QED BY <1>3, <1>4

\* A failure promises nothing of the doomed keys any more.
LEMMA HandlerFailsKeepsInv ==
    ASSUME LicenceInv, NEW h \in Handlers, HandlerFails(h)
    PROVE  LicenceInv'
<1>1. /\ UNCHANGED <<stripe, outbox, redis, minted, doomed>>
      /\ Proceed(h, AtRest) /\ handlerFaults' = handlerFaults + 1 /\ handlerFaults \in Nat
      /\ AtRest \in AnyHandler /\ AtRest.event = {} /\ AtRest.stage = "idle"
  BY IdleIsHandler DEF HandlerFails, LicenceInv, LicenceShape, AtRest
<1>2. LicenceShape'
  BY <1>1, MovingKeepsShape DEF LicenceInv, LicenceShape, redis
<1>3. MarksExclude' /\ NotYetMinted' /\ MintedOnce'
  BY <1>1, GoingOnKeepsMarks DEF stripe, redis
<1>4. DoomIsComing'
  BY <1>1 DEF LicenceInv, DoomIsComing, stripe, redis
<1> QED BY <1>2, <1>3, <1>4 DEF LicenceInv

\* The operator's request carries no event.
LEMMA ReissueKeepsInv ==
    ASSUME LicenceInv, NEW h \in Handlers, Reissue(h)
    PROVE  LicenceInv'
<1>1. PICK k \in index :
          Proceed(h, [AtRest EXCEPT !.stage = "issue", !.sub = {record[k].sub},
                                  !.expiry = today + 1])
  BY DEF Reissue
<1>2. /\ UNCHANGED <<stripe, outbox, redis, minted, doomed, handlerFaults>>
      /\ handler[h].stage = "idle"
  BY DEF Reissue, AtRest
<1> DEFINE c == [AtRest EXCEPT !.stage = "issue", !.sub = {record[k].sub},
                             !.expiry = today + 1]
<1>3. c \in AnyHandler /\ c.event = {} /\ c.stage = "issue"
  <2>1. record[k].sub \in Subscriptions /\ today + 1 \in Nat
    BY DEF LicenceInv, LicenceShape, AnyRecord
  <2> QED BY <2>1 DEF AtRest, AnyHandler, HandlerStages
<1>4. Proceed(h, c)
  BY <1>1
<1> HIDE DEF c
<1>5. LicenceShape'
  BY <1>2, <1>3, <1>4, MovingKeepsShape DEF LicenceInv, LicenceShape, redis
<1>6. MarksExclude' /\ NotYetMinted' /\ MintedOnce'
  BY <1>2, <1>3, <1>4, GoingOnKeepsMarks DEF stripe, redis
<1>7. DoomIsComing'
  BY <1>2, <1>3, <1>4, GoingOnKeepsDoom DEF redis
<1> QED BY <1>5, <1>6, <1>7 DEF LicenceInv

-----------------------------------------------------------------------------

\* The state of the webhook keeps its invariant, whatever Stripe delivers and however the
\* requests interleave (webhook-handler.ts, license/storage-upstash.ts).
THEOREM LicenceInvariant == LicenceSpec => []LicenceInv
<1>1. LicenceInit => LicenceInv
  BY InitLicenceInv
<1>2. LicenceInv /\ [LicenceNext]_licenceVars => LicenceInv'
  <2> SUFFICES ASSUME LicenceInv, [LicenceNext]_licenceVars PROVE LicenceInv'
    OBVIOUS
  <2>1. CASE StripeStep
    BY <2>1, StripeKeepsInv
  <2>2. ASSUME NEW h \in Handlers, NEW e \in emitted, Deliver(h, e) PROVE LicenceInv'
    BY <2>2, DeliverKeepsInv
  <2>3. ASSUME NEW h \in Handlers, HandlerStep(h) PROVE LicenceInv'
    BY <2>3, MarkSeenKeepsInv, PutRecordKeepsInv, AddToIndexKeepsInv, FindRecordKeepsInv,
       PutRenewalKeepsInv, ListKeysKeepsInv, RevokeKeyKeepsInv DEF HandlerStep
  <2>4. ASSUME NEW h \in Handlers, HandlerFails(h) \/ Reissue(h) PROVE LicenceInv'
    BY <2>4, HandlerFailsKeepsInv, ReissueKeepsInv
  <2>5. CASE UNCHANGED licenceVars
    BY <2>5 DEF licenceVars, stripe, redis, LicenceInv, LicenceShape, MarksExclude,
       NotYetMinted, MintedOnce, DoomIsComing, WillRevoke
  <2> QED BY <2>1, <2>2, <2>3, <2>4, <2>5 DEF LicenceNext
<1> QED BY <1>1, <1>2, PTL DEF LicenceSpec

\* At most one licence is ever issued for an event, for any number of deliveries of it
\* and of requests that run at once (markSeenIfNew).
THEOREM OneLicenceAnEvent == LicenceSpec => []MintedOnce
<1>1. LicenceInv => MintedOnce
  BY DEF LicenceInv
<1> QED BY <1>1, LicenceInvariant, PTL

\* When everything is answered and nothing has failed, the keys a customer held at a
\* cancellation are all on the deny-list (revokeAllForCustomer).
THEOREM CancellationRevokes == LicenceSpec => []CancelledLosesLicences
<1>1. LicenceInv => CancelledLosesLicences
  <2> SUFFICES ASSUME LicenceInv, Settled, NEW k \in doomed, k \notin denied PROVE FALSE
    BY DEF CancelledLosesLicences
  <2>1. WillRevoke(k)
    BY DEF LicenceInv, DoomIsComing, Settled
  <2> QED BY <2>1 DEF WillRevoke, Settled, Delivered, AtRest
<1> QED BY <1>1, LicenceInvariant, PTL

-----------------------------------------------------------------------------
(* A paying customer is served: what Stripe has sent, what the requests are *)
(* about and what they will leave behind.                                   *)

\* The events belong to subscriptions that began; those without an answer are of the
\* current period, and those with one are marked.
EventsFit ==
    /\ emitted \ outbox \subseteq seen
    /\ \A e \in emitted : plan[e.sub].status # "none" /\ e.end <= plan[e.sub].end
    /\ \A e \in outbox : e.end = plan[e.sub].end

\* A request is about the subscription of its event, and one that will store an expiry
\* for an event has one that covers the current period.
RequestFits(r) ==
    /\ \A s \in r.sub : plan[s].status # "none"
    /\ \A e \in r.event : r.sub = {e.sub}
    /\ r.stage \in {"mark", "list", "renew", "members", "revoke"} => r.event # {}
    /\ r.stage \in {"list", "renew"} \/ (r.stage = "issue" /\ r.event # {})
       => \A s \in r.sub : r.expiry >= plan[s].end
    /\ r.stage \in {"members", "revoke"} => \E e \in r.event : e.type = "deleted"

RequestsFit ==
    /\ \A h \in Handlers : RequestFits(handler[h])
    /\ \A k \in DOMAIN record : plan[record[k].sub].status # "none"

\* The record a request will renew is of its subscription; the one it has just stored for
\* an event lasts as long as the period.
KeysFit ==
    \A h \in Handlers :
        /\ handler[h].stage = "renew"
           => handler[h].key \in index /\ record[handler[h].key].sub \in handler[h].sub
        /\ handler[h].stage = "index" /\ handler[h].event # {}
           => /\ record[handler[h].key].sub \in handler[h].sub
              /\ record[handler[h].key].expiry >= plan[record[handler[h].key].sub].end

\* Only a cancellation denies anything.
NothingDenied == denied # {} => \E s \in Subscriptions : plan[s].status = "cancelled"

\* A lasting licence, or a request that will leave one, or an event that will start such a
\* request.
Served(s) ==
    \/ \E k \in index : record[k].sub = s /\ record[k].expiry >= plan[s].end
    \/ \E e \in outbox \ seen : e.sub = s /\ e.type # "deleted"
    \/ \E h \in Handlers : /\ handler[h].event # {} /\ s \in handler[h].sub
                           /\ handler[h].stage \in {"issue", "list", "renew", "index"}

\* As long as no command fails, every subscription that is paid for is served or will be.
ServiceIsComing ==
    handlerFaults = 0 => \A s \in Subscriptions : plan[s].status = "active" => Served(s)

ServiceInv == EventsFit /\ RequestsFit /\ KeysFit /\ NothingDenied /\ ServiceIsComing

\* At first nobody subscribes.
LEMMA InitServiceInv == ASSUME LicenceInit PROVE ServiceInv
<1>1. EventsFit /\ NothingDenied /\ ServiceIsComing
  BY DEF LicenceInit, EventsFit, NothingDenied, ServiceIsComing
<1>2. RequestsFit /\ KeysFit
  BY DEF LicenceInit, RequestsFit, RequestFits, KeysFit, AtRest
<1> QED BY <1>1, <1>2 DEF ServiceInv

\* When only Stripe moves, a subscription whose period does not change is served as before.
LEMMA OthersAreServed ==
    ASSUME LicenceInv, ServiceInv, NEW s \in Subscriptions, plan[s].status = "active",
           handlerFaults = 0, plan'[s] = plan[s], outbox \subseteq outbox',
           UNCHANGED <<redis, handler>>
    PROVE  Served(s)'
<1>1. Served(s)
  BY DEF ServiceInv, ServiceIsComing
<1> QED BY <1>1 DEF Served, redis

\* A subscription that begins or goes into its next period: nothing of it is under way,
\* and the events of the new period are new.
LEMMA PeriodKeepsService ==
    ASSUME LicenceInv, LicenceInv', ServiceInv, NEW s \in Subscriptions,
           NEW status \in {"none", "active"}, NEW types \in SUBSET {"created", "paid", "updated"},
           "paid" \in types, plan[s].status = status,
           status = "active" => today = plan[s].end,
           \A e \in outbox : e.sub # s,
           \A h \in Handlers : s \notin handler[h].sub,
           \A k \in DOMAIN record : status = "none" => record[k].sub # s,
           plan' = [plan EXCEPT ![s] = [status |-> "active", end |-> today + 1]],
           Emit({[type |-> t, sub |-> s, end |-> today + 1] : t \in types}),
           UNCHANGED <<today, redis, handler, minted, doomed, handlerFaults, redeliveries>>
    PROVE  ServiceInv'
<1> DEFINE new == {[type |-> t, sub |-> s, end |-> today + 1] : t \in types}
<1>0. /\ UNCHANGED <<seen, record, index, denied, handler, handlerFaults>>
      /\ emitted' = emitted \cup new /\ outbox' = outbox \cup new
  BY DEF Emit, redis
<1>1. /\ today \in Nat /\ plan \in [Subscriptions -> [status : {"none", "active", "cancelled"}, end : Nat]]
      /\ emitted \subseteq AnyEvent /\ outbox \subseteq emitted /\ seen \subseteq emitted
      /\ record \in [DOMAIN record -> AnyRecord] /\ handler \in [Handlers -> AnyHandler]
      /\ \A h \in Handlers : handler[h].stage = "index" => handler[h].key \in DOMAIN record
      /\ index \subseteq DOMAIN record
  BY DEF LicenceInv, LicenceShape
<1>2. plan'[s].status = "active" /\ plan'[s].end = today + 1
  BY <1>1
<1>3. \A t \in Subscriptions : t # s => plan'[t] = plan[t]
  BY <1>1
<1>4. \A e \in new : e.sub = s /\ e.end = today + 1
  OBVIOUS
<1>5. \A e \in emitted : e.sub = s => e.end <= today
  BY <1>1 DEF ServiceInv, EventsFit, AnyEvent
<1>6. \A e \in new : e \notin emitted
  BY <1>1, <1>4, <1>5
<1> HIDE DEF new
<1>7. EventsFit'
  <2>1. emitted' \ outbox' \subseteq seen'
    BY <1>0 DEF ServiceInv, EventsFit
  <2>2. ASSUME NEW e \in emitted'
        PROVE  plan'[e.sub].status # "none" /\ e.end <= plan'[e.sub].end
    <3>1. CASE e \in new
      BY <1>1, <1>2, <1>4, <3>1
    <3>2. CASE e \in emitted /\ e.sub = s
      BY <1>1, <1>2, <1>5, <3>2 DEF AnyEvent
    <3>3. CASE e \in emitted /\ e.sub # s
      BY <1>1, <1>3, <3>3 DEF AnyEvent, ServiceInv, EventsFit
    <3> QED BY <1>0, <3>1, <3>2, <3>3
  <2>3. ASSUME NEW e \in outbox' PROVE e.end = plan'[e.sub].end
    <3>1. CASE e \in new
      BY <1>2, <1>4, <3>1
    <3>2. CASE e \in outbox
      BY <1>1, <1>3, <3>2 DEF AnyEvent, ServiceInv, EventsFit
    <3> QED BY <1>0, <3>1, <3>2
  <2> QED BY <2>1, <2>2, <2>3 DEF EventsFit
<1>8. RequestsFit'
  <2>1. ASSUME NEW h \in Handlers PROVE RequestFits(handler[h])'
    <3>1. RequestFits(handler[h]) /\ s \notin handler[h].sub /\ handler[h].sub \subseteq Subscriptions
      BY <1>1 DEF ServiceInv, RequestsFit, AnyHandler
    <3>2. \A t \in handler[h].sub : plan'[t] = plan[t]
      BY <1>3, <3>1
    <3> QED BY <1>0, <3>1, <3>2 DEF RequestFits
  <2>2. ASSUME NEW k \in DOMAIN record PROVE plan'[record[k].sub].status # "none"
    BY <1>1, <1>2, <1>3 DEF AnyRecord, ServiceInv, RequestsFit
  <2> QED BY <1>0, <2>1, <2>2 DEF RequestsFit
<1>9. KeysFit'
  <2>1. ASSUME NEW h \in Handlers, handler[h].stage = "index", handler[h].event # {}
        PROVE  record[handler[h].key].expiry >= plan'[record[handler[h].key].sub].end
    <3>1. /\ record[handler[h].key].sub \in handler[h].sub
          /\ record[handler[h].key].expiry >= plan[record[handler[h].key].sub].end
      BY <2>1 DEF ServiceInv, KeysFit
    <3>2. record[handler[h].key].sub # s /\ record[handler[h].key].sub \in Subscriptions
      BY <1>1, <2>1, <3>1 DEF AnyRecord
    <3> QED BY <1>3, <3>1, <3>2
  <2> QED BY <1>0, <2>1 DEF ServiceInv, KeysFit
<1>10. NothingDenied'
  <2>1. ASSUME NEW t \in Subscriptions, plan[t].status = "cancelled"
        PROVE  plan'[t].status = "cancelled"
    BY <1>3, <2>1
  <2> QED BY <1>0, <2>1 DEF ServiceInv, NothingDenied
<1>11. ServiceIsComing'
  <2>1. ASSUME handlerFaults = 0, NEW t \in Subscriptions, plan'[t].status = "active", t # s
        PROVE  Served(t)'
    BY <1>0, <1>3, <2>1, OthersAreServed DEF redis
  <2>2. Served(s)'
    <3> DEFINE e == [type |-> "paid", sub |-> s, end |-> today + 1]
    <3>1. e \in new /\ e.type = "paid" /\ e.sub = s
      BY DEF new
    <3> HIDE DEF e
    <3>2. e \in outbox' \ seen'
      BY <1>0, <1>1, <1>6, <3>1
    <3> QED BY <3>1, <3>2 DEF Served
  <2> QED BY <1>0, <2>1, <2>2 DEF ServiceIsComing
<1> QED BY <1>7, <1>8, <1>9, <1>10, <1>11 DEF ServiceInv

\* What Stripe does.
LEMMA StripeKeepsService ==
    ASSUME LicenceInv, LicenceInv', ServiceInv, StripeStep
    PROVE  ServiceInv'
<1>0. /\ plan \in [Subscriptions -> [status : {"none", "active", "cancelled"}, end : Nat]]
      /\ emitted \subseteq AnyEvent /\ outbox \subseteq emitted
      /\ handler \in [Handlers -> AnyHandler] /\ today \in Nat
      /\ record \in [DOMAIN record -> AnyRecord]
  BY DEF LicenceInv, LicenceShape
<1>1. ASSUME NEW s \in Subscriptions, Subscribe(s) PROVE ServiceInv'
  <2>1. /\ \A e \in outbox : e.sub # s
        /\ \A h \in Handlers : s \notin handler[h].sub
        /\ \A k \in DOMAIN record : record[k].sub # s
    BY <1>0, <1>1 DEF Subscribe, ServiceInv, EventsFit, RequestsFit, RequestFits
  <2>2. {"created", "paid"} \in SUBSET {"created", "paid", "updated"}
    OBVIOUS
  <2> QED BY <1>1, <2>1, <2>2, PeriodKeepsService DEF Subscribe
<1>2. ASSUME NEW s \in Subscriptions, Charge(s) PROVE ServiceInv'
  <2>1. plan' = [plan EXCEPT ![s] = [status |-> "active", end |-> today + 1]]
    <3>1. plan[s] = [status |-> "active", end |-> plan[s].end]
      BY <1>0, <1>2 DEF Charge
    <3>2. plan' = [plan EXCEPT ![s] = [plan[s] EXCEPT !.end = today + 1]]
      BY <1>0, <1>2 DEF Charge
    <3>3. [plan[s] EXCEPT !.end = today + 1] = [status |-> "active", end |-> today + 1]
      BY <3>1
    <3> QED BY <3>2, <3>3
  <2>2. {"paid", "updated"} \in SUBSET {"created", "paid", "updated"}
    OBVIOUS
  <2> QED BY <1>2, <2>1, <2>2, PeriodKeepsService DEF Charge
<1>3. ASSUME NEW s \in Subscriptions, Cancel(s) PROVE ServiceInv'
  <2> DEFINE e == [type |-> "deleted", sub |-> s, end |-> plan[s].end]
  <2>1. /\ UNCHANGED <<redis, seen, record, index, denied, handler, handlerFaults>>
        /\ emitted' = emitted \cup {e} /\ outbox' = outbox \cup {e}
    BY <1>3 DEF Cancel, Emit, redis
  <2>2. /\ plan'[s].status = "cancelled"
        /\ \A t \in Subscriptions : plan'[t].end = plan[t].end
        /\ \A t \in Subscriptions : t # s => plan'[t] = plan[t]
        /\ \A t \in Subscriptions : plan[t].status # "none" => plan'[t].status # "none"
    BY <1>0, <1>3 DEF Cancel
  <2>3. EventsFit'
    <3>1. \A d \in emitted' : d.sub \in Subscriptions
      BY <1>0, <2>1 DEF AnyEvent
    <3>2. plan[s].end <= plan[s].end
      BY <1>0
    <3> QED BY <2>1, <2>2, <3>1, <3>2, <1>3 DEF Cancel, ServiceInv, EventsFit
  <2>4. RequestsFit'
    <3>1. ASSUME NEW h \in Handlers PROVE RequestFits(handler[h])'
      <4>1. RequestFits(handler[h]) /\ handler[h].sub \subseteq Subscriptions
        BY <1>0 DEF ServiceInv, RequestsFit, AnyHandler
      <4> QED BY <2>1, <2>2, <4>1 DEF RequestFits
    <3>2. \A k \in DOMAIN record : record[k].sub \in Subscriptions
      BY <1>0 DEF AnyRecord
    <3> QED BY <2>1, <2>2, <3>1, <3>2 DEF ServiceInv, RequestsFit
  <2>5. KeysFit'
    <3>1. \A h \in Handlers : handler[h].sub \subseteq Subscriptions
      BY <1>0 DEF AnyHandler
    <3> QED BY <2>1, <2>2, <3>1 DEF ServiceInv, KeysFit
  <2>6. NothingDenied'
    BY <2>2 DEF NothingDenied
  <2>7. ServiceIsComing'
    <3>1. ASSUME handlerFaults = 0, NEW t \in Subscriptions, plan'[t].status = "active"
          PROVE  Served(t)'
      <4>1. t # s
        BY <2>2, <3>1
      <4> QED BY <2>1, <2>2, <3>1, <4>1, OthersAreServed
    <3> QED BY <2>1, <3>1 DEF ServiceIsComing
  <2> QED BY <2>3, <2>4, <2>5, <2>6, <2>7 DEF ServiceInv
<1>4. CASE Tick
  BY <1>4 DEF Tick, redis, ServiceInv, EventsFit, RequestsFit, RequestFits, KeysFit, NothingDenied,
     ServiceIsComing, Served
<1> QED BY <1>1, <1>2, <1>3, <1>4 DEF StripeStep

\* A step after which the records of the index still cover the current period.
RecordsStay ==
    /\ DOMAIN record \subseteq DOMAIN record' /\ index \subseteq index'
    /\ \A k \in DOMAIN record :
          /\ record'[k].sub = record[k].sub
          /\ \/ record'[k].expiry = record[k].expiry
             \/ record'[k].expiry >= plan[record[k].sub].end

\* A request that goes on to a state that fits, and leaves records that fit.
LEMMA MovingKeepsFit ==
    ASSUME LicenceInv, ServiceInv, NEW h \in Handlers, NEW c \in AnyHandler, Proceed(h, c),
           UNCHANGED stripe, outbox' \subseteq outbox, seen \subseteq seen',
           outbox \ outbox' \subseteq seen', RequestFits(c), RecordsStay,
           \A k \in DOMAIN record' \ DOMAIN record : plan[record'[k].sub].status # "none",
           c.stage = "renew" => c.key \in index' /\ record'[c.key].sub \in c.sub,
           c.stage = "index" /\ c.event # {}
             => /\ record'[c.key].sub \in c.sub
                /\ record'[c.key].expiry >= plan[record'[c.key].sub].end,
           denied' = denied \/ \E s \in Subscriptions : plan[s].status = "cancelled"
    PROVE  EventsFit' /\ RequestsFit' /\ KeysFit' /\ NothingDenied'
<1>0. /\ plan' = plan /\ emitted' = emitted
      /\ handler'[h] = c /\ \A g \in Handlers : g # h => handler'[g] = handler[g]
      /\ \A g \in Handlers : handler[g].stage = "index" => handler[g].key \in DOMAIN record
      /\ index \subseteq DOMAIN record
  BY HandlersMove DEF stripe, LicenceInv, LicenceShape
<1>1. EventsFit'
  BY <1>0 DEF ServiceInv, EventsFit
<1>2. RequestsFit'
  <2>1. ASSUME NEW g \in Handlers PROVE RequestFits(handler[g])'
    <3>1. CASE g = h
      BY <1>0, <3>1 DEF RequestFits
    <3>2. CASE g # h
      BY <1>0, <3>2 DEF ServiceInv, RequestsFit, RequestFits
    <3> QED BY <3>1, <3>2
  <2>2. ASSUME NEW k \in DOMAIN record' PROVE plan[record'[k].sub].status # "none"
    BY DEF ServiceInv, RequestsFit, RecordsStay
  <2> QED BY <1>0, <2>1, <2>2 DEF RequestsFit
<1>3. KeysFit'
  <2>1. ASSUME NEW g \in Handlers, g # h, handler[g].stage = "renew"
        PROVE  handler[g].key \in index' /\ record'[handler[g].key].sub \in handler[g].sub
    BY <1>0, <2>1 DEF ServiceInv, KeysFit, RecordsStay
  <2>2. ASSUME NEW g \in Handlers, g # h, handler[g].stage = "index", handler[g].event # {}
        PROVE  /\ record'[handler[g].key].sub \in handler[g].sub
               /\ record'[handler[g].key].expiry >= plan[record'[handler[g].key].sub].end
    BY <1>0, <2>2 DEF ServiceInv, KeysFit, RecordsStay
  <2> QED BY <1>0, <2>1, <2>2 DEF KeysFit
<1>4. NothingDenied'
  BY <1>0 DEF ServiceInv, NothingDenied
<1> QED BY <1>1, <1>2, <1>3, <1>4

\* A request that serves a subscription goes on to serve it or leaves a lasting licence; an
\* event that is marked goes on in the request.
LEMMA MovingKeepsService ==
    ASSUME LicenceInv, ServiceInv, NEW h \in Handlers, NEW c \in AnyHandler, Proceed(h, c),
           UNCHANGED <<stripe, handlerFaults>>, RecordsStay,
           \A e \in (outbox \ seen) \ (outbox' \ seen') :
              e.type # "deleted" => c.event # {} /\ e.sub \in c.sub /\ c.stage \in {"issue", "list"},
           handler[h].event # {} /\ handler[h].stage \in {"issue", "list", "renew", "index"}
           => \A s \in handler[h].sub :
                 \/ /\ c.event # {} /\ s \in c.sub
                    /\ c.stage \in {"issue", "list", "renew", "index"}
                 \/ \E k \in index' : record'[k].sub = s /\ record'[k].expiry >= plan[s].end
    PROVE  ServiceIsComing'
<1>0. /\ plan' = plan /\ handlerFaults' = handlerFaults
      /\ handler'[h] = c /\ \A g \in Handlers : g # h => handler'[g] = handler[g]
      /\ index \subseteq DOMAIN record
  BY HandlersMove DEF stripe, LicenceInv, LicenceShape
<1>1. ASSUME handlerFaults = 0, NEW s \in Subscriptions, plan[s].status = "active"
      PROVE  Served(s)'
  <2>1. Served(s)
    BY <1>1 DEF ServiceInv, ServiceIsComing
  <2>2. ASSUME NEW k \in index, record[k].sub = s, record[k].expiry >= plan[s].end
        PROVE  Served(s)'
    BY <1>0, <2>2 DEF Served, RecordsStay
  <2>3. ASSUME NEW e \in outbox \ seen, e.sub = s, e.type # "deleted"
        PROVE  Served(s)'
    <3>1. CASE e \in outbox' \ seen'
      BY <2>3, <3>1 DEF Served
    <3>2. CASE e \notin outbox' \ seen'
      BY <1>0, <2>3, <3>2 DEF Served
    <3> QED BY <3>1, <3>2
  <2>4. ASSUME NEW g \in Handlers, handler[g].event # {}, s \in handler[g].sub,
               handler[g].stage \in {"issue", "list", "renew", "index"}
        PROVE  Served(s)'
    <3>1. CASE g = h
      <4>1. CASE /\ c.event # {} /\ s \in c.sub
                 /\ c.stage \in {"issue", "list", "renew", "index"}
        BY <1>0, <4>1 DEF Served
      <4>2. CASE \E k \in index' : record'[k].sub = s /\ record'[k].expiry >= plan[s].end
        BY <1>0, <4>2 DEF Served
      <4> QED BY <2>4, <3>1, <4>1, <4>2
    <3>2. CASE g # h
      BY <1>0, <2>4, <3>2 DEF Served
    <3> QED BY <3>1, <3>2
  <2> QED BY <2>1, <2>2, <2>3, <2>4 DEF Served
<1> QED BY <1>0, <1>1 DEF ServiceIsComing

\* What a request may be, and what it does, in the words of these lemmas.
LEMMA RestFits == RequestFits(AtRest)
BY DEF RequestFits, AtRest

\* A delivery takes nothing from the outbox and begins with the mark still to be set.
LEMMA DeliverKeepsService ==
    ASSUME LicenceInv, ServiceInv, NEW h \in Handlers, NEW e \in emitted, Deliver(h, e)
    PROVE  ServiceInv'
<1> DEFINE c == [AtRest EXCEPT !.stage = "mark", !.event = {e}, !.sub = {e.sub}]
<1>1. /\ c \in AnyHandler /\ c.stage = "mark" /\ c.event = {e} /\ c.sub = {e.sub}
  BY IdleIsHandler DEF AtRest, AnyHandler, HandlerStages, LicenceInv, LicenceShape, AnyEvent
<1>2. Proceed(h, c) /\ handler[h].event = {}
  BY DEF Deliver, Proceed, AtRest
<1>3. UNCHANGED <<stripe, outbox, seen, record, index, denied, handlerFaults>>
  BY DEF Deliver, redis
<1> HIDE DEF c
<1>4. RequestFits(c)
  BY <1>1 DEF RequestFits, ServiceInv, EventsFit
<1>5. RecordsStay
  BY <1>3 DEF RecordsStay
<1>6. EventsFit' /\ RequestsFit' /\ KeysFit' /\ NothingDenied'
  BY <1>1, <1>2, <1>3, <1>4, <1>5, MovingKeepsFit
<1>7. ServiceIsComing'
  BY <1>1, <1>2, <1>3, <1>5, MovingKeepsService
<1> QED BY <1>6, <1>7 DEF ServiceInv

\* The mark of an event stands while its request is still on the way to issue or to revoke.
LEMMA MarkSeenKeepsService ==
    ASSUME LicenceInv, ServiceInv, NEW h \in Handlers, MarkSeen(h)
    PROVE  ServiceInv'
<1>1. PICK e \in handler[h].event :
          IF e \in seen
          THEN Answer(h) /\ UNCHANGED seen
          ELSE /\ seen' = seen \cup {e}
               /\ Proceed(h, [handler[h] EXCEPT !.stage = FirstStage(e), !.expiry = e.end])
               /\ UNCHANGED outbox
  BY DEF MarkSeen
<1>2. /\ UNCHANGED <<stripe, record, index, denied, handlerFaults>>
      /\ handler[h].stage = "mark" /\ RecordsStay
  BY DEF MarkSeen, RecordsStay
<1>3. /\ e \in AnyEvent /\ e \in emitted /\ handler[h].event = {e} /\ handler[h].sub = {e.sub}
      /\ handler[h] \in AnyHandler
  BY DEF LicenceInv, LicenceShape, MarksExclude, AnyHandler, ServiceInv, RequestsFit, RequestFits
<1>4. CASE e \in seen
  <2>1. /\ Proceed(h, AtRest) /\ outbox' = outbox \ {e} /\ seen' = seen
        /\ AtRest \in AnyHandler /\ AtRest.stage = "idle"
    BY <1>1, <1>3, <1>4, IdleIsHandler DEF Answer, AtRest
  <2>2. EventsFit' /\ RequestsFit' /\ KeysFit' /\ NothingDenied'
    BY <1>2, <1>4, <2>1, RestFits, MovingKeepsFit
  <2>3. ServiceIsComing'
    BY <1>2, <1>4, <2>1, MovingKeepsService
  <2> QED BY <2>2, <2>3 DEF ServiceInv
<1>5. CASE e \notin seen
  <2> DEFINE c == [handler[h] EXCEPT !.stage = FirstStage(e), !.expiry = e.end]
  <2>1. /\ c \in AnyHandler /\ c.stage = FirstStage(e) /\ c.event = {e} /\ c.sub = {e.sub}
        /\ c.expiry = e.end
    BY <1>3, FirstStages DEF AnyHandler, AnyEvent, HandlerStages
  <2>2. Proceed(h, c) /\ seen' = seen \cup {e} /\ outbox' = outbox
    BY <1>1, <1>5
  <2>3. e \in outbox /\ e.end = plan[e.sub].end /\ plan[e.sub].status # "none"
    BY <1>3, <1>5 DEF ServiceInv, EventsFit
  <2>4. /\ c.stage \in {"issue", "list", "members"}
        /\ c.stage = "members" <=> e.type = "deleted"
    BY <1>3, <2>1 DEF FirstStage, AnyEvent
  <2> HIDE DEF c
  <2>5. plan[e.sub].end \in Nat
    BY <1>3 DEF AnyEvent, LicenceInv, LicenceShape
  <2>6. RequestFits(c)
    BY <2>1, <2>3, <2>4, <2>5 DEF RequestFits
  <2>7. EventsFit' /\ RequestsFit' /\ KeysFit' /\ NothingDenied'
    BY <1>2, <2>1, <2>2, <2>4, <2>6, MovingKeepsFit
  <2>8. ServiceIsComing'
    BY <1>2, <2>1, <2>2, <2>4, MovingKeepsService
  <2> QED BY <2>7, <2>8 DEF ServiceInv
<1> QED BY <1>4, <1>5

\* The record of a new licence runs to the end of the period that was paid.
LEMMA PutRecordKeepsService ==
    ASSUME LicenceInv, ServiceInv, NEW h \in Handlers, PutRecord(h)
    PROVE  ServiceInv'
<1>1. PICK k \in Keys \ DOMAIN record, s \in handler[h].sub :
          /\ record' = [x \in DOMAIN record \cup {k} |->
                          IF x = k THEN [sub |-> s, issued |-> today,
                                         expiry |-> handler[h].expiry]
                          ELSE record[x]]
          /\ Proceed(h, [handler[h] EXCEPT !.stage = "index", !.key = k])
  BY DEF PutRecord
<1>2. /\ UNCHANGED <<stripe, outbox, seen, index, denied, handlerFaults>>
      /\ handler[h].stage = "issue" /\ handler[h] \in AnyHandler /\ RequestFits(handler[h])
  BY DEF PutRecord, LicenceInv, LicenceShape, ServiceInv, RequestsFit
<1> DEFINE c == [handler[h] EXCEPT !.stage = "index", !.key = k]
<1>3. /\ c \in AnyHandler /\ c.stage = "index" /\ c.key = k /\ c.sub = handler[h].sub
      /\ c.event = handler[h].event
  BY <1>2 DEF AnyHandler, HandlerStages
<1>4. Proceed(h, c)
  BY <1>1
<1> HIDE DEF c
<1>5. /\ record'[k].sub = s /\ record'[k].expiry = handler[h].expiry
      /\ DOMAIN record' = DOMAIN record \cup {k} /\ RecordsStay
  BY <1>1, <1>2 DEF RecordsStay
<1>6. RequestFits(c) /\ plan[s].status # "none"
  BY <1>2, <1>3 DEF RequestFits
<1>7. c.event # {} => record'[k].expiry >= plan[s].end
  BY <1>2, <1>3, <1>5 DEF RequestFits
<1>8. EventsFit' /\ RequestsFit' /\ KeysFit' /\ NothingDenied'
  BY <1>1, <1>2, <1>3, <1>4, <1>5, <1>6, <1>7, MovingKeepsFit
<1>9. ServiceIsComing'
  BY <1>2, <1>3, <1>4, <1>5, MovingKeepsService
<1> QED BY <1>8, <1>9 DEF ServiceInv

\* A request that answers; what it was to leave, it has left.
LEMMA AnsweringKeepsService ==
    ASSUME LicenceInv, ServiceInv, NEW h \in Handlers, Answer(h), handler[h].stage # "mark",
           UNCHANGED <<stripe, seen, handlerFaults>>,
           RecordsStay, DOMAIN record' = DOMAIN record,
           denied' = denied \/ \E s \in Subscriptions : plan[s].status = "cancelled",
           handler[h].event # {} /\ handler[h].stage \in {"issue", "list", "renew", "index"}
           => \A s \in handler[h].sub :
                 \E k \in index' : record'[k].sub = s /\ record'[k].expiry >= plan[s].end
    PROVE  ServiceInv'
<1>1. /\ Proceed(h, AtRest) /\ outbox' = outbox \ handler[h].event
      /\ AtRest \in AnyHandler /\ AtRest.stage = "idle"
  BY IdleIsHandler DEF Answer, AtRest
<1>2. handler[h].event \subseteq seen
  BY DEF LicenceInv, MarksExclude
<1>3. EventsFit' /\ RequestsFit' /\ KeysFit' /\ NothingDenied'
  BY <1>1, <1>2, RestFits, MovingKeepsFit
<1>4. ServiceIsComing'
  BY <1>1, <1>2, MovingKeepsService
<1> QED BY <1>3, <1>4 DEF ServiceInv

\* With the key in the index the paid period is served; the answer may be sent.
LEMMA AddToIndexKeepsService ==
    ASSUME LicenceInv, ServiceInv, NEW h \in Handlers, AddToIndex(h)
    PROVE  ServiceInv'
<1>1. /\ Answer(h) /\ handler[h].stage = "index" /\ index' = index \cup {handler[h].key}
      /\ UNCHANGED <<stripe, seen, record, denied, handlerFaults>>
  BY DEF AddToIndex
<1>2. RecordsStay
  BY <1>1 DEF RecordsStay
<1>3. ASSUME handler[h].event # {}, NEW s \in handler[h].sub
      PROVE  record'[handler[h].key].sub = s /\ record'[handler[h].key].expiry >= plan[s].end
  <2>1. \A t \in handler[h].sub : t = s
    BY <1>3 DEF ServiceInv, RequestsFit, RequestFits
  <2> QED BY <1>1, <1>3, <2>1 DEF ServiceInv, KeysFit
<1> QED BY <1>1, <1>2, <1>3, AnsweringKeepsService

\* A renewed record serves the period of its invoice and takes nothing from a longer one.
LEMMA PutRenewalKeepsService ==
    ASSUME LicenceInv, ServiceInv, NEW h \in Handlers, PutRenewal(h)
    PROVE  ServiceInv'
<1>1. /\ Answer(h) /\ handler[h].stage = "renew"
      /\ record' = [record EXCEPT ![handler[h].key].expiry = handler[h].expiry]
      /\ UNCHANGED <<stripe, seen, index, denied, handlerFaults>>
  BY DEF PutRenewal
<1>2. /\ record \in [DOMAIN record -> AnyRecord] /\ index \subseteq DOMAIN record
      /\ handler[h].key \in index /\ record[handler[h].key].sub \in handler[h].sub
      /\ RequestFits(handler[h])
  BY <1>1 DEF LicenceInv, LicenceShape, ServiceInv, KeysFit, RequestsFit
<1>3. /\ DOMAIN record' = DOMAIN record
      /\ record'[handler[h].key].sub = record[handler[h].key].sub
      /\ record'[handler[h].key].expiry = handler[h].expiry
      /\ \A k \in DOMAIN record : k # handler[h].key => record'[k] = record[k]
  BY <1>1, <1>2 DEF AnyRecord
<1>4. handler[h].expiry >= plan[record[handler[h].key].sub].end
  BY <1>1, <1>2 DEF RequestFits
<1>5. RecordsStay
  BY <1>1, <1>3, <1>4 DEF RecordsStay
<1>6. ASSUME handler[h].event # {}, NEW s \in handler[h].sub
      PROVE  record'[handler[h].key].sub = s /\ record'[handler[h].key].expiry >= plan[s].end
  <2>1. \A t \in handler[h].sub : t = s
    BY <1>2, <1>6 DEF RequestFits
  <2> QED BY <1>2, <1>3, <1>4, <2>1
<1> QED BY <1>1, <1>2, <1>3, <1>5, <1>6, AnsweringKeepsService

\* The look-up of a renewal finds the key of the subscription, or none.
LEMMA FindRecordKeepsService ==
    ASSUME LicenceInv, ServiceInv, NEW h \in Handlers, FindRecord(h)
    PROVE  ServiceInv'
<1>1. /\ UNCHANGED <<stripe, outbox, seen, record, index, denied, handlerFaults>>
      /\ handler[h].stage = "list" /\ handler[h] \in AnyHandler /\ RequestFits(handler[h])
      /\ RecordsStay
  BY DEF FindRecord, LicenceInv, LicenceShape, ServiceInv, RequestsFit, RecordsStay, redis
<1> DEFINE x == handler[h].expiry + Grace
<1>2. x \in Nat /\ \A s \in handler[h].sub : x >= plan[s].end
  <2>1. \A s \in handler[h].sub : plan[s].end \in Nat /\ handler[h].expiry >= plan[s].end
    BY <1>1 DEF RequestFits, AnyHandler, LicenceInv, LicenceShape
  <2>2. handler[h].expiry \in Nat /\ Grace \in Nat
    BY <1>1, LicenceAssumption DEF AnyHandler
  <2> QED BY <2>1, <2>2
<1>3. PICK c \in AnyHandler :
          /\ Proceed(h, c) /\ c.event = handler[h].event /\ c.sub = handler[h].sub
          /\ c.stage \in {"renew", "issue"} /\ c.expiry = x
          /\ c.stage = "renew" => c.key \in index /\ record[c.key].sub \in c.sub
  <2>1. CASE \E k \in index :
                /\ record[k].sub \in handler[h].sub
                /\ Proceed(h, [handler[h] EXCEPT !.stage = "renew", !.key = k,
                                                 !.expiry = @ + Grace])
    <3>1. PICK k \in index :
                /\ record[k].sub \in handler[h].sub
                /\ Proceed(h, [handler[h] EXCEPT !.stage = "renew", !.key = k,
                                                 !.expiry = @ + Grace])
      BY <2>1
    <3>2. k \in Keys
      BY DEF LicenceInv, LicenceShape
    <3> DEFINE d == [handler[h] EXCEPT !.stage = "renew", !.key = k, !.expiry = x]
    <3> HIDE DEF x
    <3>3. /\ d \in AnyHandler /\ d.event = handler[h].event /\ d.stage = "renew" /\ d.key = k
          /\ d.sub = handler[h].sub /\ d.expiry = x
      BY <1>1, <1>2, <3>2 DEF AnyHandler, HandlerStages
    <3> USE DEF x
    <3>4. Proceed(h, d)
      BY <3>1
    <3> HIDE DEF d, x
    <3> QED BY <3>1, <3>3, <3>4
  <2>2. CASE Proceed(h, [handler[h] EXCEPT !.stage = "issue", !.expiry = @ + Grace])
    <3> DEFINE d == [handler[h] EXCEPT !.stage = "issue", !.expiry = x]
    <3> HIDE DEF x
    <3>1. /\ d \in AnyHandler /\ d.event = handler[h].event /\ d.stage = "issue"
          /\ d.sub = handler[h].sub /\ d.expiry = x
      BY <1>1, <1>2 DEF AnyHandler, HandlerStages
    <3> USE DEF x
    <3>2. Proceed(h, d)
      BY <2>2
    <3> HIDE DEF d, x
    <3> QED BY <3>1, <3>2
  <2> QED BY <2>1, <2>2 DEF FindRecord
<1> HIDE DEF x
<1>4. RequestFits(c)
  BY <1>1, <1>2, <1>3 DEF RequestFits
<1>5. EventsFit' /\ RequestsFit' /\ KeysFit' /\ NothingDenied'
  BY <1>1, <1>3, <1>4, MovingKeepsFit
<1>6. ServiceIsComing'
  BY <1>1, <1>3, MovingKeepsService
<1> QED BY <1>5, <1>6 DEF ServiceInv

\* A request that revokes is about a subscription that was cancelled.
LEMMA RevokersFollowCancel ==
    ASSUME LicenceInv, ServiceInv, NEW h \in Handlers, handler[h].stage \in {"members", "revoke"}
    PROVE  \E s \in Subscriptions : plan[s].status = "cancelled"
<1>1. PICK e \in handler[h].event : e.type = "deleted"
  BY DEF ServiceInv, RequestsFit, RequestFits
<1>2. e \in emitted /\ e \in AnyEvent
  BY DEF LicenceInv, LicenceShape, MarksExclude
<1> QED BY <1>1, <1>2 DEF LicenceInv, DoomIsComing, AnyEvent

\* Revocation only touches the keys of a subscription that was cancelled.
LEMMA RevokingKeepsService ==
    ASSUME LicenceInv, ServiceInv, NEW h \in Handlers, ListKeys(h) \/ RevokeKey(h)
    PROVE  ServiceInv'
<1>1. /\ UNCHANGED <<stripe, seen, record, index, handlerFaults>>
      /\ handler[h].stage \in {"members", "revoke"} /\ handler[h] \in AnyHandler
      /\ RequestFits(handler[h]) /\ RecordsStay
  BY DEF ListKeys, RevokeKey, redis, LicenceInv, LicenceShape, ServiceInv, RequestsFit, RecordsStay
<1>2. \E s \in Subscriptions : plan[s].status = "cancelled"
  BY <1>1, RevokersFollowCancel
<1>3. CASE Answer(h)
  BY <1>1, <1>2, <1>3, AnsweringKeepsService
<1>4. ASSUME NEW keys \in SUBSET Keys,
             Proceed(h, [handler[h] EXCEPT !.stage = "revoke", !.keys = keys]), outbox' = outbox
      PROVE  ServiceInv'
  <2> DEFINE c == [handler[h] EXCEPT !.stage = "revoke", !.keys = keys]
  <2>1. /\ c \in AnyHandler /\ c.stage = "revoke" /\ c.event = handler[h].event
        /\ c.sub = handler[h].sub
    BY <1>1 DEF AnyHandler, HandlerStages
  <2>2. Proceed(h, c)
    BY <1>4
  <2> HIDE DEF c
  <2>3. RequestFits(c)
    BY <1>1, <2>1 DEF RequestFits
  <2>4. EventsFit' /\ RequestsFit' /\ KeysFit' /\ NothingDenied'
    BY <1>1, <1>2, <1>4, <2>1, <2>2, <2>3, MovingKeepsFit
  <2>5. ServiceIsComing'
    BY <1>1, <1>4, <2>1, <2>2, MovingKeepsService
  <2> QED BY <2>4, <2>5 DEF ServiceInv
<1>5. CASE ListKeys(h)
  <2>1. index \in SUBSET Keys
    BY DEF LicenceInv, LicenceShape
  <2> QED BY <1>3, <1>4, <1>5, <2>1 DEF ListKeys
<1>6. CASE RevokeKey(h)
  <2>1. PICK k \in handler[h].keys :
          \/ Answer(h)
          \/ Proceed(h, [handler[h] EXCEPT !.keys = @ \ {k}]) /\ UNCHANGED outbox
    BY <1>6 DEF RevokeKey
  <2>2. handler[h].stage = "revoke"
    BY <1>6 DEF RevokeKey
  <2>3. /\ handler[h].keys \ {k} \in SUBSET Keys
        /\ [handler[h] EXCEPT !.keys = @ \ {k}]
             = [handler[h] EXCEPT !.stage = "revoke", !.keys = handler[h].keys \ {k}]
    BY <1>1, <2>2 DEF AnyHandler
  <2> QED BY <1>3, <1>4, <2>1, <2>3
<1> QED BY <1>5, <1>6

\* A failure promises nothing any more.
LEMMA HandlerFailsKeepsService ==
    ASSUME LicenceInv, ServiceInv, NEW h \in Handlers, HandlerFails(h)
    PROVE  ServiceInv'
<1>1. /\ UNCHANGED <<stripe, outbox, seen, record, index, denied>>
      /\ Proceed(h, AtRest) /\ handlerFaults' = handlerFaults + 1 /\ handlerFaults \in Nat
      /\ AtRest \in AnyHandler /\ AtRest.stage = "idle" /\ RecordsStay
  BY IdleIsHandler DEF HandlerFails, LicenceInv, LicenceShape, AtRest, redis, RecordsStay
<1>2. EventsFit' /\ RequestsFit' /\ KeysFit' /\ NothingDenied'
  BY <1>1, RestFits, MovingKeepsFit
<1>3. ServiceIsComing'
  BY <1>1 DEF ServiceIsComing
<1> QED BY <1>2, <1>3 DEF ServiceInv

\* A licence issued by hand is one more key of a subscription that is paid for.
LEMMA ReissueKeepsService ==
    ASSUME LicenceInv, ServiceInv, NEW h \in Handlers, Reissue(h)
    PROVE  ServiceInv'
<1>1. PICK k \in index :
          Proceed(h, [AtRest EXCEPT !.stage = "issue", !.sub = {record[k].sub},
                                  !.expiry = today + 1])
  BY DEF Reissue
<1>2. /\ UNCHANGED <<stripe, outbox, seen, record, index, denied, handlerFaults>>
      /\ handler[h].event = {} /\ RecordsStay
  BY DEF Reissue, AtRest, redis, RecordsStay
<1> DEFINE c == [AtRest EXCEPT !.stage = "issue", !.sub = {record[k].sub},
                             !.expiry = today + 1]
<1>3. c \in AnyHandler /\ c.event = {} /\ c.stage = "issue" /\ c.sub = {record[k].sub}
  <2>1. record[k].sub \in Subscriptions /\ today + 1 \in Nat
    BY DEF LicenceInv, LicenceShape, AnyRecord
  <2> QED BY <2>1 DEF AtRest, AnyHandler, HandlerStages
<1>4. Proceed(h, c)
  BY <1>1
<1> HIDE DEF c
<1>5. RequestFits(c)
  <2>1. plan[record[k].sub].status # "none"
    BY DEF LicenceInv, LicenceShape, ServiceInv, RequestsFit
  <2> QED BY <1>3, <2>1 DEF RequestFits
<1>6. EventsFit' /\ RequestsFit' /\ KeysFit' /\ NothingDenied'
  BY <1>2, <1>3, <1>4, <1>5, MovingKeepsFit
<1>7. ServiceIsComing'
  BY <1>2, <1>3, <1>4, MovingKeepsService
<1> QED BY <1>6, <1>7 DEF ServiceInv

-----------------------------------------------------------------------------

\* As long as no command fails, whoever pays holds a lasting licence or will hold it when
\* what is under way is done; and that however creations, invoices, renewals, reissues and
\* repeated deliveries overtake each other.
THEOREM ServiceInvariant == LicenceSpec => []ServiceInv
<1>1. LicenceInit => ServiceInv
  BY InitServiceInv
<1>2. LicenceInv /\ LicenceInv' /\ ServiceInv /\ [LicenceNext]_licenceVars => ServiceInv'
  <2> SUFFICES ASSUME LicenceInv, LicenceInv', ServiceInv, [LicenceNext]_licenceVars
               PROVE  ServiceInv'
    OBVIOUS
  <2>1. CASE StripeStep
    BY <2>1, StripeKeepsService
  <2>2. ASSUME NEW h \in Handlers, NEW e \in emitted, Deliver(h, e) PROVE ServiceInv'
    BY <2>2, DeliverKeepsService
  <2>3. ASSUME NEW h \in Handlers, HandlerStep(h) PROVE ServiceInv'
    BY <2>3, MarkSeenKeepsService, PutRecordKeepsService, AddToIndexKeepsService,
       FindRecordKeepsService, PutRenewalKeepsService, RevokingKeepsService DEF HandlerStep
  <2>4. ASSUME NEW h \in Handlers, HandlerFails(h) \/ Reissue(h) PROVE ServiceInv'
    BY <2>4, HandlerFailsKeepsService, ReissueKeepsService
  <2>5. CASE UNCHANGED licenceVars
    BY <2>5 DEF licenceVars, stripe, redis, ServiceInv, EventsFit, RequestsFit, RequestFits, KeysFit,
       NothingDenied, ServiceIsComing, Served
  <2> QED BY <2>1, <2>2, <2>3, <2>4, <2>5 DEF LicenceNext
<1> QED BY <1>1, <1>2, LicenceInvariant, PTL DEF LicenceSpec

\* When every event has its answer and no command failed, whoever pays and has never
\* cancelled holds a usable licence to the end of the period (recordRenewal, mintAndPersist).
THEOREM PayersAreServed == LicenceSpec => []PaidHasLicence
<1>1. LicenceInv /\ ServiceInv => PaidHasLicence
  <2> SUFFICES ASSUME LicenceInv, ServiceInv, Settled, NEW s \in Subscriptions,
                      plan[s].status = "active",
                      \A t \in Subscriptions : plan[t].status # "cancelled",
                      \A k \in DOMAIN record :
                         ~(Usable(k) /\ record[k].sub = s /\ record[k].expiry >= plan[s].end)
               PROVE  FALSE
    BY DEF PaidHasLicence, Unserved
  <2>1. Served(s)
    BY DEF ServiceInv, ServiceIsComing, Settled
  <2>2. PICK k \in index : record[k].sub = s /\ record[k].expiry >= plan[s].end
    BY <2>1 DEF Served, Settled, Delivered, AtRest
  <2>3. denied = {}
    BY DEF ServiceInv, NothingDenied
  <2> QED BY <2>2, <2>3 DEF Usable, LicenceInv, LicenceShape
<1> QED BY <1>1, LicenceInvariant, ServiceInvariant, PTL
-----------------------------------------------------------------------------
(* Times and bounds: the rest of the type.                                 *)

\* A request at work is about one subscription and one event at most, and holds no key
\* that is not the customer's; the grace is added once.
Works(r) ==
    r # AtRest =>
        /\ r \in Busy
        /\ r.event \subseteq emitted /\ r.keys \subseteq index
        /\ r.stage \in {"mark", "list"} => r.expiry \in Times

InRange ==
    /\ today <= MaxClock
    /\ \A s \in Subscriptions : plan[s].end \in Times
    /\ emitted \subseteq Event
    /\ \A k \in DOMAIN record : record[k] \in Record
    /\ denied \subseteq index
    /\ \A h \in Handlers : Works(handler[h])
    /\ minted \subseteq Keys \X emitted
    /\ redeliveries \in Nat /\ handlerFaults + redeliveries <= MaxMishaps

\* The times of the bounds.
LEMMA TimesFit ==
    /\ MaxClock \in Nat /\ Grace \in Nat
    /\ 0 \in Times /\ Times \subseteq Expiries
    /\ \A t \in Times : t \in Nat /\ t + Grace \in Expiries
    /\ \A t \in Nat : t <= MaxClock => t \in Times /\ t + 1 \in Times
BY LicenceAssumption DEF Times, Expiries

\* At rest a request holds nothing, and at work it is a request like any other.
LEMMA WorkIsHandler ==
    /\ Works(AtRest) /\ Works(AtRest)' /\ AtRest.stage = "idle"
    /\ \A r \in Busy : r.stage # "idle" /\ r # AtRest
BY DEF Works, AtRest, Busy

\* An event that was sent.
LEMMA EventsHaveTypes ==
    ASSUME InRange, NEW e \in emitted
    PROVE  /\ e \in Event /\ e.sub \in Subscriptions /\ e.end \in Times
           /\ FirstStage(e) \in {"issue", "list", "members"}
BY DEF InRange, Event, FirstStage

\* A request that takes a step: the others hold what they held.
LEMMA MovingKeepsRange ==
    ASSUME LicenceShape, InRange, NEW h \in Handlers, NEW c \in AnyHandler, Proceed(h, c),
           UNCHANGED stripe, Works(c)', index \subseteq index', denied' \subseteq index',
           \A k \in DOMAIN record' : record'[k] \in Record,
           minted' \subseteq Keys \X emitted,
           redeliveries' \in Nat, handlerFaults' + redeliveries' <= MaxMishaps
    PROVE  InRange'
<1>1. /\ handler'[h] = c
      /\ \A g \in Handlers : g # h => handler'[g] = handler[g]
  BY HandlersMove
<1>2. ASSUME NEW g \in Handlers PROVE Works(handler[g])'
  <2>1. CASE g = h
    BY <1>1, <2>1 DEF Works
  <2>2. CASE g # h
    <3>1. Works(handler[g]) /\ handler'[g] = handler[g]
      BY <1>1, <2>2 DEF InRange
    <3> QED BY <3>1 DEF Works, stripe
  <2> QED BY <2>1, <2>2
<1> QED BY <1>2 DEF InRange, stripe

\* At first nothing has happened.
LEMMA InitInRange == ASSUME LicenceInit PROVE InRange
BY TimesFit, WorkIsHandler, LicenceAssumption DEF LicenceInit, InRange

\* A subscription is paid one unit ahead, and its events say so.
LEMMA StripeKeepsRange ==
    ASSUME LicenceShape, InRange, StripeStep
    PROVE  InRange'
<1>1. UNCHANGED <<redis, handler, minted, handlerFaults, redeliveries>>
  BY DEF StripeStep, Subscribe, Charge, Cancel, Tick
<1>2. /\ today \in Nat /\ today <= MaxClock /\ today + 1 \in Times
      /\ \A s \in Subscriptions : plan[s].end \in Times
      /\ plan \in [Subscriptions -> [status : {"none", "active", "cancelled"}, end : Nat]]
  BY TimesFit DEF LicenceShape, InRange
<1>3. /\ today' <= MaxClock /\ (\A s \in Subscriptions : plan'[s].end \in Times)
      /\ emitted \subseteq emitted' /\ emitted' \subseteq Event
  <2>1. ASSUME NEW s \in Subscriptions, Subscribe(s) \/ Charge(s)
        PROVE  /\ today' <= MaxClock /\ (\A t \in Subscriptions : plan'[t].end \in Times)
               /\ emitted \subseteq emitted' /\ emitted' \subseteq Event
    <3>1. plan' = [plan EXCEPT ![s] = [status |-> "active", end |-> today + 1]]
          \/ plan' = [plan EXCEPT ![s].end = today + 1]
      BY <2>1 DEF Subscribe, Charge
    <3>2. \A t \in Subscriptions : plan'[t].end \in Times
      BY <1>2, <3>1
    <3>3. /\ {[type |-> t, sub |-> s, end |-> today + 1] : t \in {"created", "paid"}} \subseteq Event
          /\ {[type |-> t, sub |-> s, end |-> today + 1] : t \in {"paid", "updated"}} \subseteq Event
      BY <1>2 DEF Event
    <3> QED BY <1>2, <2>1, <3>2, <3>3 DEF Subscribe, Charge, Emit, InRange
  <2>2. ASSUME NEW s \in Subscriptions, Cancel(s)
        PROVE  /\ today' <= MaxClock /\ (\A t \in Subscriptions : plan'[t].end \in Times)
               /\ emitted \subseteq emitted' /\ emitted' \subseteq Event
    <3>1. \A t \in Subscriptions : plan'[t].end \in Times
      BY <1>2, <2>2 DEF Cancel
    <3>2. [type |-> "deleted", sub |-> s, end |-> plan[s].end] \in Event
      BY <1>2 DEF Event
    <3> QED BY <1>2, <2>2, <3>1, <3>2 DEF Cancel, Emit, InRange
  <2>3. CASE Tick
    BY <1>2, <2>3, TimesFit DEF Tick, InRange
  <2> QED BY <2>1, <2>2, <2>3 DEF StripeStep
<1>4. ASSUME NEW h \in Handlers PROVE Works(handler[h])'
  BY <1>1, <1>3 DEF InRange, Works, redis
<1> QED BY <1>1, <1>3, <1>4 DEF InRange, redis

\* Stripe sends an event once more than it must only while the bound allows.
LEMMA DeliverKeepsRange ==
    ASSUME LicenceShape, InRange, NEW h \in Handlers, NEW e \in emitted, Deliver(h, e)
    PROVE  InRange'
<1>a. PICK c : c = [AtRest EXCEPT !.stage = "mark", !.event = {e}, !.sub = {e.sub}]
  OBVIOUS
<1>1. /\ e \in Event /\ e.sub \in Subscriptions /\ e \in AnyEvent
  BY EventsHaveTypes DEF LicenceShape
<1>2. c = [stage |-> "mark", event |-> {e}, sub |-> {e.sub}, key |-> NoKey,
           expiry |-> 0, keys |-> {}]
  BY <1>a DEF AtRest
<1>3. c \in Busy /\ c \in AnyHandler
  BY <1>1, <1>2, TimesFit DEF Busy, AnyHandler, HandlerStages
<1>4. c.event = {e} /\ c.keys = {} /\ c.expiry = 0
  BY <1>2
<1>5. UNCHANGED <<stripe, outbox, redis, minted, doomed, handlerFaults>> /\ Proceed(h, c)
  BY <1>a DEF Deliver, Proceed
<1>6. Works(c)'
  BY <1>3, <1>4, <1>5, TimesFit DEF Works, stripe
<1>7. redeliveries' \in Nat /\ handlerFaults' + redeliveries' <= MaxMishaps
  BY <1>5, LicenceAssumption DEF Deliver, MoreMishaps, InRange, LicenceShape
<1> QED BY <1>3, <1>5, <1>6, <1>7, MovingKeepsRange DEF redis, InRange

\* A request goes on, or is answered, and the records keep their times.
LEMMA StepKeepsRange ==
    ASSUME LicenceShape, InRange, NEW h \in Handlers, HandlerStep(h)
    PROVE  InRange'
<1> DEFINE r == handler[h]
<1>0. /\ r \in AnyHandler /\ Works(r) /\ handlerFaults \in Nat
      /\ UNCHANGED <<stripe, doomed, handlerFaults, redeliveries>>
  BY DEF LicenceShape, InRange, HandlerStep, MarkSeen, PutRecord, AddToIndex, FindRecord, PutRenewal,
     ListKeys, RevokeKey, redis
<1>1. r.stage # "idle"
  BY DEF HandlerStep, MarkSeen, PutRecord, AddToIndex, FindRecord, PutRenewal, ListKeys, RevokeKey
<1>2. /\ r \in Busy /\ r.event \subseteq emitted /\ r.keys \subseteq index
      /\ r.stage \in {"mark", "list"} => r.expiry \in Times
  BY <1>0, <1>1, WorkIsHandler DEF Works
<1>3. /\ redeliveries' \in Nat /\ handlerFaults' + redeliveries' <= MaxMishaps
      /\ \A k \in DOMAIN record : record[k] \in Record
      /\ denied \subseteq index /\ minted \subseteq Keys \X emitted
      /\ emitted' = emitted
  BY <1>0 DEF InRange, stripe
\* What it takes to go on with another stage, key, expiry and list of keys.
<1>4. ASSUME NEW s \in HandlerStages \ {"idle"}, NEW k \in Keys \cup {NoKey},
             NEW x \in Expiries, NEW ks \in SUBSET index, index \subseteq Keys, index' = index,
             s \in {"mark", "list"} => x \in Times,
             NEW c, c = [r EXCEPT !.stage = s, !.key = k, !.expiry = x, !.keys = ks]
      PROVE  c \in AnyHandler /\ Works(c)'
  <2>1. c = [stage |-> s, event |-> r.event, sub |-> r.sub, key |-> k, expiry |-> x, keys |-> ks]
    BY <1>0, <1>4 DEF AnyHandler
  <2>2. c \in Busy
    BY <1>2, <1>4, <2>1 DEF Busy
  <2>3. x \in Nat
    BY <1>4, LicenceAssumption DEF Expiries
  <2>4. c \in AnyHandler
    BY <1>0, <1>4, <2>1, <2>3 DEF AnyHandler
  <2>5. c.stage = s /\ c.event = r.event /\ c.expiry = x /\ c.keys = ks
    BY <2>1
  <2> QED BY <1>2, <1>3, <1>4, <2>2, <2>4, <2>5 DEF Works
<1>5. index \subseteq Keys /\ DOMAIN record \subseteq Keys
  BY DEF LicenceShape
<1>6. /\ r.stage \in HandlerStages \ {"idle"} /\ r.key \in Keys \cup {NoKey} /\ r.expiry \in Expiries
      /\ r.keys \in SUBSET index
  BY <1>2 DEF Busy
<1>7. AtRest \in AnyHandler /\ Works(AtRest)'
  BY IdleIsHandler, WorkIsHandler
<1>8. \A e \in r.event : e \in emitted
  BY <1>2
<1>9. CASE MarkSeen(h)
  <2>1. UNCHANGED <<record, index, denied, minted>>
    BY <1>9 DEF MarkSeen
  <2>2. PICK e \in r.event : \/ Answer(h)
                            \/ Proceed(h, [r EXCEPT !.stage = FirstStage(e), !.expiry = e.end])
    BY <1>9 DEF MarkSeen
  <2>3. e.end \in Times /\ FirstStage(e) \in {"issue", "list", "members"}
    BY <1>8, EventsHaveTypes
  <2>a. PICK c : c = [r EXCEPT !.stage = FirstStage(e), !.expiry = e.end]
    OBVIOUS
  <2>4. c = [r EXCEPT !.stage = FirstStage(e), !.key = r.key, !.expiry = e.end, !.keys = r.keys]
    BY <1>0, <2>a DEF AnyHandler
  <2>5. e.end \in Expiries /\ FirstStage(e) \in HandlerStages \ {"idle"}
    BY <2>3, TimesFit DEF HandlerStages
  <2>6. c \in AnyHandler /\ Works(c)'
    BY <1>4, <1>5, <1>6, <2>1, <2>3, <2>4, <2>5
  <2>7. \E d \in {AtRest, c} : Proceed(h, d)
    BY <2>a, <2>2 DEF Answer
  <2> QED BY <1>0, <1>3, <1>7, <2>1, <2>6, <2>7, MovingKeepsRange
<1>10. CASE PutRecord(h)
  <2>1. PICK k \in Keys \ DOMAIN record, s \in r.sub :
           /\ record' = [x \in DOMAIN record \cup {k} |->
                           IF x = k THEN [sub |-> s, issued |-> today, expiry |-> r.expiry]
                           ELSE record[x]]
           /\ minted' = minted \cup {<<k, e>> : e \in r.event}
           /\ Proceed(h, [r EXCEPT !.stage = "index", !.key = k])
    BY <1>10 DEF PutRecord
  <2>2. UNCHANGED <<index, denied>>
    BY <1>10 DEF PutRecord
  <2>3. s \in Subscriptions /\ today \in Times
    BY <1>0, TimesFit DEF AnyHandler, LicenceShape, InRange
  <2>4. \A x \in DOMAIN record' : record'[x] \in Record
    BY <1>3, <1>6, <2>1, <2>3 DEF Record
  <2>5. minted' \subseteq Keys \X emitted
    BY <1>3, <1>8, <2>1
  <2>a. PICK c : c = [r EXCEPT !.stage = "index", !.key = k]
    OBVIOUS
  <2>6. c = [r EXCEPT !.stage = "index", !.key = k, !.expiry = r.expiry, !.keys = r.keys]
    BY <1>0, <2>a DEF AnyHandler
  <2>7. "index" \in HandlerStages \ {"idle"} /\ k \in Keys \cup {NoKey}
    BY DEF HandlerStages
  <2>8. c \in AnyHandler /\ Works(c)'
    BY <1>4, <1>5, <1>6, <2>2, <2>6, <2>7
  <2>9. Proceed(h, c)
    BY <2>a, <2>1
  <2> QED BY <1>0, <1>3, <2>2, <2>4, <2>5, <2>8, <2>9, MovingKeepsRange
<1>11. CASE AddToIndex(h)
  <2>1. Proceed(h, AtRest) /\ UNCHANGED <<record, denied, minted>> /\ index \subseteq index'
    BY <1>11 DEF AddToIndex, Answer
  <2> QED BY <1>0, <1>3, <1>7, <2>1, MovingKeepsRange
<1>12. CASE FindRecord(h)
  <2>1. UNCHANGED <<record, index, denied, minted>> /\ r.stage = "list"
    BY <1>12 DEF FindRecord, redis
  <2>2. r.expiry + Grace \in Expiries
    BY <1>2, <2>1, TimesFit
  <2>3. PICK s \in {"renew", "issue"}, k \in index \cup {r.key} :
           Proceed(h, [r EXCEPT !.stage = s, !.key = k, !.expiry = r.expiry + Grace])
    <3>1. CASE \E k \in index : Proceed(h, [r EXCEPT !.stage = "renew", !.key = k,
                                                    !.expiry = @ + Grace])
      BY <3>1
    <3>2. CASE Proceed(h, [r EXCEPT !.stage = "issue", !.expiry = @ + Grace])
      <4>1. [r EXCEPT !.stage = "issue", !.expiry = @ + Grace]
              = [r EXCEPT !.stage = "issue", !.key = r.key, !.expiry = r.expiry + Grace]
        BY <1>0 DEF AnyHandler
      <4> QED BY <3>2, <4>1
    <3> QED BY <1>12, <3>1, <3>2 DEF FindRecord
  <2>a. PICK c : c = [r EXCEPT !.stage = s, !.key = k, !.expiry = r.expiry + Grace]
    OBVIOUS
  <2>4. c = [r EXCEPT !.stage = s, !.key = k, !.expiry = r.expiry + Grace, !.keys = r.keys]
    BY <1>0, <2>a DEF AnyHandler
  <2>5. s \in HandlerStages \ {"idle"} /\ s \notin {"mark", "list"} /\ k \in Keys \cup {NoKey}
    BY <1>5, <1>6 DEF HandlerStages
  <2>6. c \in AnyHandler /\ Works(c)'
    BY <1>4, <1>5, <1>6, <2>1, <2>2, <2>4, <2>5
  <2>7. Proceed(h, c)
    BY <2>a, <2>3
  <2> QED BY <1>0, <1>3, <2>1, <2>6, <2>7, MovingKeepsRange
<1>13. CASE PutRenewal(h)
  <2>1. /\ Proceed(h, AtRest) /\ UNCHANGED <<index, denied, minted>>
        /\ record' = [record EXCEPT ![r.key].expiry = r.expiry]
    BY <1>13 DEF PutRenewal, Answer
  <2>2. DOMAIN record' = DOMAIN record
    BY <2>1
  <2>3. \A k \in DOMAIN record' : record'[k] \in Record
    BY <1>3, <1>6, <2>1, <2>2 DEF Record
  <2> QED BY <1>0, <1>3, <1>7, <2>1, <2>3, MovingKeepsRange
<1>14. CASE ListKeys(h)
  <2>1. UNCHANGED <<record, index, denied, minted>>
    BY <1>14 DEF ListKeys, redis
  <2>2. Proceed(h, AtRest) \/ Proceed(h, [r EXCEPT !.stage = "revoke", !.keys = index])
    BY <1>14 DEF ListKeys, Answer
  <2>a. PICK c : c = [r EXCEPT !.stage = "revoke", !.keys = index]
    OBVIOUS
  <2>3. c = [r EXCEPT !.stage = "revoke", !.key = r.key, !.expiry = r.expiry, !.keys = index]
    BY <1>0, <2>a DEF AnyHandler
  <2>4. "revoke" \in HandlerStages \ {"idle"}
    BY DEF HandlerStages
  <2>5. c \in AnyHandler /\ Works(c)'
    BY <1>4, <1>5, <1>6, <2>1, <2>3, <2>4
  <2>6. \E d \in {AtRest, c} : Proceed(h, d)
    BY <2>a, <2>2
  <2> QED BY <1>0, <1>3, <1>7, <2>1, <2>5, <2>6, MovingKeepsRange
<1>15. CASE RevokeKey(h)
  <2>1. UNCHANGED <<record, index, minted>>
    BY <1>15 DEF RevokeKey
  <2>2. PICK k \in r.keys : /\ denied' = denied \cup {k}
                            /\ \/ Proceed(h, AtRest)
                               \/ Proceed(h, [r EXCEPT !.keys = r.keys \ {k}])
    BY <1>15 DEF RevokeKey, Answer
  <2>a. PICK c : c = [r EXCEPT !.keys = r.keys \ {k}]
    OBVIOUS
  <2>3. c = [r EXCEPT !.stage = r.stage, !.key = r.key, !.expiry = r.expiry, !.keys = r.keys \ {k}]
    BY <1>0, <2>a DEF AnyHandler
  <2>4. c \in AnyHandler /\ Works(c)'
    BY <1>2, <1>4, <1>5, <1>6, <2>1, <2>3
  <2>5. \E d \in {AtRest, c} : Proceed(h, d)
    BY <2>a, <2>2
  <2>6. denied' \subseteq index'
    BY <1>2, <1>3, <2>1, <2>2
  <2> QED BY <1>0, <1>3, <1>7, <2>1, <2>4, <2>5, <2>6, MovingKeepsRange
<1> QED BY <1>9, <1>10, <1>11, <1>12, <1>13, <1>14, <1>15 DEF HandlerStep

\* A request that fails is gone; one of the operator begins after the newest licence.
LEMMA OthersKeepRange ==
    ASSUME LicenceShape, InRange, NEW h \in Handlers, HandlerFails(h) \/ Reissue(h)
    PROVE  InRange'
<1>1. UNCHANGED <<stripe, record, index, denied, minted>>
  BY DEF HandlerFails, Reissue, redis
<1>2. /\ handlerFaults \in Nat /\ redeliveries \in Nat /\ handlerFaults + redeliveries <= MaxMishaps
      /\ \A k \in DOMAIN record : record[k] \in Record
      /\ denied \subseteq index /\ minted \subseteq Keys \X emitted
  BY DEF LicenceShape, InRange
<1>3. CASE HandlerFails(h)
  <2>1. /\ Proceed(h, AtRest) /\ redeliveries' \in Nat
        /\ handlerFaults' + redeliveries' <= MaxMishaps
    BY <1>2, <1>3, LicenceAssumption DEF HandlerFails, MoreMishaps
  <2> QED BY <1>1, <1>2, <2>1, IdleIsHandler, WorkIsHandler, MovingKeepsRange
<1>4. CASE Reissue(h)
  <2>1. PICK k \in index : Proceed(h, [AtRest EXCEPT !.stage = "issue", !.sub = {record[k].sub},
                                                   !.expiry = today + 1])
    BY <1>4 DEF Reissue
  <2>2. UNCHANGED <<handlerFaults, redeliveries>>
    BY <1>4 DEF Reissue
  <2>a. PICK c : c = [AtRest EXCEPT !.stage = "issue", !.sub = {record[k].sub}, !.expiry = today + 1]
    OBVIOUS
  <2>3. c = [stage |-> "issue", event |-> {}, sub |-> {record[k].sub}, key |-> NoKey,
             expiry |-> today + 1, keys |-> {}]
    BY <2>a DEF AtRest
  <2>4. record[k].sub \in Subscriptions /\ today + 1 \in Times /\ today + 1 \in Nat
    BY <1>2, TimesFit DEF LicenceShape, InRange, Record
  <2>5. c \in Busy /\ c \in AnyHandler
    BY <2>3, <2>4, TimesFit DEF Busy, AnyHandler, HandlerStages
  <2>6. c.stage = "issue" /\ c.event = {} /\ c.keys = {}
    BY <2>3
  <2>7. Works(c)'
    BY <2>5, <2>6 DEF Works
  <2>8. Proceed(h, c)
    BY <2>a, <2>1
  <2> QED BY <1>1, <1>2, <2>2, <2>5, <2>7, <2>8, MovingKeepsRange
<1> QED BY <1>3, <1>4

\* Events, records, requests and counts are always of the forms Licences names, and within
\* its bounds; what is denied was once in the customer's index.
THEOREM LicenceTypeCorrect == LicenceSpec => []LicenceTypeOK
<1>1. LicenceInit => InRange
  BY InitInRange
<1>2. LicenceInv /\ InRange /\ [LicenceNext]_licenceVars => InRange'
  <2> SUFFICES ASSUME LicenceInv, InRange, [LicenceNext]_licenceVars PROVE InRange'
    OBVIOUS
  <2>1. LicenceShape
    BY DEF LicenceInv
  <2>2. CASE StripeStep
    BY <2>1, <2>2, StripeKeepsRange
  <2>3. ASSUME NEW h \in Handlers, NEW e \in emitted, Deliver(h, e) PROVE InRange'
    BY <2>1, <2>3, DeliverKeepsRange
  <2>4. ASSUME NEW h \in Handlers, HandlerStep(h) PROVE InRange'
    BY <2>1, <2>4, StepKeepsRange
  <2>5. ASSUME NEW h \in Handlers, HandlerFails(h) \/ Reissue(h) PROVE InRange'
    BY <2>1, <2>5, OthersKeepRange
  <2>6. CASE UNCHANGED licenceVars
    BY <2>6 DEF licenceVars, stripe, redis, InRange, Works
  <2> QED BY <2>2, <2>3, <2>4, <2>5, <2>6 DEF LicenceNext
<1>3. LicenceInv /\ InRange => LicenceTypeOK
  <2> SUFFICES ASSUME LicenceInv, InRange PROVE LicenceTypeOK
    OBVIOUS
  <2>1. /\ today \in 0..MaxClock
        /\ plan \in [Subscriptions -> [status : {"none", "active", "cancelled"}, end : Times]]
        /\ emitted \in SUBSET Event /\ outbox \in SUBSET emitted /\ seen \in SUBSET emitted
    BY LicenceAssumption DEF LicenceInv, LicenceShape, InRange
  <2>2. /\ DOMAIN record \in SUBSET Keys /\ record \in [DOMAIN record -> Record]
        /\ index \in SUBSET DOMAIN record /\ denied \in SUBSET index /\ doomed \in SUBSET index
    BY DEF LicenceInv, LicenceShape, DoomIsComing, InRange
  <2>3. \A h \in Handlers : handler[h] = AtRest \/ handler[h] \in Busy
    BY DEF InRange, Works
  <2>4. /\ minted \in SUBSET (Keys \X emitted) /\ handlerFaults \in Nat /\ redeliveries \in Nat
        /\ handlerFaults + redeliveries <= MaxMishaps
    BY DEF LicenceInv, LicenceShape, InRange
  <2> QED BY <2>1, <2>2, <2>3, <2>4 DEF LicenceTypeOK
<1> QED BY <1>1, <1>2, <1>3, LicenceInvariant, PTL DEF LicenceSpec

-----------------------------------------------------------------------------
(* The browser.                                                            *)

\* The browser reads what the server keeps and writes none of it.
LEMMA BrowserKeepsServer == ClientSpec => LicenceSpec
<1>1. ClientInit => LicenceInit
  BY DEF ClientInit
<1>2. [ClientNext]_clientVars => [LicenceNext]_licenceVars
  BY DEF ClientNext, clientVars, Refresh, ServerVerifies, VerifyFails, RefreshSettles, CheckoutFills,
     Paste, SaveToken, SaveSettles, Recover, Clear, ReloadTab
<1> QED BY <1>1, <1>2, PTL DEF ClientSpec, LicenceSpec

\* A check is of one token that was signed.
CheckFits(c) ==
    \/ c = NoCheck
    \/ /\ c.op \in {"refresh", "save"}
       /\ \E t \in signed : c.token = {t}
       /\ c.answer \in {"none", "valid", "rejected", "unread", "failed"}

CheckRecord == [op : {"none", "refresh", "save"}, token : SUBSET Token,
                answer : {"none", "valid", "rejected", "unread", "failed"}]

TabFits ==
    /\ signed \subseteq Token
    /\ token = {} \/ \E t \in signed : token = {t}
    /\ tier \in {"free", "paid"}
    /\ check \in [Checks -> CheckRecord]
    /\ \A c \in Checks : CheckFits(check[c])
    /\ userActs \in Nat /\ lostAnswers \in Nat
    /\ userActs + lostAnswers <= MaxTabEvents

\* What the server hands out is a key and an expiry.
LEMMA HandedOutIsToken ==
    ASSUME LicenceShape
    PROVE  AfterCheckout \subseteq Token /\ AfterRecovery \subseteq Token
<1>1. ASSUME NEW earliest PROVE Retrievable(earliest) \subseteq Token
  BY DEF LicenceShape, Retrievable, Token, AnyRecord
<1> QED BY <1>1 DEF AfterCheckout, AfterRecovery

\* One check changes, and what was signed stays signed.
LEMMA CheckMoves ==
    ASSUME TabFits, NEW c \in Checks, NEW new \in CheckRecord, check' = [check EXCEPT ![c] = new],
           CheckFits(new)', signed \subseteq signed', signed' \subseteq Token,
           token' = {} \/ \E t \in signed' : token' = {t},
           tier' \in {"free", "paid"},
           userActs' \in Nat, lostAnswers' \in Nat, userActs' + lostAnswers' <= MaxTabEvents
    PROVE  TabFits'
<1>1. check' \in [Checks -> CheckRecord]
  BY DEF TabFits, CheckRecord
<1>2. ASSUME NEW d \in Checks PROVE CheckFits(check[d])'
  <2>1. CASE d = c
    BY <2>1 DEF TabFits, CheckFits
  <2>2. CASE d # c
    BY <2>2 DEF TabFits, CheckFits
  <2> QED BY <2>1, <2>2
<1> QED BY <1>1, <1>2 DEF TabFits, CheckRecord

\* What a refresh begins with.
LEMMA RefreshBegins ==
    ASSUME TabFits, NEW c \in Checks, NEW stored, BeginRefresh(c, stored),
           stored = {} \/ \E t \in signed' : stored = {t}, signed' \subseteq Token
    PROVE  /\ tier' \in {"free", "paid"}
           /\ \E new \in CheckRecord : check' = [check EXCEPT ![c] = new] /\ CheckFits(new)'
<1>1. NoCheck \in CheckRecord /\ CheckFits(NoCheck)'
  BY DEF NoCheck, CheckRecord, CheckFits
<1>2. CASE stored = {}
  BY <1>1, <1>2 DEF BeginRefresh
<1>3. CASE stored # {}
  <2>1. PICK new : new = [op |-> "refresh", token |-> stored, answer |-> "none"]
    OBVIOUS
  <2>2. new \in CheckRecord /\ CheckFits(new)'
    BY <1>3, <2>1 DEF CheckRecord, CheckFits
  <2> QED BY <1>3, <2>1, <2>2 DEF BeginRefresh
<1> QED BY <1>2, <1>3

\* The tab's steps, one by one.
LEMMA TabKeepsFits ==
    ASSUME LicenceShape, TabFits, NEW c \in Checks,
           \/ Refresh(c) \/ ServerVerifies(c) \/ VerifyFails(c) \/ RefreshSettles(c)
           \/ CheckoutFills(c) \/ Paste(c) \/ SaveSettles(c) \/ Recover(c) \/ Clear(c)
           \/ ReloadTab(c)
    PROVE  TabFits'
<1>1. /\ signed \subseteq Token /\ tier \in {"free", "paid"}
      /\ token = {} \/ \E t \in signed : token = {t}
      /\ check \in [Checks -> CheckRecord] /\ check[c] \in CheckRecord
      /\ \A d \in Checks : CheckFits(check[d])
      /\ userActs \in Nat /\ lostAnswers \in Nat /\ userActs + lostAnswers <= MaxTabEvents
  BY DEF TabFits, CheckRecord
<1>2. NoCheck \in CheckRecord /\ CheckFits(NoCheck)' /\ NoCheck.op = "none"
  BY DEF NoCheck, CheckRecord, CheckFits
<1>3. Act => userActs' \in Nat /\ userActs' + lostAnswers <= MaxTabEvents
  BY <1>1, ClientAssumption DEF Act, MoreEvents
<1>4. CASE Refresh(c)
  <2>1. UNCHANGED <<token, signed, userActs, lostAnswers>> /\ BeginRefresh(c, token)
    BY <1>4 DEF Refresh
  <2>2. /\ tier' \in {"free", "paid"}
        /\ \E new \in CheckRecord : check' = [check EXCEPT ![c] = new] /\ CheckFits(new)'
    BY <1>1, <2>1, RefreshBegins
  <2> QED BY <1>1, <2>1, <2>2, CheckMoves
<1>5. CASE ServerVerifies(c) \/ VerifyFails(c)
  <2>1. /\ check[c] # NoCheck /\ UNCHANGED <<token, tier, signed, userActs>>
        /\ lostAnswers' \in Nat /\ userActs + lostAnswers' <= MaxTabEvents
    BY <1>1, <1>5, ClientAssumption DEF ServerVerifies, VerifyFails, MoreEvents
  <2>2. PICK a \in {"valid", "rejected", "unread", "failed"} :
                check' = [check EXCEPT ![c].answer = a]
    BY <1>5 DEF ServerVerifies, VerifyFails, NoVerdict
  <2>3. PICK new : new = [check[c] EXCEPT !.answer = a]
    OBVIOUS
  <2>4. new \in CheckRecord /\ new.op = check[c].op /\ new.token = check[c].token /\ new.answer = a
    BY <1>1, <2>3 DEF CheckRecord
  <2>5. check' = [check EXCEPT ![c] = new]
    BY <2>2, <2>3
  <2>6. CheckFits(new)'
    BY <1>1, <2>1, <2>4 DEF CheckFits
  <2> QED BY <1>1, <2>1, <2>4, <2>5, <2>6, CheckMoves
<1>6. CASE RefreshSettles(c)
  <2>1. /\ check' = [check EXCEPT ![c] = NoCheck] /\ UNCHANGED <<signed, userActs, lostAnswers>>
        /\ tier' \in {"free", "paid"} /\ token' \in {{}, token}
    BY <1>1, <1>6 DEF RefreshSettles
  <2> QED BY <1>1, <1>2, <2>1, CheckMoves
<1>7. ASSUME NEW t \in Token, SaveToken(c, t) PROVE TabFits'
  <2>1. PICK new : new = [op |-> "save", token |-> {t}, answer |-> "none"]
    OBVIOUS
  <2>2. /\ check' = [check EXCEPT ![c] = new] /\ UNCHANGED <<tier, lostAnswers>> /\ Act
        /\ token' = {t} /\ signed' = signed \cup {t}
    BY <1>7, <2>1 DEF SaveToken
  <2>3. new \in CheckRecord /\ CheckFits(new)'
    BY <2>1, <2>2 DEF CheckRecord, CheckFits
  <2> QED BY <1>1, <1>3, <2>2, <2>3, CheckMoves
<1>8. CASE CheckoutFills(c) \/ Paste(c)
  BY <1>1, <1>7, <1>8, HandedOutIsToken DEF CheckoutFills, Paste
<1>9. CASE SaveSettles(c)
  <2>1. UNCHANGED <<signed, userActs, lostAnswers>>
    BY <1>9 DEF SaveSettles
  <2>2. CASE BeginRefresh(c, token) /\ UNCHANGED token
    <3>1. /\ tier' \in {"free", "paid"}
          /\ \E new \in CheckRecord : check' = [check EXCEPT ![c] = new] /\ CheckFits(new)'
      BY <1>1, <2>1, <2>2, RefreshBegins
    <3> QED BY <1>1, <2>1, <2>2, <3>1, CheckMoves
  <2>3. CASE token' = {} /\ check' = [check EXCEPT ![c] = NoCheck] /\ UNCHANGED tier
    BY <1>1, <1>2, <2>1, <2>3, CheckMoves
  <2> QED BY <1>9, <2>2, <2>3 DEF SaveSettles
<1>10. CASE Recover(c)
  <2>1. PICK t \in AfterRecovery : /\ token' = {t} /\ signed' = signed \cup {t}
                                   /\ BeginRefresh(c, {t})
    BY <1>10 DEF Recover
  <2>2. Act /\ UNCHANGED lostAnswers
    BY <1>10 DEF Recover
  <2>3. t \in Token /\ signed' \subseteq Token
    BY <1>1, <2>1, HandedOutIsToken
  <2>4. /\ tier' \in {"free", "paid"}
        /\ \E new \in CheckRecord : check' = [check EXCEPT ![c] = new] /\ CheckFits(new)'
    BY <2>1, <2>3, RefreshBegins
  <2> QED BY <1>1, <1>3, <2>1, <2>2, <2>3, <2>4, CheckMoves
<1>11. CASE Clear(c)
  <2>1. Act /\ UNCHANGED <<signed, lostAnswers>> /\ token' = {} /\ BeginRefresh(c, {})
    BY <1>11 DEF Clear
  <2>2. /\ tier' \in {"free", "paid"}
        /\ \E new \in CheckRecord : check' = [check EXCEPT ![c] = new] /\ CheckFits(new)'
    BY <1>1, <2>1, RefreshBegins
  <2> QED BY <1>1, <1>3, <2>1, <2>2, CheckMoves
<1>12. CASE ReloadTab(c)
  <2>1. Act /\ UNCHANGED <<token, signed, lostAnswers>>
    BY <1>12 DEF ReloadTab
  <2>2. PICK new : new = [op |-> "refresh", token |-> token, answer |-> "none"]
    OBVIOUS
  <2>3. /\ tier' \in {"free", "paid"}
        /\ \/ check' = [d \in Checks |-> NoCheck]
           \/ token # {} /\ check' = [d \in Checks |-> IF d = c THEN new ELSE NoCheck]
    BY <1>12, <2>2 DEF ReloadTab
  <2>4. new \in CheckRecord
    BY <1>1, <2>2 DEF CheckRecord
  <2>5. token # {} => CheckFits(new)'
    BY <1>1, <2>1, <2>2 DEF CheckFits
  <2>6. check' \in [Checks -> CheckRecord]
    BY <1>2, <2>3, <2>4
  <2>7. ASSUME NEW d \in Checks PROVE CheckFits(check[d])'
    <3>1. check'[d] = NoCheck \/ (token # {} /\ check'[d] = new)
      BY <2>3
    <3> QED BY <1>2, <2>5, <3>1 DEF CheckFits
  <2> QED BY <1>1, <1>3, <2>1, <2>3, <2>6, <2>7 DEF TabFits, CheckRecord
<1> QED BY <1>4, <1>5, <1>6, <1>8, <1>9, <1>10, <1>11, <1>12

\* The browser holds no token that was not signed for the customer, checks one token at a
\* time, and knows two tiers; the server beside it keeps its type.
THEOREM ClientTypeCorrect == ClientSpec => []ClientTypeOK
<1>1. ClientInit => TabFits
  BY ClientAssumption DEF ClientInit, TabFits, CheckRecord, CheckFits, NoCheck
<1>2. LicenceInv /\ TabFits /\ [ClientNext]_clientVars => TabFits'
  <2> SUFFICES ASSUME LicenceInv, TabFits, [ClientNext]_clientVars PROVE TabFits'
    OBVIOUS
  <2>1. LicenceShape
    BY DEF LicenceInv
  <2>2. CASE UNCHANGED tabVars
    BY <2>2 DEF tabVars, TabFits, CheckFits
  <2>3. CASE \E c \in Checks :
                \/ Refresh(c) \/ ServerVerifies(c) \/ VerifyFails(c)
                \/ RefreshSettles(c) \/ CheckoutFills(c) \/ Paste(c) \/ SaveSettles(c)
                \/ Recover(c) \/ Clear(c) \/ ReloadTab(c)
    BY <2>1, <2>3, TabKeepsFits
  <2> QED BY <2>2, <2>3 DEF ClientNext, clientVars
<1>3. LicenceTypeOK /\ TabFits => ClientTypeOK
  BY DEF ClientTypeOK, TabFits, CheckFits
<1> QED BY <1>1, <1>2, <1>3, BrowserKeepsServer, LicenceInvariant, LicenceTypeCorrect, PTL DEF ClientSpec

\* The server's verdict lasts: neither the clock nor the deny-list is ever put back.
LEMMA VerdictsStand ==
    ASSUME LicenceShape, [LicenceNext]_licenceVars
    PROVE  \A t \in Token : ~Accepted(t) => ~Accepted(t)'
<1>1. CASE UNCHANGED licenceVars
  BY <1>1 DEF licenceVars, stripe, redis, Accepted
<1>2. CASE StripeStep
  <2>1. UNCHANGED denied
    BY <1>2 DEF StripeStep, Subscribe, Charge, Cancel, Tick, redis
  <2>2. today' \in {today, today + 1}
    BY <1>2 DEF StripeStep, Subscribe, Charge, Cancel, Tick
  <2> QED BY <2>1, <2>2 DEF LicenceShape, Accepted, Token
<1>3. ASSUME NEW h \in Handlers, NEW e \in emitted, Deliver(h, e) PROVE UNCHANGED <<today, denied>>
  BY <1>3 DEF Deliver, stripe, redis
<1>4. ASSUME NEW h \in Handlers, HandlerFails(h) \/ Reissue(h) PROVE UNCHANGED <<today, denied>>
  BY <1>4 DEF HandlerFails, Reissue, stripe, redis
<1>5. ASSUME NEW h \in Handlers, HandlerStep(h) PROVE UNCHANGED today /\ denied \subseteq denied'
  <2>1. CASE RevokeKey(h)
    BY <2>1 DEF RevokeKey, stripe
  <2>2. CASE MarkSeen(h) \/ PutRecord(h) \/ AddToIndex(h)
    BY <2>2 DEF MarkSeen, PutRecord, AddToIndex, stripe
  <2>3. CASE FindRecord(h) \/ PutRenewal(h) \/ ListKeys(h)
    BY <2>3 DEF FindRecord, PutRenewal, ListKeys, stripe, redis
  <2> QED BY <1>5, <2>1, <2>2, <2>3 DEF HandlerStep
<1>6. UNCHANGED today /\ denied \subseteq denied' => \A t \in Token : ~Accepted(t) => ~Accepted(t)'
  BY DEF Accepted
<1> QED BY <1>1, <1>2, <1>3, <1>4, <1>5, <1>6 DEF LicenceNext

\* A check that was answered with a rejection is of a token that is expired or revoked.
RejectionsStand ==
    \A c \in Checks : check[c].answer = "rejected" => \A t \in check[c].token : ~Accepted(t)

\* The step of a tab leaves the verdicts alone, and a check that is rejected in it, or has
\* been before, is of a token that is not accepted.
LEMMA TabKeepsRejections ==
    ASSUME TabFits, RejectionsStand, NEW c \in Checks,
           \/ Refresh(c) \/ ServerVerifies(c) \/ VerifyFails(c) \/ RefreshSettles(c)
           \/ CheckoutFills(c) \/ Paste(c) \/ SaveSettles(c) \/ Recover(c) \/ Clear(c)
           \/ ReloadTab(c)
    PROVE  RejectionsStand'
<1>1. UNCHANGED <<today, denied>>
  BY DEF Refresh, ServerVerifies, VerifyFails, RefreshSettles, CheckoutFills, Paste, SaveToken,
     SaveSettles, Recover, Clear, ReloadTab, licenceVars, stripe, redis
<1>2. \A t : Accepted(t)' <=> Accepted(t)
  BY <1>1 DEF Accepted
<1>3. SUFFICES ASSUME NEW d \in Checks, check'[d].answer = "rejected", check'[d] # check[d],
                      NEW t \in check'[d].token
               PROVE  ~Accepted(t)
  BY <1>2 DEF RejectionsStand
<1>4. check \in [Checks -> CheckRecord] /\ NoCheck.answer = "none"
  BY DEF TabFits, NoCheck
<1>5. CASE ServerVerifies(c)
  <2>1. PICK r \in check[c].token :
           check' = [check EXCEPT ![c].answer = IF Accepted(r) THEN "valid" ELSE "rejected"]
    BY <1>5 DEF ServerVerifies
  <2>2. d = c /\ check'[c].token = check[c].token /\ ~Accepted(r)
    BY <1>3, <1>4, <2>1 DEF CheckRecord
  <2>3. t = r
    BY <1>3, <2>1, <2>2 DEF TabFits, CheckFits, NoCheck
  <2> QED BY <2>2, <2>3
<1>6. CASE VerifyFails(c)
  BY <1>3, <1>4, <1>6 DEF VerifyFails, NoVerdict, CheckRecord
<1>7. CASE ~ServerVerifies(c) /\ ~VerifyFails(c)
  <2>1. check'[d].answer = "none"
    BY <1>3, <1>4, <1>7 DEF Refresh, RefreshSettles, CheckoutFills, Paste, SaveToken, SaveSettles,
       Recover, Clear, ReloadTab, BeginRefresh
  <2> QED BY <1>3, <2>1
<1> QED BY <1>5, <1>6, <1>7

\* An offline user keeps the licence.  Unless the user acts, a token goes only when a check
\* ends: of a token that is at that moment expired or revoked, or on an answer below 500
\* that confirmed nothing, or of a token that was being saved and could not be confirmed.
THEOREM OnlyAnsweredIsDropped == ClientSpec => DropsOnlyAnswered
<1>1. ClientInit => TabFits /\ RejectionsStand
  BY ClientAssumption DEF ClientInit, TabFits, CheckRecord, CheckFits, NoCheck, RejectionsStand
<1>2. LicenceInv /\ TabFits /\ RejectionsStand /\ [ClientNext]_clientVars
      => TabFits' /\ RejectionsStand'
  <2> SUFFICES ASSUME LicenceInv, TabFits, RejectionsStand, [ClientNext]_clientVars
               PROVE  TabFits' /\ RejectionsStand'
    OBVIOUS
  <2>1. LicenceShape
    BY DEF LicenceInv
  <2>2. CASE [LicenceNext]_licenceVars /\ UNCHANGED tabVars
    <3>1. TabFits'
      BY <2>2 DEF tabVars, TabFits, CheckFits
    <3>2. \A c \in Checks : check[c].token \subseteq Token
      BY DEF TabFits, CheckRecord
    <3>3. RejectionsStand'
      BY <2>1, <2>2, <3>2, VerdictsStand DEF tabVars, RejectionsStand
    <3> QED BY <3>1, <3>3
  <2>3. CASE \E c \in Checks :
                \/ Refresh(c) \/ ServerVerifies(c) \/ VerifyFails(c)
                \/ RefreshSettles(c) \/ CheckoutFills(c) \/ Paste(c) \/ SaveSettles(c)
                \/ Recover(c) \/ Clear(c) \/ ReloadTab(c)
    BY <2>1, <2>3, TabKeepsFits, TabKeepsRejections
  <2> QED BY <2>2, <2>3 DEF ClientNext, clientVars
<1>3. TabFits /\ RejectionsStand /\ [ClientNext]_clientVars
      => [\A t \in token : token' = {} /\ userActs' = userActs
             => \E c \in Checks :
                   /\ Ends(c)
                   /\ \/ check[c].answer = "rejected" /\ \A r \in check[c].token : ~Accepted(r)
                      \/ check[c].answer = "unread"
                      \/ check[c].op = "save" /\ check[c].answer = "failed"]_clientVars
  <2> SUFFICES ASSUME TabFits, RejectionsStand, ClientNext, NEW t \in token, token' = {},
                      userActs' = userActs
               PROVE  \E c \in Checks :
                         /\ Ends(c)
                         /\ \/ /\ check[c].answer = "rejected"
                               /\ \A r \in check[c].token : ~Accepted(r)
                            \/ check[c].answer = "unread"
                            \/ check[c].op = "save" /\ check[c].answer = "failed"
    OBVIOUS
  <2>1. ~Act /\ token' # token
    BY DEF TabFits, Act
  <2>2. PICK c \in Checks : RefreshSettles(c) \/ SaveSettles(c)
    BY <2>1 DEF ClientNext, tabVars, Refresh, ServerVerifies, VerifyFails, CheckoutFills, Paste,
       SaveToken, Recover, Clear, ReloadTab
  <2>3. /\ check[c].op \in {"refresh", "save"}
        /\ \/ check[c].answer \in {"rejected", "unread"}
           \/ check[c].op = "save" /\ check[c].answer = "failed"
        /\ check' = [check EXCEPT ![c] = NoCheck]
    BY <2>1, <2>2 DEF RefreshSettles, SaveSettles
  <2>4. Ends(c)
    BY <2>3 DEF Ends, NoCheck, TabFits
  <2> QED BY <2>3, <2>4 DEF RejectionsStand
<1> QED BY <1>1, <1>2, <1>3, BrowserKeepsServer, LicenceInvariant, PTL DEF ClientSpec, DropsOnlyAnswered
=============================================================================
