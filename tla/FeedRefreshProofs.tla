--------------------------- MODULE FeedRefreshProofs ---------------------------
(***************************************************************************)
(* Proofs about FeedRefresh, for any set of items and any bounds.  The     *)
(* inductive invariant is RefreshInv.  CallStepKeepsInv covers every step  *)
(* of a refresh, EditStepKeepsInv every settings action; the lemmas per    *)
(* action supply what the call or the action knows.                        *)
(***************************************************************************)
EXTENDS FeedRefresh, TLAPS

\* The calls that an action does not touch keep agreeing when settled and the clock stay.
LEMMA CallsKeepAgreeing ==
    ASSUME RefreshInv, NEW g \in Guards, NEW c \in Call, Becomes(g, c), CallAgrees(c),
           settled' = settled, clock' = clock
    PROVE  CallsAgree' /\ call' \in [Guards -> Call]
<1>1. /\ call' \in [Guards -> Call] /\ call'[g] = c
      /\ \A h \in Guards : h # g => call'[h] = call[h]
  BY DEF Becomes, RefreshInv, TypeOK
<1>2. ASSUME NEW h \in Guards PROVE CallAgrees(call[h])'
  <2>1. CASE h = g
    <3>1. CallAgrees(call'[h])
      BY <1>1, <2>1
    <3> QED BY <3>1 DEF CallAgrees, Agrees
  <2>2. CASE h # g
    <3>1. CallAgrees(call'[h])
      BY <1>1, <2>2 DEF RefreshInv, CallsAgree
    <3> QED BY <3>1 DEF CallAgrees, Agrees
  <2> QED BY <2>1, <2>2
<1> QED BY <1>1, <1>2 DEF CallsAgree

\* An idle guard and one that goes on without a record agree with everything.
LEMMA RestartAgrees ==
    ASSUME RefreshInv, NEW g \in Guards, NEW stage \in {"written", "purge"}
    PROVE  /\ Idle \in Call /\ CallAgrees(Idle)
           /\ Restart(g, stage) \in Call /\ CallAgrees(Restart(g, stage))
<1>1. Idle \in Call
  BY DEF Idle, NoFeed, Call, Feed, Ops, Stages
<1>2. Restart(g, stage) \in Call
  BY DEF Idle, NoFeed, Restart, Call, Feed, Ops, Stages, RefreshInv, TypeOK
<1>3. CallAgrees(Idle) /\ CallAgrees(Restart(g, stage))
  BY DEF Idle, NoFeed, Restart, CallAgrees, Holding, Timed, RefreshInv, TypeOK
<1> QED BY <1>1, <1>2, <1>3

\* When nothing is in progress and store and database agree, the record may settle.
LEMMA SettlingKeepsInv ==
    ASSUME TypeOK', Observe, row'.success <= clock',
           settled' = settled => RecordsAgree' /\ TombstonesHold' /\ EditAgrees' /\ CallsAgree'
    PROVE  RefreshInv'
<1>1. CASE settled' = settled
  BY <1>1 DEF RefreshInv
<1>2. CASE settled' # settled
  <2>1. /\ Quiet' /\ shown' = row' /\ row'.there
        /\ settled' = [row' EXCEPT !.retired = (row'.retired \cap publisher'.items) \ articles']
    BY <1>2 DEF Observe, Buried
  <2>2. /\ settled'.there /\ settled'.title = row'.title /\ settled'.success = row'.success
        /\ settled'.retired = (row'.retired \cap publisher'.items) \ articles'
    BY <2>1 DEF TypeOK, Feed
  <2>3. RecordsAgree'
    BY <2>1, <2>2 DEF RecordsAgree, Agrees, TypeOK, Feed
  <2>4. TombstonesHold'
    BY <2>2 DEF TombstonesHold
  <2>5. EditAgrees'
    BY <2>1 DEF EditAgrees, Quiet, NoEdit, NoFeed, TypeOK
  <2>6. CallsAgree'
    <3>1. \A g \in Guards : call'[g] = Idle
      BY <2>1 DEF Quiet
    <3> QED BY <3>1 DEF CallsAgree, CallAgrees, Idle, NoFeed, Holding, Timed, TypeOK
  <2> QED BY <2>3, <2>4, <2>5, <2>6 DEF RefreshInv
<1> QED BY <1>1, <1>2

\* Before the first refresh nothing is in progress and both copies of the record agree.
LEMMA InitSatisfiesInv ==
    ASSUME Init
    PROVE  RefreshInv
<1> PICK success \in {0, 1} :
       row = [there |-> TRUE, title |-> 0, success |-> success, etag |-> success, retired |-> {}]
  BY DEF Init
<1>1. TypeOK
  <2>1. row \in Feed /\ shown \in Feed /\ settled \in Feed
    BY DEF Init, Feed
  <2>2. Idle \in Call /\ NoEdit \in Edit
    BY DEF Call, Idle, Feed, NoFeed, Edit, NoEdit, Ops, Stages
  <2>3. publisher \in [etag : Nat, items : SUBSET Guids]
    BY DEF Init
  <2>4. articles \in SUBSET Guids
    BY <2>3 DEF Init
  <2> QED BY <2>1, <2>2, <2>3, <2>4 DEF Init, TypeOK
<1>2. RecordsAgree
  BY DEF Init, RecordsAgree, Agrees
<1>3. TombstonesHold /\ EditAgrees
  BY DEF Init, TombstonesHold, EditAgrees, NoEdit, NoFeed
<1>4. CallsAgree
  BY DEF Init, CallsAgree, CallAgrees, Idle, NoFeed, Holding, Timed
<1> QED BY <1>1, <1>2, <1>3, <1>4 DEF RefreshInv

-----------------------------------------------------------------------------
(* Steps of a refresh, a reload or a purge.                                *)

\* A call that has read nothing against settled writes nothing against it.
LEMMA CallStepKeepsInv ==
    ASSUME RefreshInv, NEW g \in Guards, NEW c \in Call, Becomes(g, c), CallAgrees(c),
           UNCHANGED <<publisher, edit, bounds, removed>>,
           row' \in Feed, Agrees(row'), row'.success <= clock,
           shown' \in Feed, Agrees(shown'), shown'.success <= clock,
           shared' \in BOOLEAN, purged' \in SUBSET Guids, aged' \in SUBSET Guids,
           articles' \in SUBSET Guids, settled.retired \cap articles' = {},
           settled' = settled \/ Observe
    PROVE  RefreshInv'
<1>1. UNCHANGED <<publisher, edit, clock, renames, troubles, removed>>
  BY DEF bounds
<1>2. settled' \in Feed
  BY DEF Observe, Buried, RefreshInv, TypeOK, Feed
<1>3. call' \in [Guards -> Call]
  BY DEF Becomes, RefreshInv, TypeOK
<1>4. TypeOK'
  BY <1>1, <1>2, <1>3 DEF RefreshInv, TypeOK
<1>5. ASSUME settled' = settled
      PROVE  RecordsAgree' /\ TombstonesHold' /\ EditAgrees' /\ CallsAgree'
  <2>1. RecordsAgree'
    BY <1>1, <1>5 DEF RefreshInv, RecordsAgree, Agrees
  <2>2. TombstonesHold'
    BY <1>1, <1>5 DEF RefreshInv, TombstonesHold
  <2>3. EditAgrees'
    BY <1>1, <1>5 DEF RefreshInv, EditAgrees, Agrees
  <2>4. CallsAgree'
    BY <1>1, <1>5, CallsKeepAgreeing
  <2> QED BY <2>1, <2>2, <2>3, <2>4
<1>6. CASE settled' = settled
  BY <1>4, <1>5, <1>6 DEF RefreshInv
<1>7. CASE Observe
  <2>1. row'.success <= clock'
    BY <1>1
  <2> QED BY <1>4, <1>5, <1>7, <2>1, SettlingKeepsInv
<1> QED BY <1>6, <1>7

\* A refresh begins with a record that agrees, later than all successes so far.
LEMMA BeginKeepsInv ==
    ASSUME RefreshInv, NEW g \in Guards, NEW op \in Ops,
           NEW stage \in {"clear", "fetch", "written"}, NEW feed \in Feed,
           Begin(g, op, stage, feed), feed.success <= clock, feed.there => Agrees(feed),
           stage # "written" => feed.there, shared' \in BOOLEAN,
           UNCHANGED <<publisher, row, shown, stored, edit, renames, troubles, history>>
    PROVE  RefreshInv'
<1> DEFINE c == [Idle EXCEPT !.op = op, !.stage = stage, !.feed = feed, !.began = clock + 1]
<1>1. c \in Call
  <2>1. Idle \in [op : Ops, stage : Stages, feed : Feed, began : Nat, etag : Nat,
                  items : SUBSET Guids, retired : SUBSET Undated, found : SUBSET Guids,
                  changed : SUBSET Guids]
    BY RestartAgrees DEF Call
  <2>2. clock + 1 \in Nat /\ stage \in Stages
    BY DEF RefreshInv, TypeOK, Stages
  <2> QED BY <2>1, <2>2 DEF Call
<1>2. clock' = clock + 1 /\ clock \in Nat /\ Becomes(g, c)
  BY DEF Begin, RefreshInv, TypeOK
<1>3. /\ call' \in [Guards -> Call] /\ call'[g] = c
      /\ \A h \in Guards : h # g => call'[h] = call[h]
  BY <1>1, <1>2 DEF Becomes, RefreshInv, TypeOK
<1>4. UNCHANGED <<publisher, row, shown, articles, aged, edit, renames, troubles, settled,
                  purged, removed>>
  BY DEF stored, history
<1>5. TypeOK'
  BY <1>2, <1>3, <1>4 DEF RefreshInv, TypeOK
<1>6. RecordsAgree'
  BY <1>2, <1>4 DEF RefreshInv, RecordsAgree, Agrees, TypeOK, Feed
<1>7. TombstonesHold'
  BY <1>4 DEF RefreshInv, TombstonesHold
<1>8. EditAgrees'
  BY <1>2, <1>4 DEF RefreshInv, EditAgrees, Agrees, TypeOK, Edit, Feed
<1>9. CallsAgree'
  <2>1. ASSUME NEW h \in Guards PROVE CallAgrees(call[h])'
    <3>1. CASE h = g
      <4>1. settled.success <= clock /\ settled.success \in Nat
        BY DEF RefreshInv, RecordsAgree, TypeOK, Feed
      <4>2. /\ c.stage = stage /\ c.feed = feed /\ c.began = clock + 1
        BY DEF Idle
      <4>3. feed.success \in Nat
        BY DEF Feed
      <4>4. c.began <= clock' /\ feed.success <= clock' /\ c.began >= settled.success
        BY <1>2, <4>1, <4>2, <4>3
      <4> HIDE DEF c
      <4> QED BY <1>3, <1>4, <3>1, <4>2, <4>4 DEF CallAgrees, Agrees, Holding, Timed
    <3>2. CASE h # g
      <4>1. CallAgrees(call[h]) /\ call'[h] = call[h] /\ call[h] \in Call
        BY <1>3, <3>2 DEF RefreshInv, CallsAgree, TypeOK
      <4>2. call[h].began \in Nat /\ call[h].feed.success \in Nat
        BY <4>1 DEF Call, Feed
      <4> QED BY <1>2, <1>4, <4>1, <4>2 DEF CallAgrees, Agrees
    <3> QED BY <3>1, <3>2
  <2> QED BY <2>1 DEF CallsAgree
<1> QED BY <1>5, <1>6, <1>7, <1>8, <1>9 DEF RefreshInv

\* A step that moves the call and changes nothing else.
LEMMA CallMoveKeepsInv ==
    ASSUME RefreshInv, NEW g \in Guards, NEW c \in Call, Becomes(g, c), CallAgrees(c),
           UNCHANGED <<publisher, records, stored, edit, bounds>>, removed' = removed,
           purged' = purged, settled' = settled \/ Observe
    PROVE  RefreshInv'
<1>1. UNCHANGED <<row, shown, shared, articles, aged>>
  BY DEF records, stored
<1>2. /\ row' \in Feed /\ Agrees(row') /\ row'.success <= clock
      /\ shown' \in Feed /\ Agrees(shown') /\ shown'.success <= clock
  BY <1>1 DEF RefreshInv, TypeOK, RecordsAgree
<1>3. /\ shared' \in BOOLEAN /\ purged' \in SUBSET Guids /\ aged' \in SUBSET Guids
      /\ articles' \in SUBSET Guids /\ settled.retired \cap articles' = {}
  BY <1>1 DEF RefreshInv, TypeOK, TombstonesHold
<1> QED BY <1>2, <1>3, CallStepKeepsInv

\* What is known of a call in progress.
LEMMA CallFacts ==
    ASSUME RefreshInv, NEW g \in Guards
    PROVE  /\ call[g] \in Call /\ CallAgrees(call[g])
           /\ clock \in Nat /\ settled \in Feed /\ row \in Feed
           /\ Agrees(row) /\ row.success <= clock
BY DEF RefreshInv, TypeOK, CallsAgree, RecordsAgree

\* A 200 brings all that the publisher carries, the buried items among them.
LEMMA PublisherAnswersKeepsInv ==
    ASSUME RefreshInv, NEW g \in Guards, PublisherAnswers(g)
    PROVE  RefreshInv'
<1> USE CallFacts
<1>1. CASE Becomes(g, Move(g, "notModified"))
  <2>1. Move(g, "notModified") \in Call
    BY DEF Move, Call, Stages
  <2>2. CallAgrees(Move(g, "notModified"))
    BY DEF Move, Call, CallAgrees, Holding, Timed, PublisherAnswers
  <2> QED BY <1>1, <2>1, <2>2, CallMoveKeepsInv DEF PublisherAnswers, history
<1>2. CASE Becomes(g, [Move(g, "content") EXCEPT !.items = publisher.items,
                                                 !.etag = publisher.etag])
  <2> DEFINE c == [Move(g, "content") EXCEPT !.items = publisher.items,
                                             !.etag = publisher.etag]
  <2>1. c \in Call
    BY ZenonT(40) DEF Move, Call, Stages, RefreshInv, TypeOK
  <2>2. CallAgrees(c)
    BY DEF Move, Call, CallAgrees, Holding, Timed, PublisherAnswers, RefreshInv, TombstonesHold
  <2> QED BY <1>2, <2>1, <2>2, CallMoveKeepsInv DEF PublisherAnswers, history
<1> QED BY <1>1, <1>2 DEF PublisherAnswers

\* A fetch that fails leaves the record in hand as it is.
LEMMA FetchFailsKeepsInv ==
    ASSUME RefreshInv, NEW g \in Guards, FetchFails(g)
    PROVE  RefreshInv'
<1>1. CASE Becomes(g, Restart(g, "purge"))
  BY <1>1, RestartAgrees, CallMoveKeepsInv DEF FetchFails, history
<1>2. ASSUME NEW stage \in {"failed", "unparsable"}, Becomes(g, Move(g, stage))
      PROVE  RefreshInv'
  <2>1. Move(g, stage) \in Call
    BY CallFacts DEF Move, Call, Stages
  <2>2. CallAgrees(Move(g, stage))
    BY CallFacts DEF Move, Call, CallAgrees, Holding, Timed, FetchFails
  <2> QED BY <1>2, <2>1, <2>2, CallMoveKeepsInv DEF FetchFails, history
<1> QED BY <1>1, <1>2 DEF FetchFails

\* The tombstones that a refresh reads are at least the settled ones.
LEMMA ReadsRetiredKeepsInv ==
    ASSUME RefreshInv, NEW g \in Guards, ReadsRetired(g)
    PROVE  RefreshInv'
<1> DEFINE retired == IF row.there THEN row.retired ELSE call[g].feed.retired
           c == [Move(g, "lookup") EXCEPT !.retired = retired]
<1> USE CallFacts
<1>1. retired \in SUBSET Undated
  BY DEF Call, Feed
<1>2. settled.retired \subseteq retired
  <2>1. CASE settled.there
    BY <2>1 DEF Agrees
  <2>2. CASE ~settled.there
    BY <2>2 DEF RefreshInv, TombstonesHold
  <2> QED BY <2>1, <2>2
<1>3. c \in Call
  BY <1>1 DEF Move, Call, Stages
<1>4. CallAgrees(c)
  BY <1>2 DEF Move, Call, CallAgrees, Holding, Timed, ReadsRetired
<1> QED BY <1>3, <1>4, CallMoveKeepsInv DEF ReadsRetired, history

\* No item of a settled tombstone is new to a refresh, or known to it.
LEMMA LooksUpKeepsInv ==
    ASSUME RefreshInv, NEW g \in Guards, LooksUp(g)
    PROVE  RefreshInv'
<1> DEFINE known == IF call[g].op = "reload" THEN {} ELSE articles
           found == {i \in call[g].items \ known : Admits(i, call[g].retired)}
<1> USE CallFacts
<1>1. PICK changed \in SUBSET (call[g].items \cap known) :
         Becomes(g, [Move(g, "store") EXCEPT !.found = found, !.changed = changed])
  BY DEF LooksUp
<1> DEFINE c == [Move(g, "store") EXCEPT !.found = found, !.changed = changed]
<1>2. found \in SUBSET Guids /\ changed \in SUBSET Guids
  BY DEF Call
<1>3. settled.retired \cap changed = {}
  BY DEF RefreshInv, TombstonesHold
<1>4. settled.retired \cap found = {}
  <2>1. settled.retired \subseteq call[g].retired /\ settled.retired \subseteq Undated
    BY DEF CallAgrees, LooksUp, Feed
  <2> QED BY <2>1 DEF Admits
<1> HIDE DEF known, found
<1>5. c \in Call
  BY <1>2 DEF Move, Call, Stages
<1>6. CallAgrees(c)
  BY <1>2, <1>3, <1>4 DEF Move, Call, CallAgrees, Holding, Timed, LooksUp
<1> QED BY <1>1, <1>5, <1>6, CallMoveKeepsInv DEF LooksUp, history

\* A reload that clears the articles of the feed.
LEMMA ReloadClearsKeepsInv ==
    ASSUME RefreshInv, NEW g \in Guards, ReloadClears(g)
    PROVE  RefreshInv'
<1> DEFINE c == Move(g, "fetch")
<1>1. c \in Call
  BY CallFacts DEF Move, Call, Stages
<1>2. CallAgrees(c)
  BY CallFacts DEF Move, Call, CallAgrees, Holding, Timed, ReloadClears
<1>3. /\ row' \in Feed /\ Agrees(row') /\ row'.success <= clock
      /\ shown' \in Feed /\ Agrees(shown') /\ shown'.success <= clock
      /\ shared' \in BOOLEAN
  BY DEF RefreshInv, TypeOK, RecordsAgree, ReloadClears, records
<1>4. /\ purged' \in SUBSET Guids /\ aged' \in SUBSET Guids
      /\ articles' \in SUBSET Guids /\ settled.retired \cap articles' = {}
      /\ removed' = removed /\ settled' = settled
  BY DEF RefreshInv, TypeOK, ReloadClears, history
<1> QED BY <1>1, <1>2, <1>3, <1>4, CallStepKeepsInv DEF ReloadClears

\* What is stored is not buried.
LEMMA StoresKeepsInv ==
    ASSUME RefreshInv, NEW g \in Guards, Stores(g)
    PROVE  RefreshInv'
<1> DEFINE c == AfterStore(g)
<1> USE CallFacts
<1>1. c \in Call /\ CallAgrees(c)
  <2>1. CASE call[g].op = "reload"
    BY <2>1, RestartAgrees DEF AfterStore
  <2>2. CASE call[g].op # "reload"
    <3>1. c = [Move(g, "finish") EXCEPT !.found = {}, !.changed = {}]
      BY <2>2 DEF AfterStore
    <3>2. c \in Call
      BY <3>1 DEF Move, Call, Stages
    <3>3. CallAgrees(c)
      BY <3>1 DEF Move, Call, CallAgrees, Holding, Timed, Stores
    <3> QED BY <3>2, <3>3
  <2> QED BY <2>1, <2>2
<1>2. /\ row' \in Feed /\ Agrees(row') /\ row'.success <= clock
      /\ shown' \in Feed /\ Agrees(shown') /\ shown'.success <= clock
      /\ shared' \in BOOLEAN
  BY DEF RefreshInv, TypeOK, RecordsAgree, Stores, records
<1>3. /\ articles' \subseteq articles \cup call[g].found \cup call[g].changed
      /\ aged' \subseteq aged
  BY DEF Stores
<1>4. call[g].found \subseteq Guids /\ call[g].changed \subseteq Guids
  BY DEF Call
<1>5. settled.retired \cap (call[g].found \cup call[g].changed) = {}
  BY DEF CallAgrees, Stores
<1>6. /\ purged' \in SUBSET Guids /\ aged' \in SUBSET Guids
      /\ articles' \in SUBSET Guids /\ settled.retired \cap articles' = {}
      /\ removed' = removed /\ settled' = settled
  BY <1>3, <1>4, <1>5 DEF RefreshInv, TypeOK, TombstonesHold, Stores, history
<1> HIDE DEF c
<1>7. Becomes(g, c) /\ UNCHANGED <<publisher, edit, bounds>>
  BY DEF Stores, c
<1> QED BY <1>1, <1>2, <1>6, <1>7, CallStepKeepsInv

\* A record that agrees may be written back, by whichever kind of refresh.
LEMMA WriteBackKeepsInv ==
    ASSUME RefreshInv, NEW g \in Guards, NEW feed \in Feed, WriteBack(g, feed),
           Agrees(feed), feed.success <= clock
    PROVE  RefreshInv'
<1> DEFINE c == [Restart(g, "written") EXCEPT !.feed = feed]
<1>1. c \in Call
  BY RestartAgrees DEF Call
<1>2. CallAgrees(c)
  BY RestartAgrees DEF CallAgrees, Restart, Idle, Holding, Timed
<1>3. /\ row' \in Feed /\ Agrees(row') /\ row'.success <= clock
      /\ shown' \in Feed /\ Agrees(shown') /\ shown'.success <= clock
  BY DEF RefreshInv, TypeOK, RecordsAgree, WriteBack
<1>4. /\ shared' \in BOOLEAN /\ purged' \in SUBSET Guids /\ aged' \in SUBSET Guids
      /\ articles' \in SUBSET Guids /\ settled.retired \cap articles' = {}
      /\ removed' = removed /\ settled' = settled
  BY DEF RefreshInv, TypeOK, TombstonesHold, WriteBack, stored, history
<1> HIDE DEF c
<1>5. Becomes(g, c) /\ UNCHANGED <<publisher, edit, bounds>>
  BY DEF WriteBack, c
<1> QED BY <1>1, <1>2, <1>3, <1>4, <1>5, CallStepKeepsInv

\* A failure writes back the record in hand.
LEMMA RecordsFailureKeepsInv ==
    ASSUME RefreshInv, NEW g \in Guards, RecordsFailure(g)
    PROVE  RefreshInv'
<1>1. call[g].feed \in Feed /\ Agrees(call[g].feed) /\ call[g].feed.success <= clock
  BY CallFacts DEF RecordsFailure, Call, CallAgrees, Holding
<1> QED BY <1>1, WriteBackKeepsInv DEF RecordsFailure

\* A reach moves the time of success forward.
LEMMA RecordsReachKeepsInv ==
    ASSUME RefreshInv, NEW g \in Guards, RecordsReach(g)
    PROVE  RefreshInv'
<1> DEFINE feed == [call[g].feed EXCEPT !.success = call[g].began]
<1>1. /\ call[g].feed \in Feed /\ Agrees(call[g].feed) /\ call[g].began \in Nat
      /\ call[g].began <= clock /\ (settled.there => call[g].began >= settled.success)
  BY CallFacts DEF RecordsReach, Call, CallAgrees, Holding, Timed
<1>2. feed \in Feed /\ Agrees(feed) /\ feed.success <= clock
  BY <1>1 DEF Agrees, Feed
<1> QED BY <1>2, WriteBackKeepsInv DEF RecordsReach

\* A success keeps the title of a record that has succeeded before, and the
\* tombstones of the items that were in the answer.
LEMMA RecordsSuccessKeepsInv ==
    ASSUME RefreshInv, NEW g \in Guards, RecordsSuccess(g)
    PROVE  RefreshInv'
<1> DEFINE title == IF call[g].feed.success = 0 THEN 0 ELSE call[g].feed.title
           retired == call[g].retired \cap call[g].items
           feed == [call[g].feed EXCEPT !.title = title, !.success = call[g].began,
                                        !.etag = call[g].etag, !.retired = retired]
<1>1. /\ call[g].feed \in Feed /\ Agrees(call[g].feed) /\ call[g].began \in Nat
      /\ call[g].began <= clock /\ (settled.there => call[g].began >= settled.success)
  BY CallFacts DEF RecordsSuccess, Call, CallAgrees, Holding, Timed
<1>2. settled.retired \subseteq retired /\ retired \in SUBSET Undated /\ call[g].etag \in Nat
  BY CallFacts DEF RecordsSuccess, Call, CallAgrees
<1>3. title \in Nat
  BY <1>1 DEF Feed
<1>4. settled.there /\ settled.success # 0 => title = settled.title
  BY <1>1, CallFacts DEF Agrees, Feed
<1> HIDE DEF title, retired
<1>5. feed \in Feed
  BY <1>1, <1>2, <1>3 DEF Feed
<1>6. Agrees(feed) /\ feed.success <= clock
  BY <1>1, <1>2, <1>4 DEF Agrees, Feed
<1>7. WriteBack(g, feed)
  BY DEF RecordsSuccess, title, retired
<1> QED BY <1>5, <1>6, <1>7, WriteBackKeepsInv

\* The store takes the record of the database or the one just written; both agree.
LEMMA UpdatesStoreKeepsInv ==
    ASSUME RefreshInv, NEW g \in Guards, UpdatesStore(g)
    PROVE  RefreshInv'
<1> DEFINE c == IF call[g].op = "single" THEN Idle ELSE Restart(g, "purge")
<1> USE CallFacts
<1>1. c \in Call /\ CallAgrees(c)
  BY RestartAgrees
<1> HIDE DEF c
<1>2. shown' \in Feed /\ Agrees(shown') /\ shown'.success <= clock
  <2>1. shown \in Feed /\ Agrees(shown) /\ shown.success <= clock
    BY DEF RefreshInv, TypeOK, RecordsAgree
  <2>2. /\ call[g].feed \in Feed /\ call[g].feed.success <= clock
        /\ call[g].feed.there => Agrees(call[g].feed)
    BY DEF Call, CallAgrees
  <2> QED BY <2>1, <2>2 DEF UpdatesStore
<1>3. row' \in Feed /\ Agrees(row') /\ row'.success <= clock
  BY DEF UpdatesStore
<1>4. /\ shared' \in BOOLEAN /\ purged' \in SUBSET Guids /\ aged' \in SUBSET Guids
      /\ articles' \in SUBSET Guids /\ settled.retired \cap articles' = {}
  BY DEF RefreshInv, TypeOK, TombstonesHold, UpdatesStore, stored
<1>5. /\ Becomes(g, c) /\ UNCHANGED <<publisher, edit, bounds, removed>> /\ Observe
  BY DEF UpdatesStore, c
<1> QED BY <1>1, <1>2, <1>3, <1>4, <1>5, CallStepKeepsInv

\* The purge reads the articles.
LEMMA PurgeReadsKeepsInv ==
    ASSUME RefreshInv, NEW g \in Guards, PurgeReads(g)
    PROVE  RefreshInv'
<1> USE CallFacts
<1>1. PICK expired \in SUBSET (articles \cap aged) :
         Becomes(g, IF expired = {} THEN Idle
                    ELSE [Move(g, "retire") EXCEPT !.found = expired])
  BY DEF PurgeReads
<1>2. CASE Becomes(g, Idle)
  BY <1>2, RestartAgrees, CallMoveKeepsInv DEF PurgeReads
<1>3. CASE Becomes(g, [Move(g, "retire") EXCEPT !.found = expired])
  <2> DEFINE c == [Move(g, "retire") EXCEPT !.found = expired]
  <2>1. c \in Call
    BY ZenonT(40) DEF Move, Call, Stages, RefreshInv, TypeOK
  <2>2. CallAgrees(c)
    BY DEF Move, Call, CallAgrees, Holding, Timed, PurgeReads
  <2> QED BY <1>3, <2>1, <2>2, CallMoveKeepsInv DEF PurgeReads
<1> QED BY <1>1, <1>2, <1>3

\* The purge reads the record, which agrees.
LEMMA PurgeReadsFeedKeepsInv ==
    ASSUME RefreshInv, NEW g \in Guards, PurgeReadsFeed(g)
    PROVE  RefreshInv'
<1> USE CallFacts
<1>1. CASE Becomes(g, Move(g, "delete"))
  <2>1. Move(g, "delete") \in Call
    BY DEF Move, Call, Stages
  <2>2. CallAgrees(Move(g, "delete"))
    BY DEF Move, Call, CallAgrees, Holding, Timed, PurgeReadsFeed
  <2> QED BY <1>1, <2>1, <2>2, CallMoveKeepsInv DEF PurgeReadsFeed, history
<1>2. CASE row.there /\ Becomes(g, [Move(g, "tombstone") EXCEPT !.feed = row])
  <2> DEFINE c == [Move(g, "tombstone") EXCEPT !.feed = row]
  <2>1. c \in Call
    BY DEF Move, Call, Stages
  <2>2. CallAgrees(c)
    BY <1>2 DEF Move, Call, CallAgrees, Holding, Timed, PurgeReadsFeed
  <2> QED BY <1>2, <2>1, <2>2, CallMoveKeepsInv DEF PurgeReadsFeed, history
<1> QED BY <1>1, <1>2 DEF PurgeReadsFeed

\* The purge adds tombstones to a record that agrees.
LEMMA PurgeRetiresKeepsInv ==
    ASSUME RefreshInv, NEW g \in Guards, PurgeRetires(g)
    PROVE  RefreshInv'
<1> DEFINE c == [Move(g, "delete") EXCEPT !.feed = NoFeed]
<1> USE CallFacts
<1>1. c \in Call
  BY DEF Move, Call, Stages, Feed, NoFeed
<1>2. CallAgrees(c)
  BY DEF Move, Call, CallAgrees, Holding, Timed, NoFeed
<1>3. /\ call[g].feed \in Feed /\ Agrees(call[g].feed) /\ call[g].feed.success <= clock
  BY DEF Call, CallAgrees, Holding, PurgeRetires
<1>4. row' \in Feed /\ Agrees(row') /\ row'.success <= clock
  BY <1>3 DEF PurgeRetires, Feed, Agrees
<1>5. /\ shown' \in Feed /\ Agrees(shown') /\ shown'.success <= clock
      /\ shared' \in BOOLEAN /\ purged' \in SUBSET Guids /\ aged' \in SUBSET Guids
      /\ articles' \in SUBSET Guids /\ settled.retired \cap articles' = {}
      /\ removed' = removed /\ settled' = settled
  BY DEF RefreshInv, TypeOK, RecordsAgree, TombstonesHold, PurgeRetires, stored, history
<1> HIDE DEF c
<1>6. Becomes(g, c) /\ UNCHANGED <<publisher, edit, bounds>>
  BY DEF PurgeRetires, c
<1> QED BY <1>1, <1>2, <1>4, <1>5, <1>6, CallStepKeepsInv

\* The purge deletes articles and ends.
LEMMA PurgeDeletesKeepsInv ==
    ASSUME RefreshInv, NEW g \in Guards, PurgeDeletes(g)
    PROVE  RefreshInv'
<1>1. /\ row' \in Feed /\ Agrees(row') /\ row'.success <= clock
      /\ shown' \in Feed /\ Agrees(shown') /\ shown'.success <= clock
      /\ shared' \in BOOLEAN
  BY DEF RefreshInv, TypeOK, RecordsAgree, PurgeDeletes, records
<1>2. /\ purged' \in SUBSET Guids /\ aged' \in SUBSET Guids
      /\ articles' \in SUBSET Guids /\ settled.retired \cap articles' = {}
  BY DEF RefreshInv, TypeOK, TombstonesHold, PurgeDeletes
<1>3. Becomes(g, Idle) /\ UNCHANGED <<publisher, edit, bounds, removed>> /\ Observe
  BY DEF PurgeDeletes
<1> QED BY <1>1, <1>2, <1>3, RestartAgrees, CallStepKeepsInv

\* A purge that fails ends.
LEMMA PurgeFailsKeepsInv ==
    ASSUME RefreshInv, NEW g \in Guards, PurgeFails(g)
    PROVE  RefreshInv'
BY RestartAgrees, CallMoveKeepsInv DEF PurgeFails

\* Every way to begin takes a record that agrees, or none.
LEMMA StartKeepsInv ==
    ASSUME RefreshInv, Start
    PROVE  RefreshInv'
<1>1. /\ row \in Feed /\ Agrees(row) /\ row.success <= clock
      /\ shown \in Feed /\ Agrees(shown) /\ shown.success <= clock
      /\ NoFeed \in Feed /\ ~NoFeed.there /\ NoFeed.success <= clock
      /\ shared \in BOOLEAN
  BY DEF RefreshInv, TypeOK, RecordsAgree, NoFeed, Feed
<1>2. "isRefreshingAll" \in Guards /\ "refreshingFeedIds" \in Guards
  BY DEF Guards
<1>3. ASSUME NEW op \in {"all", "aggregate"}, StartRefreshAll(op) PROVE RefreshInv'
  BY <1>1, <1>2, <1>3, BeginKeepsInv DEF StartRefreshAll, records, Ops
<1>4. CASE StartRefreshView
  BY <1>1, <1>2, <1>4, BeginKeepsInv DEF StartRefreshView, Ops
<1>5. CASE StartRefreshSingle
  BY <1>1, <1>2, <1>5, BeginKeepsInv DEF StartRefreshSingle, records, Ops
<1>6. CASE StartReload
  BY <1>1, <1>2, <1>6, BeginKeepsInv DEF StartReload, records, Ops
<1> QED BY <1>3, <1>4, <1>5, <1>6 DEF Start

-----------------------------------------------------------------------------
(* Steps of the user, the publisher and time.                              *)

\* settled asks for no more than before.
Loosens ==
    /\ settled' \in Feed /\ settled'.success <= clock
    /\ settled'.there => /\ settled.there /\ settled'.title = settled.title
                         /\ settled'.success = settled.success
    /\ settled'.retired \subseteq settled.retired
    /\ ~settled'.there => settled'.retired = {}

\* What agrees with settled agrees with less.
LEMMA AgreesWithLess ==
    ASSUME RefreshInv, Loosens, clock' = clock
    PROVE  /\ \A feed : Agrees(feed) => Agrees(feed)'
           /\ call' = call => CallsAgree'
<1>1. ASSUME NEW feed, Agrees(feed) PROVE Agrees(feed)'
  BY <1>1 DEF Agrees, Loosens
<1>2. ASSUME NEW c, CallAgrees(c) PROVE CallAgrees(c)'
  BY <1>1, <1>2 DEF CallAgrees, Loosens
<1>3. ASSUME call' = call PROVE CallsAgree'
  BY <1>2, <1>3 DEF RefreshInv, CallsAgree
<1> QED BY <1>1, <1>3

\* A settings action that writes a record which agrees, or that gives up settled.
LEMMA EditStepKeepsInv ==
    ASSUME RefreshInv, Loosens, call' = call, clock' = clock, publisher' = publisher,
           row' \in Feed, Agrees(row)', row'.success <= clock,
           UNCHANGED <<shown, shared, aged, purged>>, troubles' \in Nat, renames' \in Nat,
           removed' \in BOOLEAN, articles' \in {articles, {}},
           edit' \in Edit, edit'.feed.success <= clock,
           edit'.op \in {"rename", "remove"} => ~settled'.there,
           edit'.op = "unfile" => Agrees(edit.feed)'
    PROVE  RefreshInv'
<1>1. TypeOK'
  BY DEF RefreshInv, TypeOK, Loosens
<1>2. RecordsAgree'
  BY AgreesWithLess DEF RefreshInv, RecordsAgree, Loosens
<1>3. TombstonesHold'
  BY DEF RefreshInv, TombstonesHold, Loosens
<1>4. EditAgrees'
  BY DEF EditAgrees
<1>5. CallsAgree'
  BY AgreesWithLess
<1> QED BY <1>1, <1>2, <1>3, <1>4, <1>5 DEF RefreshInv

\* The two ways in which settled changes under the user's hands.
LEMMA SettledStaysOrGoes ==
    ASSUME RefreshInv, settled' = settled \/ Unsettle
    PROVE  Loosens
<1>1. CASE settled' = settled
  BY <1>1 DEF RefreshInv, TypeOK, RecordsAgree, TombstonesHold, Loosens
<1>2. CASE Unsettle
  BY <1>2 DEF Unsettle, NoFeed, Feed, RefreshInv, TypeOK, Loosens
<1> QED BY <1>1, <1>2

\* A rename gives up settled when it reads the record.
LEMMA RenameReadsKeepsInv ==
    ASSUME RefreshInv, RenameReads
    PROVE  RefreshInv'
<1>1. Loosens /\ ~settled'.there
  BY SettledStaysOrGoes DEF RenameReads, Unsettle, NoFeed
<1>2. /\ call' = call /\ clock' = clock /\ publisher' = publisher /\ removed' \in BOOLEAN
      /\ UNCHANGED <<row, shown, shared, aged, purged>> /\ troubles' \in Nat /\ renames' \in Nat
      /\ articles' = articles
  BY DEF RefreshInv, TypeOK, RenameReads, Trouble, records, stored, bounds
<1>3. edit' \in Edit /\ edit'.feed.success <= clock /\ edit'.op = "rename"
  BY DEF RefreshInv, TypeOK, RecordsAgree, RenameReads, Edit
<1>4. row' \in Feed /\ Agrees(row)' /\ row'.success <= clock
  BY <1>1, <1>2 DEF RefreshInv, TypeOK, RecordsAgree, Agrees
<1> QED BY <1>1, <1>2, <1>3, <1>4, EditStepKeepsInv

\* While the rename writes, nothing is settled.
LEMMA RenameWritesKeepsInv ==
    ASSUME RefreshInv, RenameWrites
    PROVE  RefreshInv'
<1>1. Loosens /\ settled' = settled /\ ~settled.there
  BY SettledStaysOrGoes DEF RenameWrites, history, RefreshInv, EditAgrees
<1>2. /\ call' = call /\ clock' = clock /\ publisher' = publisher /\ removed' \in BOOLEAN
      /\ UNCHANGED <<shown, shared, aged, purged>> /\ troubles' \in Nat /\ renames' \in Nat
      /\ articles' = articles
  BY DEF RefreshInv, TypeOK, RenameWrites, stored, history
<1>3. edit' \in Edit /\ edit'.feed.success <= clock /\ edit'.op = "reload"
  BY DEF RefreshInv, TypeOK, RenameWrites, Edit, NoFeed, Feed
<1>4. row' \in Feed /\ Agrees(row)' /\ row'.success <= clock
  BY <1>1 DEF RefreshInv, TypeOK, EditAgrees, Agrees, RenameWrites, Edit, Feed
<1> QED BY <1>1, <1>2, <1>3, <1>4, EditStepKeepsInv

\* The store's record agrees.
LEMMA UnfileReadsKeepsInv ==
    ASSUME RefreshInv, UnfileReads
    PROVE  RefreshInv'
<1>1. Loosens /\ settled' = settled
  BY SettledStaysOrGoes DEF UnfileReads, history
<1>2. /\ call' = call /\ clock' = clock /\ publisher' = publisher /\ removed' \in BOOLEAN
      /\ UNCHANGED <<row, shown, shared, aged, purged>> /\ troubles' \in Nat /\ renames' \in Nat
      /\ articles' = articles
  BY DEF RefreshInv, TypeOK, UnfileReads, Trouble, records, stored, bounds, history
<1>3. edit' \in Edit /\ edit'.feed.success <= clock /\ edit'.op = "unfile"
  BY DEF RefreshInv, TypeOK, RecordsAgree, UnfileReads, Edit
<1>4. row' \in Feed /\ Agrees(row)' /\ row'.success <= clock
  BY <1>1, <1>2 DEF RefreshInv, TypeOK, RecordsAgree, Agrees
<1>5. Agrees(edit.feed)'
  <2>1. edit'.feed = shown /\ Agrees(shown)
    BY DEF UnfileReads, RefreshInv, RecordsAgree
  <2> QED BY <1>1, <2>1 DEF Agrees
<1> QED BY <1>1, <1>2, <1>3, <1>4, <1>5, EditStepKeepsInv

\* So do the record it took and the store's record of now.
LEMMA UnfileWritesKeepsInv ==
    ASSUME RefreshInv, UnfileWrites
    PROVE  RefreshInv'
<1>1. Loosens /\ settled' = settled
  BY SettledStaysOrGoes DEF UnfileWrites, history
<1>2. /\ call' = call /\ clock' = clock /\ publisher' = publisher /\ removed' \in BOOLEAN
      /\ UNCHANGED <<shown, shared, aged, purged>> /\ troubles' \in Nat /\ renames' \in Nat
      /\ articles' = articles
  BY DEF RefreshInv, TypeOK, UnfileWrites, stored, bounds, history
<1>3. edit' \in Edit /\ edit'.feed.success <= clock /\ edit'.op = "reload"
  BY DEF RefreshInv, TypeOK, UnfileWrites, Edit, NoFeed, Feed
<1>4. row' \in Feed /\ Agrees(row)' /\ row'.success <= clock
  <2>1. /\ shown \in Feed /\ Agrees(shown) /\ shown.success <= clock
        /\ edit.feed \in Feed /\ Agrees(edit.feed) /\ edit.feed.success <= clock
    BY DEF UnfileWrites, RefreshInv, TypeOK, RecordsAgree, EditAgrees, Edit
  <2> QED BY <1>1, <2>1 DEF Agrees, UnfileWrites
<1> QED BY <1>1, <1>2, <1>3, <1>4, EditStepKeepsInv

\* A removal gives up settled.
LEMMA RemoveFeedKeepsInv ==
    ASSUME RefreshInv, RemoveFeed
    PROVE  RefreshInv'
<1>1. Loosens /\ ~settled'.there
  BY SettledStaysOrGoes DEF RemoveFeed, Unsettle, NoFeed
<1>2. /\ call' = call /\ clock' = clock /\ publisher' = publisher /\ removed' \in BOOLEAN
      /\ UNCHANGED <<shown, shared, aged, purged>> /\ troubles' \in Nat /\ renames' \in Nat
      /\ articles' = articles
  BY DEF RefreshInv, TypeOK, RemoveFeed, Trouble, stored, bounds
<1>3. edit' \in Edit /\ edit'.feed.success <= clock /\ edit'.op = "remove"
  BY DEF RefreshInv, TypeOK, RemoveFeed, Trouble, Edit, NoFeed, Feed
<1>4. row' \in Feed /\ Agrees(row)' /\ row'.success <= clock
  BY <1>1 DEF RefreshInv, TypeOK, Agrees, RemoveFeed, NoFeed, Feed
<1> QED BY <1>1, <1>2, <1>3, <1>4, EditStepKeepsInv

\* Deleting the articles of a removed feed digs up nothing.
LEMMA RemoveArticlesKeepsInv ==
    ASSUME RefreshInv, RemoveArticles
    PROVE  RefreshInv'
<1>1. Loosens /\ settled' = settled
  BY SettledStaysOrGoes DEF RemoveArticles, history
<1>2. /\ call' = call /\ clock' = clock /\ publisher' = publisher /\ removed' \in BOOLEAN
      /\ UNCHANGED <<row, shown, shared, aged, purged>> /\ troubles' \in Nat /\ renames' \in Nat
      /\ articles' = {}
  BY DEF RefreshInv, TypeOK, RemoveArticles, records, bounds, history
<1>3. edit' \in Edit /\ edit'.feed.success <= clock /\ edit'.op = "reload"
  BY DEF RefreshInv, TypeOK, RemoveArticles, Edit, NoFeed, Feed
<1>4. row' \in Feed /\ Agrees(row)' /\ row'.success <= clock
  BY <1>1, <1>2 DEF RefreshInv, TypeOK, RecordsAgree, Agrees
<1> QED BY <1>1, <1>2, <1>3, <1>4, EditStepKeepsInv

\* What the store reads again is the database's record.
LEMMA EditReloadsKeepsInv ==
    ASSUME RefreshInv, EditReloads
    PROVE  RefreshInv'
<1>1. /\ UNCHANGED <<publisher, row, articles, aged, call, clock, renames, troubles, purged,
                     removed>>
      /\ shown' = row /\ shared' = FALSE /\ edit' = NoEdit /\ Observe
  BY DEF EditReloads, stored, bounds
<1>2. TypeOK'
  <2>1. settled' \in Feed
    BY <1>1 DEF Observe, Buried, RefreshInv, TypeOK, Feed
  <2>2. NoEdit \in Edit
    BY DEF NoEdit, Edit, NoFeed, Feed
  <2> QED BY <1>1, <2>1, <2>2 DEF RefreshInv, TypeOK
<1>3. ASSUME settled' = settled
      PROVE  RecordsAgree' /\ TombstonesHold' /\ EditAgrees' /\ CallsAgree'
  <2>1. RecordsAgree'
    BY <1>1, <1>3 DEF RefreshInv, RecordsAgree, Agrees
  <2>2. TombstonesHold'
    BY <1>1, <1>3 DEF RefreshInv, TombstonesHold
  <2>3. EditAgrees'
    BY <1>1 DEF EditAgrees, NoEdit, NoFeed, RefreshInv, TypeOK
  <2>4. CallsAgree'
    BY <1>1, <1>3, SettledStaysOrGoes, AgreesWithLess
  <2> QED BY <2>1, <2>2, <2>3, <2>4
<1>4. row'.success <= clock'
  BY <1>1 DEF RefreshInv, RecordsAgree
<1> QED BY <1>1, <1>2, <1>3, <1>4, SettlingKeepsInv

\* A reload of the tab ends the calls and reads the database's record.
LEMMA ReloadKeepsInv ==
    ASSUME RefreshInv, Reload
    PROVE  RefreshInv'
<1>1. /\ UNCHANGED <<publisher, row, articles, aged, clock, renames, purged, removed>>
      /\ shown' = row /\ shared' = FALSE /\ edit' = NoEdit /\ Observe
      /\ call' = [g \in Guards |-> Idle] /\ troubles' = troubles + 1
  BY DEF Reload, Trouble, stored
<1>2. TypeOK'
  <2>1. settled' \in Feed
    BY <1>1 DEF Observe, Buried, RefreshInv, TypeOK, Feed
  <2>2. NoEdit \in Edit
    BY DEF NoEdit, Edit, NoFeed, Feed
  <2>3. call' \in [Guards -> Call]
    <3>1. Idle \in Call
      BY DEF Idle, NoFeed, Call, Feed, Ops, Stages
    <3> QED BY <1>1, <3>1
  <2>4. /\ publisher' \in [etag : Nat, items : SUBSET Guids]
        /\ row' \in Feed /\ shown' \in Feed /\ shared' \in BOOLEAN
        /\ articles' \in SUBSET Guids /\ aged' \in SUBSET Guids
    BY <1>1 DEF RefreshInv, TypeOK
  <2>5. /\ clock' \in Nat /\ renames' \in Nat /\ troubles' \in Nat
        /\ purged' \in SUBSET Guids /\ removed' \in BOOLEAN
    BY <1>1 DEF RefreshInv, TypeOK
  <2> QED BY <1>1, <2>1, <2>2, <2>3, <2>4, <2>5 DEF TypeOK
<1>3. ASSUME settled' = settled
      PROVE  RecordsAgree' /\ TombstonesHold' /\ EditAgrees' /\ CallsAgree'
  <2>1. RecordsAgree'
    BY <1>1, <1>3 DEF RefreshInv, RecordsAgree, Agrees
  <2>2. TombstonesHold'
    BY <1>1, <1>3 DEF RefreshInv, TombstonesHold
  <2>3. EditAgrees'
    BY <1>1 DEF EditAgrees, NoEdit, NoFeed, RefreshInv, TypeOK
  <2>4. CallsAgree'
    <3>1. \A g \in Guards : call'[g] = Idle
      BY <1>1
    <3> QED BY <1>1, <3>1 DEF CallsAgree, CallAgrees, Idle, NoFeed, Holding, Timed, RefreshInv,
               TypeOK
  <2> QED BY <2>1, <2>2, <2>3, <2>4
<1>4. row'.success <= clock'
  BY <1>1 DEF RefreshInv, RecordsAgree
<1> QED BY <1>1, <1>2, <1>3, <1>4, SettlingKeepsInv

\* When the publisher drops an item, its tombstone need not be kept any longer.
LEMMA PublishKeepsInv ==
    ASSUME RefreshInv, NEW items \in SUBSET Guids, Publish(items)
    PROVE  RefreshInv'
<1>1. /\ UNCHANGED <<row, shown, shared, articles, aged, call, edit, clock, renames, removed>>
      /\ troubles' = troubles + 1
      /\ publisher' = [etag |-> publisher.etag + 1, items |-> items]
      /\ purged' = purged \cap items
  BY DEF Publish, Trouble, records, stored
<1>2. Loosens /\ settled'.retired \subseteq items
  BY DEF Publish, RefreshInv, TypeOK, Feed, RecordsAgree, TombstonesHold, Loosens
<1>3. TypeOK'
  BY <1>1, <1>2 DEF RefreshInv, TypeOK, Loosens
<1>4. RecordsAgree'
  BY <1>1, <1>2 DEF RefreshInv, RecordsAgree, Agrees, Loosens
<1>5. TombstonesHold'
  BY <1>1, <1>2 DEF RefreshInv, TombstonesHold, Loosens
<1>6. EditAgrees'
  BY <1>1, <1>2 DEF RefreshInv, EditAgrees, Agrees, Loosens
<1>7. CallsAgree'
  BY <1>1, <1>2, AgreesWithLess
<1> QED BY <1>3, <1>4, <1>5, <1>6, <1>7 DEF RefreshInv

\* Time alone changes no record.
LEMMA AgeKeepsInv ==
    ASSUME RefreshInv, NEW i \in Guids, Age(i)
    PROVE  RefreshInv'
<1>1. /\ UNCHANGED <<publisher, row, shown, shared, articles, call, edit, clock, renames,
                     troubles, settled, purged, removed>>
      /\ aged' = aged \cup {i}
  BY DEF Age, records, bounds, history
<1>2. TypeOK'
  BY <1>1 DEF RefreshInv, TypeOK
<1>3. RecordsAgree' /\ TombstonesHold' /\ EditAgrees'
  BY <1>1 DEF RefreshInv, RecordsAgree, TombstonesHold, EditAgrees, Agrees
<1>4. CallsAgree'
  BY <1>1, SettledStaysOrGoes, AgreesWithLess
<1> QED BY <1>2, <1>3, <1>4 DEF RefreshInv

-----------------------------------------------------------------------------

\* Every step keeps the invariant.
LEMMA NextKeepsInv ==
    ASSUME RefreshInv, [Next]_vars
    PROVE  RefreshInv'
<1>1. CASE Start
  BY <1>1, StartKeepsInv
<1>2. ASSUME NEW g \in Guards, Continue(g) PROVE RefreshInv'
  BY <1>2, ReloadClearsKeepsInv, PublisherAnswersKeepsInv, FetchFailsKeepsInv,
     ReadsRetiredKeepsInv, LooksUpKeepsInv, StoresKeepsInv, RecordsFailureKeepsInv,
     RecordsReachKeepsInv, RecordsSuccessKeepsInv, UpdatesStoreKeepsInv, PurgeReadsKeepsInv,
     PurgeReadsFeedKeepsInv, PurgeRetiresKeepsInv, PurgeDeletesKeepsInv, PurgeFailsKeepsInv
     DEF Continue
<1>3. CASE UserStep
  BY <1>3, RenameReadsKeepsInv, RenameWritesKeepsInv, UnfileReadsKeepsInv,
     UnfileWritesKeepsInv, RemoveFeedKeepsInv, RemoveArticlesKeepsInv, EditReloadsKeepsInv,
     ReloadKeepsInv DEF UserStep
<1>4. ASSUME NEW items \in SUBSET Guids, Publish(items) PROVE RefreshInv'
  BY <1>4, PublishKeepsInv
<1>5. ASSUME NEW i \in Guids, Age(i) PROVE RefreshInv'
  BY <1>5, AgeKeepsInv
<1>6. CASE UNCHANGED vars
  <2>1. UNCHANGED <<publisher, row, shown, shared, articles, aged, call, edit, clock, renames,
                    troubles, settled, purged, removed>>
    BY <1>6 DEF vars, records, stored, bounds, history
  <2>2. TypeOK' /\ RecordsAgree' /\ TombstonesHold' /\ EditAgrees'
    BY <2>1 DEF RefreshInv, TypeOK, RecordsAgree, TombstonesHold, EditAgrees, Agrees
  <2>3. CallsAgree'
    BY <2>1, SettledStaysOrGoes, AgreesWithLess
  <2> QED BY <2>2, <2>3 DEF RefreshInv
<1> QED BY <1>1, <1>2, <1>3, <1>4, <1>5, <1>6 DEF Next

\* The inductive invariant holds in every reachable state, whatever the publisher
\* carries and however many refreshes, renames and reloads there are.
THEOREM RefreshInvariant == Spec => []RefreshInv
<1> QED BY InitSatisfiesInv, NextKeepsInv, PTL DEF Spec

\* The variables have their types.
THEOREM RefreshTypeCorrect == Spec => []TypeOK
<1>1. RefreshInv => TypeOK
  BY DEF RefreshInv
<1> QED BY <1>1, RefreshInvariant, PTL

\* No refresh, purge or write of a stale copy takes back the title that the user gave
\* a feed when nothing was in progress (refreshFeed, deleteFolder, retireUndatedGuids).
THEOREM SettledTitleIsKept == Spec => []TitleIsKept
<1>1. RefreshInv => TitleIsKept
  BY DEF RefreshInv, RecordsAgree, Agrees, TitleIsKept
<1> QED BY <1>1, RefreshInvariant, PTL

\* The time of the last success never falls behind the settled one (persistFreshness).
THEOREM SettledSuccessIsKept == Spec => []SuccessIsKept
<1>1. RefreshInv => SuccessIsKept
  BY DEF RefreshInv, RecordsAgree, Agrees, SuccessIsKept
<1> QED BY <1>1, RefreshInvariant, PTL

\* A purged article whose tombstone has settled does not come back while the publisher
\* carries its item (storedRetiredGuids, keepRetiredGuidsStillInFeed, admitsOnIngest).
THEOREM SettledTombstonesHold == Spec => []BuriedStaysBuried
<1>1. RefreshInv => BuriedStaysBuried
  BY DEF RefreshInv, RecordsAgree, TombstonesHold, Agrees, BuriedStaysBuried
<1> QED BY <1>1, RefreshInvariant, PTL
=============================================================================
