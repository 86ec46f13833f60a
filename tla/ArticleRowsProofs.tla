-------------------------- MODULE ArticleRowsProofs --------------------------
(***************************************************************************)
(* Proofs about ArticleRows, for every set of row ids and every number of   *)
(* acts.                                                                    *)
(***************************************************************************)
EXTENDS ArticleRows, SequenceTheorems, FiniteSetTheorems, WellFoundedInduction, TLAPS

-----------------------------------------------------------------------------
(* The invariant.                                                          *)

RowsShape ==
    /\ table \in Rows /\ byFeed \in Rows /\ listed \in Rows
    /\ opened \in Rows /\ timer \in Rows /\ sweep \in Rows
    /\ writes \in Seq(Rows)
    /\ task \in [Slots -> Task]
    /\ offline \in BOOLEAN /\ starWanted \in BOOLEAN
    /\ calm \in BOOLEAN /\ revived \in BOOLEAN

OneRow(rows) == \A i, j \in DOMAIN rows : i = j

\* A refresh that will leave one row: it has yet to look for twins, or has seen all rows
\* there are, or is about to delete all of them but one.
WillCollapse(t) ==
    \/ task[t].phase \in {"lookup", "add", "update", "dedupe"}
    \/ At(t, "collapse") /\ DOMAIN table \subseteq DOMAIN task[t].seen
    \/ At(t, "drop") /\ \A i, j \in DOMAIN table \ task[t].gone : i = j

TwinsInv ==
    revived \/ OneRow(table) \/ \E t \in {"all", "single"} : WillCollapse(t)

\* Whatever a refresh is about to delete, a row with a lower key stays; so two of them
\* cannot delete each other's keeper.
KeeperInv ==
    /\ \A t \in Slots : At(t, "collapse") => DOMAIN task[t].seen # {}
    /\ \A t \in Slots : At(t, "delete") => expired
    /\ \A t \in Slots : At(t, "drop") /\ ~expired =>
          \E i \in DOMAIN table : \A g \in task[t].gone : i < g

Same(a, b) == a.starred = b.starred /\ a.read = b.read

NoneBut(t) == \A s \in Slots \ {t} : At(s, "idle")

\* While the history is calm, one thing is under way at a time.
Alone ==
    /\ DOMAIN timer # {} => writes = <<>> /\ DOMAIN sweep = {} /\ \A t \in Slots : At(t, "idle")
    /\ writes # <<>> => Len(writes) = 1 /\ DOMAIN sweep = {} /\ \A t \in Slots : At(t, "idle")
    /\ DOMAIN sweep # {} => \A t \in Slots : At(t, "idle")
    /\ \A t \in Slots : ~At(t, "idle") => NoneBut(t)

\* What the table will hold when the write under way has landed.
Intended(i) ==
    IF writes # <<>> /\ i \in DOMAIN Head(writes) THEN Head(writes)[i]
    ELSE IF i \in DOMAIN sweep THEN sweep[i]
    ELSE table[i]

Renewing == At("all", "preload") \/ At("all", "show")

\* ... and the copies of the store, of the timer and of the tasks agree with the table.
Agreement ==
    /\ OneRow(table)
    /\ DOMAIN table = {} => ~starWanted
    /\ \A i \in DOMAIN table :
          /\ Intended(i).starred = starWanted
          /\ i \in DOMAIN byFeed => Same(byFeed[i], Intended(i))
          /\ i \in DOMAIN listed => Same(listed[i], Intended(i))
    /\ DOMAIN timer \subseteq DOMAIN table
    /\ \A i \in DOMAIN timer : Same(timer[i], table[i])
    /\ writes # <<>> => DOMAIN Head(writes) \subseteq DOMAIN table
    /\ DOMAIN sweep \subseteq DOMAIN table
    /\ ~Renewing => DOMAIN byFeed \subseteq DOMAIN table /\ DOMAIN listed \subseteq DOMAIN table

TaskAgrees(t) ==
    /\ task[t].phase \in {"update", "show", "extract", "clear"} =>
          \A i \in DOMAIN task[t].seen : i \in DOMAIN table /\ Same(task[t].seen[i], table[i])
    /\ At(t, "add") => DOMAIN table = {}
    /\ At(t, "delete") => \A i \in task[t].gone \cap DOMAIN table : ~table[i].starred
    /\ ~At(t, "collapse") /\ ~At(t, "drop")

AllAgree == Alone /\ Agreement /\ \A t \in Slots : TaskAgrees(t)

CalmInv == calm => AllAgree

RowsInv == RowsShape /\ TwinsInv /\ KeeperInv /\ CalmInv

-----------------------------------------------------------------------------
(* Sets of rows.                                                           *)

\* A set of rows gives each of its ids an article.
LEMMA RowsHave ==
    ASSUME NEW rows \in Rows
    PROVE  /\ DOMAIN rows \in SUBSET Ids
           /\ rows \in [DOMAIN rows -> Article]
           /\ \A i \in DOMAIN rows : rows[i] \in Article
BY DEF Rows

LEMMA RowsMade ==
    ASSUME NEW S \in SUBSET Ids, NEW rows \in [S -> Article]
    PROVE  rows \in Rows
BY DEF Rows

\* No rows at all are rows, and the only ones without an id.
LEMMA NoRows ==
    /\ None \in Rows /\ DOMAIN None = {}
    /\ \A rows \in Rows : DOMAIN rows = {} <=> rows = None
<1>1. DOMAIN None = {} /\ None \in [{} -> Article]
  BY DEF None
<1>2. None \in Rows
  BY <1>1, RowsMade
<1>3. ASSUME NEW rows \in Rows, DOMAIN rows = {} PROVE rows = None
  <2>1. rows \in [{} -> Article]
    BY <1>3, RowsHave
  <2> QED BY <2>1 DEF None
<1> QED BY <1>1, <1>2, <1>3

\* One row on its own.
LEMMA RowIsRows ==
    ASSUME NEW id \in Ids, NEW a \in Article
    PROVE  Row(id, a) \in Rows /\ DOMAIN Row(id, a) = {id} /\ Row(id, a)[id] = a
<1>1. Row(id, a) \in [{id} -> Article] /\ DOMAIN Row(id, a) = {id} /\ Row(id, a)[id] = a
  BY DEF Row
<1> QED BY <1>1, RowsMade

\* An article whose read state is set.
LEMMA ReadIsSet ==
    ASSUME NEW a \in Article, NEW r \in BOOLEAN
    PROVE  /\ [a EXCEPT !.read = r] \in Article
           /\ [a EXCEPT !.read = r].read = r
           /\ [a EXCEPT !.read = r].starred = a.starred
BY DEF Article

\* An article whose text is fetched or dropped.
LEMMA SavedIsSet ==
    ASSUME NEW a \in Article, NEW b \in BOOLEAN
    PROVE  /\ [a EXCEPT !.saved = b] \in Article
           /\ [a EXCEPT !.saved = b].read = a.read
           /\ [a EXCEPT !.saved = b].starred = a.starred
BY DEF Article

\* Rows written over others.
LEMMA OverIsRows ==
    ASSUME NEW rows \in Rows, NEW old \in Rows
    PROVE  /\ Over(rows, old) \in Rows
           /\ DOMAIN Over(rows, old) = DOMAIN rows \cup DOMAIN old
           /\ \A i \in DOMAIN rows \cup DOMAIN old :
                 Over(rows, old)[i] = IF i \in DOMAIN rows THEN rows[i] ELSE old[i]
<1>1. /\ DOMAIN rows \in SUBSET Ids /\ DOMAIN old \in SUBSET Ids
      /\ \A i \in DOMAIN rows : rows[i] \in Article
      /\ \A i \in DOMAIN old : old[i] \in Article
  BY RowsHave
<1> DEFINE S == DOMAIN rows \cup DOMAIN old
<1>2. Over(rows, old) \in [S -> Article]
  BY <1>1 DEF Over
<1>3. S \in SUBSET Ids
  BY <1>1
<1>4. Over(rows, old) \in Rows
  BY <1>2, <1>3, RowsMade
<1> QED BY <1>4 DEF Over

\* Some of the rows.
LEMMA OnlyIsRows ==
    ASSUME NEW rows \in Rows, NEW ids
    PROVE  /\ Only(rows, ids) \in Rows
           /\ DOMAIN Only(rows, ids) = DOMAIN rows \cap ids
           /\ \A i \in DOMAIN rows \cap ids : Only(rows, ids)[i] = rows[i]
<1>1. /\ DOMAIN rows \in SUBSET Ids /\ \A i \in DOMAIN rows : rows[i] \in Article
  BY RowsHave
<1> DEFINE S == DOMAIN rows \cap ids
<1>2. Only(rows, ids) \in [S -> Article] /\ S \in SUBSET Ids
  BY <1>1 DEF Only
<1>3. Only(rows, ids) \in Rows
  BY <1>2, RowsMade
<1> QED BY <1>3 DEF Only

LEMMA WithoutIsRows ==
    ASSUME NEW rows \in Rows, NEW ids
    PROVE  /\ Without(rows, ids) \in Rows
           /\ DOMAIN Without(rows, ids) = DOMAIN rows \ ids
           /\ \A i \in DOMAIN rows \ ids : Without(rows, ids)[i] = rows[i]
<1>1. /\ DOMAIN rows \in SUBSET Ids /\ \A i \in DOMAIN rows : rows[i] \in Article
  BY RowsHave
<1> DEFINE S == DOMAIN rows \ ids
<1>2. Without(rows, ids) \in [S -> Article] /\ S \in SUBSET Ids
  BY <1>1 DEF Without
<1>3. Without(rows, ids) \in Rows
  BY <1>2, RowsMade
<1> QED BY <1>3 DEF Without

\* The rows as read.
LEMMA MarkedReadIsRows ==
    ASSUME NEW rows \in Rows
    PROVE  /\ MarkedRead(rows) \in Rows
           /\ DOMAIN MarkedRead(rows) = DOMAIN rows
           /\ \A i \in DOMAIN rows : /\ MarkedRead(rows)[i].starred = rows[i].starred
                                     /\ MarkedRead(rows)[i].read = TRUE
<1>1. /\ DOMAIN rows \in SUBSET Ids /\ \A i \in DOMAIN rows : rows[i] \in Article
  BY RowsHave
<1>2. \A i \in DOMAIN rows : /\ [rows[i] EXCEPT !.read = TRUE] \in Article
                             /\ [rows[i] EXCEPT !.read = TRUE].starred = rows[i].starred
                             /\ [rows[i] EXCEPT !.read = TRUE].read = TRUE
  BY <1>1 DEF Article
<1> DEFINE S == DOMAIN rows
<1>3. MarkedRead(rows) \in [S -> Article] /\ S \in SUBSET Ids
  BY <1>1, <1>2 DEF MarkedRead
<1>4. MarkedRead(rows) \in Rows
  BY <1>3, RowsMade
<1> QED BY <1>2, <1>4 DEF MarkedRead

\* The store's copy after an update.
LEMMA ShowsIsRows ==
    ASSUME NEW rows \in Rows, NEW updated \in Rows
    PROVE  /\ Shows(rows, updated) \in Rows
           /\ DOMAIN Shows(rows, updated) = DOMAIN rows
           /\ \A i \in DOMAIN rows :
                 Shows(rows, updated)[i] = IF i \in DOMAIN updated THEN updated[i] ELSE rows[i]
<1>1. /\ DOMAIN rows \in SUBSET Ids
      /\ \A i \in DOMAIN rows : rows[i] \in Article
      /\ \A i \in DOMAIN updated : updated[i] \in Article
  BY RowsHave
<1> DEFINE S == DOMAIN rows
<1>2. Shows(rows, updated) \in [S -> Article] /\ S \in SUBSET Ids
  BY <1>1 DEF Shows
<1>3. Shows(rows, updated) \in Rows
  BY <1>2, RowsMade
<1> QED BY <1>3 DEF Shows

\* Those of the rows that are unread.
LEMMA UnreadIsRows ==
    ASSUME NEW rows \in Rows, NEW S \in SUBSET DOMAIN rows
    PROVE  [i \in S |-> rows[i]] \in Rows
<1>1. /\ DOMAIN rows \in SUBSET Ids /\ \A i \in DOMAIN rows : rows[i] \in Article
  BY RowsHave
<1>2. [i \in S |-> rows[i]] \in [S -> Article] /\ S \in SUBSET Ids
  BY <1>1
<1> QED BY <1>2, RowsMade

\* Counting rows: no more than one is one row, if there is one.
LEMMA OneRowCounts ==
    ASSUME NEW rows \in Rows
    PROVE  /\ Cardinality(DOMAIN rows) <= 1 <=> OneRow(rows)
           /\ Cardinality(DOMAIN rows) < 2 <=> OneRow(rows)
           /\ Cardinality(DOMAIN rows) > 1 <=> ~OneRow(rows)
           /\ ~OneRow(rows) => DOMAIN rows # {}
<1> DEFINE S == DOMAIN rows
<1>1. IsFiniteSet(S)
  BY RowsHave, ArticleAssumption, FS_Subset
<1>2. Cardinality(S) \in Nat
  BY <1>1, FS_CardinalityType
<1>3. ASSUME Cardinality(S) <= 1 PROVE OneRow(rows)
  <2>1. CASE Cardinality(S) = 0
    <3>1. S = {}
      BY <1>1, <2>1, FS_EmptySet
    <3> QED BY <3>1 DEF OneRow
  <2>2. CASE Cardinality(S) = 1
    <3>1. \E x : S = {x}
      BY <1>1, <2>2, FS_Singleton
    <3> QED BY <3>1 DEF OneRow
  <2> QED BY <1>2, <1>3, <2>1, <2>2
<1>4. ASSUME OneRow(rows) PROVE Cardinality(S) <= 1
  <2>1. CASE S = {}
    BY <2>1, FS_EmptySet
  <2>2. CASE S # {}
    <3>1. PICK x \in S : TRUE
      BY <2>2
    <3>2. S = {x}
      BY <1>4, <3>1 DEF OneRow
    <3>3. Cardinality({x}) = 1
      BY FS_Singleton
    <3> QED BY <3>2, <3>3
  <2> QED BY <2>1, <2>2
<1>5. ~OneRow(rows) => S # {}
  BY DEF OneRow
<1> QED BY <1>2, <1>3, <1>4, <1>5

\* The lowest of some ids is one of them, and no other is lower.
LEMMA MinOfIds ==
    ASSUME NEW S \in SUBSET Ids, S # {}
    PROVE  Min(S) \in S /\ \A i \in S \ {Min(S)} : Min(S) < i
<1> DEFINE R == OpToRel(<,Nat)
<1>1. IsWellFoundedOn(R, Nat)
  BY NatLessThanWellFounded
<1>2. \A x, y \in Nat : y < x => <<y, x>> \in R
  BY DEF OpToRel
<1> HIDE DEF R
<1>3. S \in SUBSET Nat
  BY ArticleAssumption
<1>4. \E x \in S : \A y \in S : ~ (<<y, x>> \in R)
  BY <1>1, <1>3, WFMin
<1>5. PICK x \in S : \A y \in S : ~ (<<y, x>> \in R)
  BY <1>4
<1>6. ASSUME NEW y \in S PROVE x <= y
  <2>1. x \in Nat /\ y \in Nat
    BY <1>3
  <2>2. ~(y < x)
    BY <1>2, <1>5, <2>1
  <2> QED BY <2>1, <2>2
<1> DEFINE m == Min(S)
<1>7. m \in S /\ \A y \in S : m <= y
  BY <1>6 DEF Min
<1> HIDE DEF m
<1>8. ASSUME NEW i \in S, i # m PROVE m < i
  <2>1. m \in Nat /\ i \in Nat /\ m <= i
    BY <1>3, <1>7
  <2> QED BY <2>1, <1>8
<1>9. m \in S /\ \A i \in S \ {m} : m < i
  BY <1>7, <1>8
<1> QED BY <1>9 DEF m

-----------------------------------------------------------------------------
(* Steps of a task.                                                        *)

\* One slot gets new work, the others keep theirs.
LEMMA TaskMoves ==
    ASSUME task \in [Slots -> Task], NEW t \in Slots, NEW work \in Task,
           task' = [task EXCEPT ![t] = work]
    PROVE  /\ task' \in [Slots -> Task]
           /\ task'[t] = work
           /\ \A s \in Slots \ {t} : task'[s] = task[s]
OBVIOUS

LEMMA NoTaskIsTask ==
    NoTask \in Task /\ NoTask.phase = "idle" /\ NoTask.seen = None /\ NoTask.gone = {}
BY NoRows DEF NoTask, Task, Phases

\* A task goes on with nothing in hand.
LEMMA GoesMoves ==
    ASSUME task \in [Slots -> Task], NEW t \in Slots, NEW phase \in Phases, Goes(t, phase)
    PROVE  /\ task' \in [Slots -> Task]
           /\ task'[t].phase = phase /\ task'[t].seen = None /\ task'[t].gone = {}
           /\ \A s \in Slots \ {t} : task'[s] = task[s]
<1> DEFINE work == [NoTask EXCEPT !.phase = phase]
<1>1. work \in Task /\ work.phase = phase /\ work.seen = None /\ work.gone = {}
  BY NoRows DEF NoTask, Task
<1>2. task' = [task EXCEPT ![t] = work]
  BY DEF Goes
<1> HIDE DEF work
<1> QED BY <1>1, <1>2, TaskMoves

\* A task goes on with the rows it has read.
LEMMA HoldsMoves ==
    ASSUME task \in [Slots -> Task], NEW t \in Slots, NEW phase \in Phases,
           NEW rows \in Rows, Holds(t, phase, rows)
    PROVE  /\ task' \in [Slots -> Task]
           /\ task'[t].phase = phase /\ task'[t].seen = rows /\ task'[t].gone = {}
           /\ \A s \in Slots \ {t} : task'[s] = task[s]
<1> DEFINE work == [NoTask EXCEPT !.phase = phase, !.seen = rows]
<1>1. work \in Task /\ work.phase = phase /\ work.seen = rows /\ work.gone = {}
  BY DEF NoTask, Task
<1>2. task' = [task EXCEPT ![t] = work]
  BY DEF Holds
<1> HIDE DEF work
<1> QED BY <1>1, <1>2, TaskMoves

\* A task goes on with the rows it will delete.
LEMMA DropsMoves ==
    ASSUME task \in [Slots -> Task], NEW t \in Slots, NEW phase \in Phases,
           NEW ids \in SUBSET Ids,
           task' = [task EXCEPT ![t] = [NoTask EXCEPT !.phase = phase, !.gone = ids]]
    PROVE  /\ task' \in [Slots -> Task]
           /\ task'[t].phase = phase /\ task'[t].seen = None /\ task'[t].gone = ids
           /\ \A s \in Slots \ {t} : task'[s] = task[s]
<1> DEFINE work == [NoTask EXCEPT !.phase = phase, !.gone = ids]
<1>1. work \in Task /\ work.phase = phase /\ work.seen = None /\ work.gone = ids
  BY NoRows DEF NoTask, Task
<1>2. task' = [task EXCEPT ![t] = work]
  OBVIOUS
<1> HIDE DEF work
<1> QED BY <1>1, <1>2, TaskMoves

\* A slot falls idle.
LEMMA EndsMoves ==
    ASSUME task \in [Slots -> Task], NEW t \in Slots, task' = [task EXCEPT ![t] = NoTask]
    PROVE  /\ task' \in [Slots -> Task]
           /\ task'[t].phase = "idle" /\ task'[t].seen = None /\ task'[t].gone = {}
           /\ \A s \in Slots \ {t} : task'[s] = task[s]
<1> QED BY NoTaskIsTask, TaskMoves

\* A prefetch has one row less to fetch.
LEMMA LeftMoves ==
    ASSUME task \in [Slots -> Task], NEW t \in Slots, NEW rows \in Rows,
           task' = [task EXCEPT ![t] = [@ EXCEPT !.seen = rows]]
    PROVE  /\ task' \in [Slots -> Task]
           /\ task'[t].phase = task[t].phase /\ task'[t].seen = rows
           /\ task'[t].gone = task[t].gone
           /\ \A s \in Slots \ {t} : task'[s] = task[s]
<1> DEFINE work == [task[t] EXCEPT !.seen = rows]
<1>1. /\ work \in Task /\ work.phase = task[t].phase /\ work.seen = rows
      /\ work.gone = task[t].gone
  BY DEF Task
<1>2. task' = [task EXCEPT ![t] = work]
  OBVIOUS
<1> HIDE DEF work
<1> QED BY <1>1, <1>2, TaskMoves

\* The slot that shows what it has read falls idle, and the prefetch may start.
LEMMA ShowMoves ==
    ASSUME task \in [Slots -> Task], NEW t \in {"all", "prefetch", "space", "view"},
           At(t, "show"), PreloadShows(t)
    PROVE  /\ task' \in [Slots -> Task]
           /\ task'[t].phase = "idle"
           /\ \A s \in Slots \ {t} :
                 \/ task'[s] = task[s]
                 \/ t = "all" /\ s = "prefetch" /\ task[s] = NoTask /\ task'[s].phase = "fetch"
<1> DEFINE first == [task EXCEPT ![t] = NoTask]
           next  == IF t = "all" /\ first["prefetch"] = NoTask
                    THEN [NoTask EXCEPT !.phase = "fetch"]
                    ELSE IF t = "prefetch" THEN NoTask ELSE first["prefetch"]
<1>1. t \in Slots /\ "prefetch" \in Slots
  BY DEF Slots
<1>2. /\ [NoTask EXCEPT !.phase = "fetch"] \in Task
      /\ [NoTask EXCEPT !.phase = "fetch"].phase = "fetch"
  BY NoRows DEF NoTask, Task, Phases
<1>3. /\ first \in [Slots -> Task] /\ first[t] = NoTask
      /\ \A s \in Slots \ {t} : first[s] = task[s]
  BY <1>1, NoTaskIsTask
<1>4. task' = [first EXCEPT !["prefetch"] = next]
  BY DEF PreloadShows
<1>5. next \in Task
  BY <1>1, <1>2, <1>3, NoTaskIsTask
<1>6. /\ t = "prefetch" => next = NoTask
      /\ t # "prefetch" =>
            \/ next = task["prefetch"]
            \/ t = "all" /\ task["prefetch"] = NoTask /\ next.phase = "fetch"
  BY <1>1, <1>2, <1>3
<1> HIDE DEF first, next
<1>7. /\ task' \in [Slots -> Task] /\ task'["prefetch"] = next
      /\ \A s \in Slots \ {"prefetch"} : task'[s] = first[s]
  BY <1>1, <1>3, <1>4, <1>5
<1>8. task'[t].phase = "idle"
  BY <1>1, <1>3, <1>6, <1>7, NoTaskIsTask
<1>9. ASSUME NEW s \in Slots \ {t}
      PROVE  \/ task'[s] = task[s]
             \/ t = "all" /\ s = "prefetch" /\ task[s] = NoTask /\ task'[s].phase = "fetch"
  <2>1. CASE s = "prefetch"
    BY <2>1, <1>6, <1>7, <1>9
  <2>2. CASE s # "prefetch"
    BY <2>2, <1>3, <1>7, <1>9
  <2> QED BY <2>1, <2>2
<1> QED BY <1>7, <1>8, <1>9

\* Rows that reach the table: the ids of the table are as before, or a row has come back.
LEMMA PutMoves ==
    ASSUME table \in Rows, revived \in BOOLEAN, NEW rows \in Rows, Put(rows)
    PROVE  /\ table' \in Rows /\ revived' \in BOOLEAN
           /\ DOMAIN table' = DOMAIN rows \cup DOMAIN table
           /\ \A i \in DOMAIN table' :
                 table'[i] = IF i \in DOMAIN rows THEN rows[i] ELSE table[i]
           /\ revived => revived'
           /\ ~revived' => DOMAIN table' = DOMAIN table
<1>1. table' = Over(rows, table) /\ revived' = (revived \/ ~(DOMAIN rows \subseteq DOMAIN table))
  BY DEF Put
<1> DEFINE new == Over(rows, table)
<1>2. /\ new \in Rows /\ DOMAIN new = DOMAIN rows \cup DOMAIN table
      /\ \A i \in DOMAIN rows \cup DOMAIN table : new[i] = IF i \in DOMAIN rows THEN rows[i] ELSE table[i]
  BY OverIsRows
<1>3. table' = new
  BY <1>1
<1> HIDE DEF new
<1> QED BY <1>1, <1>2, <1>3

-----------------------------------------------------------------------------
(* The shape of the state.                                                 *)

\* Initially there are no rows, one, or a pair.
LEMMA InitRows ==
    ASSUME ArticleInit
    PROVE  RowsShape /\ DOMAIN table \subseteq {1, 2}
<1>1. /\ Fresh \in Article /\ [Fresh EXCEPT !.starred = TRUE] \in Article
      /\ 1 \in Ids /\ 2 \in Ids
  BY ArticleAssumption DEF Fresh, Article
<1> DEFINE one == Row(1, Fresh)
           two == Row(2, [Fresh EXCEPT !.starred = TRUE])
<1>2. /\ one \in Rows /\ DOMAIN one = {1}
      /\ two \in Rows /\ DOMAIN two = {2}
  BY <1>1, RowIsRows
<1>3. table \in {None, one, Over(one, two)}
  BY DEF ArticleInit
<1> HIDE DEF one, two
<1> DEFINE pair == Over(one, two)
<1>4. pair \in Rows /\ DOMAIN pair = {1} \cup {2}
  BY <1>2, OverIsRows
<1> HIDE DEF pair
<1>5. table \in Rows /\ DOMAIN table \subseteq {1, 2}
  BY <1>2, <1>3, <1>4, NoRows DEF pair
<1>6. task \in [Slots -> Task]
  BY NoTaskIsTask DEF ArticleInit
<1>7. calm \in BOOLEAN /\ revived \in BOOLEAN /\ starWanted \in BOOLEAN
  BY DEF ArticleInit
<1>8. writes \in Seq(Rows)
  BY DEF ArticleInit
<1> QED BY <1>5, <1>6, <1>7, <1>8, NoRows DEF ArticleInit, RowsShape

\* What the flush of a pending read writes.
LEMMA FlushedIsRows ==
    ASSUME opened \in Rows
    PROVE  Flushed \in Rows /\ (timer = None => Flushed = None)
<1> DEFINE S == {j \in DOMAIN opened : ~opened[j].read}
           unread == [i \in S |-> opened[i]]
<1>1. unread \in Rows
  BY UnreadIsRows
<1> HIDE DEF S, unread
<1>2. MarkedRead(unread) \in Rows
  BY <1>1, MarkedReadIsRows
<1>3. Flushed = IF timer # None THEN MarkedRead(unread) ELSE None
  BY DEF Flushed, S, unread
<1> QED BY <1>2, <1>3, NoRows

\* The acts of the user change the store and what is to be written, in rows.
LEMMA FlushKeepsShape ==
    ASSUME RowsShape, Flush
    PROVE  /\ byFeed' \in Rows /\ writes' \in Seq(Rows)
           /\ timer = None => /\ writes' = writes
                              /\ DOMAIN byFeed' = DOMAIN byFeed
                              /\ \A i \in DOMAIN byFeed : byFeed'[i] = byFeed[i]
<1>1. opened \in Rows /\ byFeed \in Rows /\ writes \in Seq(Rows)
  BY DEF RowsShape
<1>2. Flushed \in Rows /\ (timer = None => Flushed = None)
  BY <1>1, FlushedIsRows
<1> DEFINE new == Shows(byFeed, Flushed)
<1>3. /\ new \in Rows /\ DOMAIN new = DOMAIN byFeed
      /\ \A i \in DOMAIN byFeed : new[i] = IF i \in DOMAIN Flushed THEN Flushed[i] ELSE byFeed[i]
  BY <1>1, <1>2, ShowsIsRows
<1>4. byFeed' = new
  BY DEF Flush
<1>5. writes' = IF Flushed = None THEN writes ELSE Append(writes, Flushed)
  BY DEF Flush
<1>6. Append(writes, Flushed) \in Seq(Rows)
  BY <1>1, <1>2
<1> HIDE DEF new
<1> QED BY <1>1, <1>2, <1>3, <1>4, <1>5, <1>6, NoRows

\* The row that is opened, and its timer.
LEMMA SelectKeepsShape ==
    ASSUME NEW rows \in Rows, Select(rows)
    PROVE  /\ opened' \in Rows /\ timer' \in Rows
           /\ DOMAIN timer' \subseteq DOMAIN rows
           /\ \A i \in DOMAIN timer' : timer'[i] = rows[i]
<1> DEFINE S == {j \in DOMAIN rows : ~rows[j].read}
<1>1. timer' = [i \in S |-> rows[i]] /\ opened' = rows
  BY DEF Select
<1>2. S \in SUBSET DOMAIN rows
  OBVIOUS
<1> HIDE DEF S
<1>3. [i \in S |-> rows[i]] \in Rows
  BY <1>2, UnreadIsRows
<1> QED BY <1>1, <1>2, <1>3

\* The lists after an update.
LEMMA UpdateKeepsShape ==
    ASSUME byFeed \in Rows, listed \in Rows, NEW updated \in Rows, ApplyUpdate(updated)
    PROVE  /\ byFeed' \in Rows /\ DOMAIN byFeed' = DOMAIN byFeed
           /\ \A i \in DOMAIN byFeed :
                 byFeed'[i] = IF i \in DOMAIN updated THEN updated[i] ELSE byFeed[i]
           /\ listed' \in Rows /\ DOMAIN listed' = DOMAIN listed
           /\ \A i \in DOMAIN listed :
                 listed'[i] = IF i \in DOMAIN updated THEN updated[i] ELSE listed[i]
<1> DEFINE feed == Shows(byFeed, updated)
           list == Shows(listed, updated)
<1>1. byFeed' = feed /\ listed' = list
  BY DEF ApplyUpdate
<1>2. /\ feed \in Rows /\ DOMAIN feed = DOMAIN byFeed
      /\ \A i \in DOMAIN byFeed : feed[i] = IF i \in DOMAIN updated THEN updated[i] ELSE byFeed[i]
  BY ShowsIsRows
<1>3. /\ list \in Rows /\ DOMAIN list = DOMAIN listed
      /\ \A i \in DOMAIN listed : list[i] = IF i \in DOMAIN updated THEN updated[i] ELSE listed[i]
  BY ShowsIsRows
<1> HIDE DEF feed, list
<1> QED BY <1>1, <1>2, <1>3

\* The acts of the user that change rows keep the shape of the store and of the writes.
LEMMA ActsKeepShape ==
    ASSUME RowsShape
    PROVE  /\ \A id \in Ids : OpenArticle(id) \/ MarkAsRead(id) \/ ToggleStar(id) => RowsShape'
           /\ LeaveArticle \/ TimerFires \/ MarkAllAsRead => RowsShape'
           /\ \A ids \in SUBSET Ids : MarkUnread(ids) => RowsShape'
<1> USE DEF RowsShape
<1>c. Begins => calm' \in BOOLEAN
  BY DEF Begins
<1>1. ASSUME NEW id \in Ids, OpenArticle(id) PROVE RowsShape'
  <2>1. Only(listed, {id}) \in Rows
    BY OnlyIsRows
  <2>2. Flush /\ Select(Only(listed, {id}))
    BY <1>1 DEF OpenArticle, Select
  <2>3. opened' \in Rows /\ timer' \in Rows
    BY <2>1, <2>2, SelectKeepsShape
  <2>4. byFeed' \in Rows /\ writes' \in Seq(Rows)
    BY <2>2, FlushKeepsShape
  <2>5. listed' \in Rows
    BY <1>1, FlushedIsRows, ShowsIsRows DEF OpenArticle
  <2> QED BY <1>1, <1>c, <2>3, <2>4, <2>5 DEF OpenArticle
<1>2. ASSUME NEW id \in Ids, MarkAsRead(id) PROVE RowsShape'
  <2> DEFINE updated == MarkedRead(Only(listed, {id}))
  <2>1. updated \in Rows
    BY OnlyIsRows, MarkedReadIsRows
  <2>2. ApplyUpdate(updated) /\ writes' = Append(writes, updated)
    BY <1>2 DEF MarkAsRead
  <2> HIDE DEF updated
  <2>3. byFeed' \in Rows /\ listed' \in Rows /\ writes' \in Seq(Rows)
    BY <2>1, <2>2, UpdateKeepsShape
  <2> QED BY <1>2, <1>c, <2>3 DEF MarkAsRead
<1>3. ASSUME NEW id \in Ids, ToggleStar(id) PROVE RowsShape'
  <2>1. byFeed[id] \in Article
    BY <1>3, RowsHave DEF ToggleStar
  <2>2. Toggled(id) \in Article
    BY <2>1 DEF Toggled, Article
  <2> DEFINE updated == Row(id, Toggled(id))
  <2>3. updated \in Rows /\ updated[id] \in Article
    BY <2>2, RowIsRows
  <2>4. /\ ApplyUpdate(updated) /\ writes' = Append(writes, updated)
        /\ opened' = Shows(opened, updated) /\ starWanted' = updated[id].starred
    BY <1>3 DEF ToggleStar
  <2> HIDE DEF updated
  <2>5. byFeed' \in Rows /\ listed' \in Rows /\ writes' \in Seq(Rows)
    BY <2>3, <2>4, UpdateKeepsShape
  <2>6. opened' \in Rows
    BY <2>3, <2>4, ShowsIsRows
  <2>7. starWanted' \in BOOLEAN
    BY <2>3, <2>4 DEF Article
  <2> QED BY <1>3, <1>c, <2>5, <2>6, <2>7 DEF ToggleStar
<1>4. ASSUME LeaveArticle PROVE RowsShape'
  <2>1. Flush /\ Select(None) /\ listed' = byFeed'
    BY <1>4 DEF LeaveArticle, Select
  <2>2. opened' \in Rows /\ timer' \in Rows
    BY <2>1, NoRows, SelectKeepsShape
  <2>3. byFeed' \in Rows /\ writes' \in Seq(Rows)
    BY <2>1, FlushKeepsShape
  <2>4. Goes("view", "preload") /\ "view" \in Slots /\ "preload" \in Phases
    BY <1>4 DEF LeaveArticle, Slots, Phases
  <2>5. task' \in [Slots -> Task]
    BY <2>4, GoesMoves
  <2> QED BY <1>4, <1>c, <2>1, <2>2, <2>3, <2>5 DEF LeaveArticle
<1>5. ASSUME TimerFires PROVE RowsShape'
  <2> DEFINE updated == MarkedRead(timer)
  <2>1. updated \in Rows
    BY MarkedReadIsRows
  <2>2. ApplyUpdate(updated) /\ opened' = updated /\ writes' = Append(writes, updated) /\ timer' = None
    BY <1>5 DEF TimerFires
  <2> HIDE DEF updated
  <2>3. byFeed' \in Rows /\ listed' \in Rows /\ writes' \in Seq(Rows)
    BY <2>1, <2>2, UpdateKeepsShape
  <2> QED BY <1>5, <2>1, <2>2, <2>3, NoRows DEF TimerFires, rowHistory
<1>6. ASSUME MarkAllAsRead PROVE RowsShape'
  <2> DEFINE unread == {i \in DOMAIN listed : ~listed[i].read}
             S == DOMAIN byFeed
  <2>1. /\ byFeed' = [i \in S |-> [byFeed[i] EXCEPT !.read = @ \/ i \in unread]]
        /\ listed' = MarkedRead(listed) /\ sweep' = MarkedRead(Only(listed, unread))
    BY <1>6 DEF MarkAllAsRead
  <2> HIDE DEF unread
  <2>2. ASSUME NEW i \in S
        PROVE  [byFeed[i] EXCEPT !.read = byFeed[i].read \/ i \in unread] \in Article
    <3> DEFINE r == byFeed[i].read \/ i \in unread
    <3>1. byFeed[i] \in Article
      BY RowsHave
    <3>2. r \in BOOLEAN
      OBVIOUS
    <3> HIDE DEF r
    <3>3. [byFeed[i] EXCEPT !.read = r] \in Article
      BY <3>1, <3>2, ReadIsSet
    <3> QED BY <3>3 DEF r
  <2>3. byFeed' \in [S -> Article] /\ S \in SUBSET Ids
    BY <2>1, <2>2, RowsHave
  <2>4. byFeed' \in Rows
    BY <2>3, RowsMade
  <2>5. listed' \in Rows /\ sweep' \in Rows
    BY <2>1, OnlyIsRows, MarkedReadIsRows
  <2> QED BY <1>6, <1>c, <2>4, <2>5 DEF MarkAllAsRead
<1>7. ASSUME NEW ids \in SUBSET Ids, MarkUnread(ids) PROVE RowsShape'
  <2> DEFINE R == {j \in ids \cap DOMAIN byFeed : byFeed[j].read}
             restored == [i \in R |-> [byFeed[i] EXCEPT !.read = FALSE]]
             S == DOMAIN listed
  <2>1. /\ byFeed' = Shows(byFeed, restored) /\ sweep' = restored
        /\ listed' = [i \in S |-> [listed[i] EXCEPT !.read = @ /\ i \notin DOMAIN restored]]
    BY <1>7 DEF MarkUnread
  <2>2. restored \in [R -> Article] /\ R \in SUBSET Ids
    BY RowsHave DEF Article
  <2>3. restored \in Rows
    BY <2>2, RowsMade
  <2> HIDE DEF restored
  <2>4. ASSUME NEW i \in S
        PROVE  [listed[i] EXCEPT !.read = listed[i].read /\ i \notin DOMAIN restored] \in Article
    <3> DEFINE r == listed[i].read /\ i \notin DOMAIN restored
    <3>1. listed[i] \in Article
      BY RowsHave
    <3>2. r \in BOOLEAN
      OBVIOUS
    <3> HIDE DEF r
    <3>3. [listed[i] EXCEPT !.read = r] \in Article
      BY <3>1, <3>2, ReadIsSet
    <3> QED BY <3>3 DEF r
  <2>5. listed' \in [S -> Article] /\ S \in SUBSET Ids
    BY <2>1, <2>4, RowsHave
  <2>6. listed' \in Rows
    BY <2>5, RowsMade
  <2>7. byFeed' \in Rows
    BY <2>1, <2>3, ShowsIsRows
  <2> QED BY <1>7, <1>c, <2>1, <2>3, <2>6, <2>7 DEF MarkUnread
<1> QED BY <1>1, <1>2, <1>3, <1>4, <1>5, <1>6, <1>7

\* So do the writes that reach the table.
LEMMA WritesKeepShape ==
    ASSUME RowsShape
    PROVE  /\ WriteLands => RowsShape'
           /\ \A id \in Ids : SweepWrites(id) => RowsShape'
<1> USE DEF RowsShape
<1>1. ASSUME WriteLands PROVE RowsShape'
  <2>1. Head(writes) \in Rows /\ Tail(writes) \in Seq(Rows) /\ Put(Head(writes))
    BY <1>1 DEF WriteLands
  <2>2. table' \in Rows /\ revived' \in BOOLEAN
    BY <2>1, PutMoves
  <2> QED BY <1>1, <2>1, <2>2 DEF WriteLands, store
<1>2. ASSUME NEW id \in Ids, SweepWrites(id) PROVE RowsShape'
  <2> DEFINE one == Only(sweep, {id})
  <2>1. one \in Rows /\ Without(sweep, {id}) \in Rows
    BY OnlyIsRows, WithoutIsRows
  <2>2. Put(one)
    BY <1>2 DEF SweepWrites
  <2> HIDE DEF one
  <2>3. table' \in Rows /\ revived' \in BOOLEAN
    BY <2>1, <2>2, PutMoves
  <2> QED BY <1>2, <2>1, <2>3 DEF SweepWrites, store
<1> QED BY <1>1, <1>2

\* The rest of the state, while a task moves.
Elsewhere ==
    /\ UNCHANGED flights
    /\ offline' \in BOOLEAN /\ starWanted' \in BOOLEAN /\ calm' \in BOOLEAN

LEMMA ShapeFits ==
    ASSUME RowsShape, Elsewhere, task' \in [Slots -> Task],
           table' \in Rows, revived' \in BOOLEAN,
           byFeed' \in Rows, listed' \in Rows, opened' \in Rows, timer' \in Rows
    PROVE  RowsShape'
BY DEF RowsShape, Elsewhere, flights

\* Work that begins.
LEMMA StartsKeepShape ==
    ASSUME RowsShape
    PROVE  /\ TogglePrefetch \/ StartRelease \/ GrowsOld \/ TabIsLost => RowsShape'
           /\ \A t \in {"all", "single"} : StartRefresh(t) => RowsShape'
<1> USE DEF RowsShape
<1>c. Begins => calm' \in BOOLEAN
  BY DEF Begins
<1>s. /\ {"all", "single", "prefetch", "space", "view"} = Slots
      /\ {"lookup", "release", "fetch"} \subseteq Phases
  BY DEF Slots, Phases
<1>1. ASSUME TogglePrefetch PROVE RowsShape'
  <2>1. task' \in [Slots -> Task]
    <3>1. CASE Goes("prefetch", "fetch")
      BY <3>1, <1>s, GoesMoves
    <3>2. CASE UNCHANGED task
      BY <3>2
    <3> QED BY <1>1, <3>1, <3>2 DEF TogglePrefetch
  <2> QED BY <1>1, <1>c, <2>1 DEF TogglePrefetch, store, flights
<1>2. ASSUME StartRelease PROVE RowsShape'
  <2>1. task' \in [Slots -> Task]
    BY <1>2, <1>s, GoesMoves DEF StartRelease
  <2> QED BY <1>2, <1>c, <2>1 DEF StartRelease, store, flights
<1>3. ASSUME GrowsOld PROVE RowsShape'
  BY <1>3 DEF GrowsOld, store, flights, rowHistory
<1>4. ASSUME TabIsLost PROVE RowsShape'
  <2>1. task' \in [Slots -> Task]
    BY <1>4, NoTaskIsTask DEF TabIsLost
  <2>2. writes' \in Seq(Rows)
    BY <1>4 DEF TabIsLost
  <2>3. calm' \in BOOLEAN /\ revived' \in BOOLEAN /\ starWanted' \in BOOLEAN
    BY <1>4 DEF TabIsLost
  <2> QED BY <1>4, <2>1, <2>2, <2>3, NoRows DEF TabIsLost
<1>5. ASSUME NEW t \in {"all", "single"}, StartRefresh(t) PROVE RowsShape'
  <2>1. task' \in [Slots -> Task]
    BY <1>5, <1>s, GoesMoves DEF StartRefresh
  <2> QED BY <1>5, <1>c, <2>1 DEF StartRefresh, store, flights
<1> QED BY <1>1, <1>2, <1>3, <1>4, <1>5

\* What a task works on is of the right kind.
LEMMA TaskHas ==
    ASSUME RowsShape, NEW t \in Slots
    PROVE  task[t].seen \in Rows /\ task[t].gone \in SUBSET Ids /\ task[t].phase \in Phases
BY DEF RowsShape, Task

\* The keeper of some rows is one of them, and their merger an article.
LEMMA KeeperMerged ==
    ASSUME NEW seen \in Rows, DOMAIN seen # {}
    PROVE  /\ Keeper(seen) \in DOMAIN seen /\ Keeper(seen) \in Ids
           /\ \A i \in DOMAIN seen \ {Keeper(seen)} : Keeper(seen) < i
           /\ Merged(seen) \in Article
<1>1. DOMAIN seen \in SUBSET Ids
  BY RowsHave
<1>2. /\ Min(DOMAIN seen) \in DOMAIN seen
      /\ \A i \in DOMAIN seen \ {Min(DOMAIN seen)} : Min(DOMAIN seen) < i
  BY <1>1, MinOfIds
<1>3. Merged(seen) \in Article
  BY DEF Merged, Article
<1> QED BY <1>1, <1>2, <1>3 DEF Keeper

-----------------------------------------------------------------------------
(* What each step of a task does to the rows and to the task.              *)

\* Only this slot moves.
Alters(t) ==
    task' \in [Slots -> Task] /\ \A s \in Slots \ {t} : task'[s] = task[s]

\* The rows of the table and those of the store stay.
Reads == UNCHANGED <<table, store, flights, offline, expired, rowHistory>>

LEMMA LookUpDoes ==
    ASSUME RowsShape, NEW t \in {"all", "single"}, LooksUpRow(t)
    PROVE  /\ At(t, "lookup") /\ Alters(t) /\ Reads
           /\ task'[t].phase \in {"add", "dedupe", "update"}
           /\ task'[t].phase = "add" => DOMAIN table = {}
           /\ \A i \in DOMAIN task'[t].seen : i \in DOMAIN table /\ task'[t].seen[i] = table[i]
<1>s. /\ t \in Slots /\ task \in [Slots -> Task] /\ table \in Rows
      /\ {"add", "dedupe", "update"} \subseteq Phases
  BY DEF Slots, RowsShape, Phases
<1>1. At(t, "lookup") /\ Reads
  BY DEF LooksUpRow, Reads
<1>2. CASE table = None /\ Goes(t, IF expired THEN "dedupe" ELSE "add")
  BY <1>s, <1>1, <1>2, GoesMoves, NoRows DEF Alters
<1>3. CASE Goes(t, "dedupe")
  BY <1>s, <1>1, <1>3, GoesMoves, NoRows DEF Alters
<1>4. CASE Holds(t, "update", Only(table, {Min(DOMAIN table)}))
  <2> DEFINE first == Only(table, {Min(DOMAIN table)})
  <2>1. /\ first \in Rows /\ DOMAIN first \subseteq DOMAIN table
        /\ \A i \in DOMAIN first : first[i] = table[i]
    BY <1>s, OnlyIsRows
  <2>2. Holds(t, "update", first)
    BY <1>4
  <2> HIDE DEF first
  <2>3. Alters(t) /\ task'[t].phase = "update" /\ task'[t].seen = first
    BY <1>s, <2>1, <2>2, HoldsMoves DEF Alters
  <2> QED BY <1>1, <2>1, <2>3
<1> QED BY <1>2, <1>3, <1>4 DEF LooksUpRow

LEMMA AddDoes ==
    ASSUME RowsShape, NEW t \in {"all", "single"}, AddsRow(t)
    PROVE  /\ At(t, "add") /\ Alters(t) /\ UNCHANGED <<store, flights, offline, expired, rowHistory>>
           /\ task'[t].phase = "dedupe"
           /\ \A i \in DOMAIN task'[t].seen : FALSE
           /\ \E id \in Ids :
                 /\ table' \in Rows /\ DOMAIN table' = {id} \cup DOMAIN table
                 /\ table'[id].starred = FALSE
<1>s. /\ t \in Slots /\ task \in [Slots -> Task] /\ table \in Rows
      /\ "dedupe" \in Phases
  BY DEF Slots, RowsShape, Phases
<1>1. /\ At(t, "add") /\ Goes(t, "dedupe")
      /\ UNCHANGED <<store, flights, offline, expired, rowHistory>>
  BY DEF AddsRow
<1>2. /\ Alters(t) /\ task'[t].phase = "dedupe" /\ task'[t].seen = None
  BY <1>s, <1>1, GoesMoves DEF Alters
<1>3. PICK id \in Ids : table' = Over(Row(id, Fresh), table)
  BY DEF AddsRow
<1>4. Fresh \in Article /\ Fresh.starred = FALSE
  BY DEF Fresh, Article
<1> DEFINE new == Row(id, Fresh)
<1>5. new \in Rows /\ DOMAIN new = {id} /\ new[id] = Fresh
  BY <1>4, RowIsRows
<1>6. table' = Over(new, table)
  BY <1>3
<1> HIDE DEF new
<1>7. table' \in Rows /\ DOMAIN table' = {id} \cup DOMAIN table /\ table'[id] = Fresh
  BY <1>s, <1>5, <1>6, OverIsRows
<1> QED BY <1>1, <1>2, <1>4, <1>7, NoRows

\* The rows that a task puts, and where it goes on.
PutsRows(t, rows) ==
    /\ table' \in Rows /\ revived' \in BOOLEAN
    /\ DOMAIN table' = DOMAIN rows \cup DOMAIN table
    /\ \A i \in DOMAIN table' : table'[i] = IF i \in DOMAIN rows THEN rows[i] ELSE table[i]
    /\ revived => revived'
    /\ ~revived' => DOMAIN table' = DOMAIN table
    /\ Alters(t)
    /\ UNCHANGED <<store, flights, offline, expired, starWanted, calm>>

LEMMA UpdateDoes ==
    ASSUME RowsShape, NEW t \in {"all", "single"}, UpdatesRow(t)
    PROVE  /\ At(t, "update") /\ PutsRows(t, task[t].seen) /\ task'[t].phase = "dedupe"
           /\ \A i \in DOMAIN task'[t].seen : FALSE
<1>s. /\ t \in Slots /\ task \in [Slots -> Task] /\ table \in Rows /\ revived \in BOOLEAN
      /\ "dedupe" \in Phases /\ task[t].seen \in Rows
  BY TaskHas DEF Slots, RowsShape, Phases
<1>1. /\ At(t, "update") /\ Put(task[t].seen) /\ Goes(t, "dedupe")
      /\ UNCHANGED <<store, flights, offline, expired, starWanted, calm>>
  BY DEF UpdatesRow
<1>2. Alters(t) /\ task'[t].phase = "dedupe" /\ task'[t].seen = None
  BY <1>s, <1>1, GoesMoves DEF Alters
<1> DEFINE rows == task[t].seen
<1>3. rows \in Rows /\ Put(rows)
  BY <1>s, <1>1
<1> HIDE DEF rows
<1>4. PutsRows(t, rows)
  BY <1>s, <1>1, <1>2, <1>3, PutMoves DEF PutsRows
<1> QED BY <1>1, <1>2, <1>4, NoRows DEF rows

LEMMA DedupeReadDoes ==
    ASSUME RowsShape, NEW t \in {"all", "single"}, DedupeReads(t)
    PROVE  /\ At(t, "dedupe") /\ Alters(t) /\ Reads
           /\ OneRow(table) => task'[t].phase \in {"purge", "idle"} /\ task'[t].seen = None
           /\ ~OneRow(table) => /\ task'[t].phase = "collapse" /\ task'[t].seen = table
                                /\ DOMAIN table # {}
<1>s. /\ t \in Slots /\ task \in [Slots -> Task] /\ table \in Rows
      /\ {"purge", "idle", "collapse"} \subseteq Phases
  BY DEF Slots, RowsShape, Phases
<1>1. At(t, "dedupe") /\ Reads
  BY DEF DedupeReads, Reads
<1>2. CASE OneRow(table)
  <2>1. Goes(t, AfterDedupe(t)) /\ AfterDedupe(t) \in {"purge", "idle"}
    BY <1>s, <1>2, OneRowCounts DEF DedupeReads, AfterDedupe
  <2>2. AfterDedupe(t) \in Phases
    BY <1>s, <2>1
  <2> QED BY <1>s, <1>1, <1>2, <2>1, <2>2, GoesMoves DEF Alters
<1>3. CASE ~OneRow(table)
  <2>1. Holds(t, "collapse", table) /\ DOMAIN table # {}
    BY <1>s, <1>3, OneRowCounts DEF DedupeReads
  <2> QED BY <1>s, <1>1, <1>3, <2>1, HoldsMoves DEF Alters
<1> QED BY <1>2, <1>3

LEMMA DedupePutDoes ==
    ASSUME RowsShape, KeeperInv, NEW t \in {"all", "single"}, DedupePuts(t)
    PROVE  /\ At(t, "collapse") /\ task'[t].phase = "drop" /\ task'[t].seen = None
           /\ \E keeper \in DOMAIN task[t].seen :
                 /\ keeper \in Ids
                 /\ PutsRows(t, Row(keeper, Merged(task[t].seen)))
                 /\ keeper \in DOMAIN table'
                 /\ task'[t].gone = DOMAIN task[t].seen \ {keeper}
                 /\ \A g \in task'[t].gone : keeper < g
                 /\ ~revived' => DOMAIN table' = DOMAIN table
<1>s. /\ t \in Slots /\ task \in [Slots -> Task] /\ table \in Rows /\ revived \in BOOLEAN
      /\ "drop" \in Phases /\ task[t].seen \in Rows
  BY TaskHas DEF Slots, RowsShape, Phases
<1>1. /\ At(t, "collapse")
      /\ UNCHANGED <<store, flights, offline, expired, starWanted, calm>>
  BY DEF DedupePuts
<1> DEFINE seen   == task[t].seen
           keeper == Keeper(seen)
           one    == Row(keeper, Merged(seen))
           ids    == DOMAIN seen \ {keeper}
<1>2. Put(one) /\ task' = [task EXCEPT ![t] = [NoTask EXCEPT !.phase = "drop", !.gone = ids]]
  BY DEF DedupePuts
<1>3. /\ keeper \in DOMAIN seen /\ keeper \in Ids
      /\ \A i \in ids : keeper < i
      /\ Merged(seen) \in Article
  BY <1>s, <1>1, KeeperMerged DEF KeeperInv
<1>4. ids \in SUBSET Ids
  BY <1>s, RowsHave
<1>5. one \in Rows /\ DOMAIN one = {keeper}
  BY <1>3, RowIsRows
<1> HIDE DEF one, ids
<1>6. /\ Alters(t) /\ task'[t].phase = "drop" /\ task'[t].gone = ids /\ task'[t].seen = None
  <2>1. /\ task' \in [Slots -> Task]
        /\ task'[t].phase = "drop" /\ task'[t].seen = None /\ task'[t].gone = ids
        /\ \A s \in Slots \ {t} : task'[s] = task[s]
    <3> HIDE DEF keeper, seen
    <3> QED BY <1>s, <1>2, <1>4, DropsMoves
  <2> QED BY <2>1 DEF Alters
<1>7. PutsRows(t, one) /\ keeper \in DOMAIN table'
  BY <1>s, <1>1, <1>2, <1>5, <1>6, PutMoves DEF PutsRows
<1>8. ~revived' => DOMAIN table' = DOMAIN table
  BY <1>7 DEF PutsRows
<1> QED BY <1>1, <1>3, <1>6, <1>7, <1>8 DEF one, ids

\* The rows that a task deletes.
Deletes(t) ==
    /\ table' \in Rows
    /\ DOMAIN table' = DOMAIN table \ task[t].gone
    /\ \A i \in DOMAIN table' : table'[i] = table[i]
    /\ Alters(t)
    /\ UNCHANGED <<store, flights, offline, expired, rowHistory>>

LEMMA DedupeDeleteDoes ==
    ASSUME RowsShape, NEW t \in {"all", "single"}, DedupeDeletes(t)
    PROVE  /\ At(t, "drop") /\ Deletes(t)
           /\ task'[t].phase \in {"purge", "idle"} /\ task'[t].seen = None
<1>s. /\ t \in Slots /\ task \in [Slots -> Task] /\ table \in Rows
      /\ {"purge", "idle"} \subseteq Phases
  BY DEF Slots, RowsShape, Phases
<1>1. /\ At(t, "drop") /\ UNCHANGED <<store, flights, offline, expired, rowHistory>>
      /\ Goes(t, AfterDedupe(t)) /\ AfterDedupe(t) \in {"purge", "idle"}
  BY DEF DedupeDeletes, AfterDedupe
<1>2. /\ Alters(t) /\ task'[t].phase \in {"purge", "idle"} /\ task'[t].seen = None
  <2>1. AfterDedupe(t) \in Phases
    BY <1>s, <1>1
  <2> QED BY <1>s, <1>1, <2>1, GoesMoves DEF Alters
<1> DEFINE gone == task[t].gone
<1>3. table' = Without(table, gone)
  BY DEF DedupeDeletes
<1> HIDE DEF gone
<1>4. /\ table' \in Rows /\ DOMAIN table' = DOMAIN table \ gone
      /\ \A i \in DOMAIN table' : table'[i] = table[i]
  BY <1>s, <1>3, WithoutIsRows
<1> QED BY <1>1, <1>2, <1>4 DEF Deletes, gone

LEMMA PurgeReadDoes ==
    ASSUME RowsShape, PurgeReadsRows("all")
    PROVE  /\ At("all", "purge") /\ Alters("all") /\ Reads
           /\ task'["all"].phase \in {"preload", "delete"} /\ task'["all"].seen = None
           /\ task'["all"].phase = "delete" => expired
           /\ \A i \in task'["all"].gone : ~table[i].starred
<1> DEFINE doomed == {i \in DOMAIN table : expired /\ ~table[i].starred /\ i \notin DOMAIN opened}
           phase  == IF doomed = {} THEN "preload" ELSE "delete"
<1>s. /\ "all" \in Slots /\ task \in [Slots -> Task] /\ table \in Rows
      /\ phase \in Phases
  BY DEF Slots, RowsShape, Phases
<1>1. At("all", "purge") /\ Reads
  BY DEF PurgeReadsRows, Reads
<1>2. task' = [task EXCEPT !["all"] = [NoTask EXCEPT !.phase = phase, !.gone = doomed]]
  BY DEF PurgeReadsRows
<1>3. doomed \in SUBSET Ids
  BY <1>s, RowsHave
<1>4. /\ phase \in {"preload", "delete"} /\ (phase = "delete" => expired)
      /\ \A i \in doomed : ~table[i].starred
  OBVIOUS
<1> HIDE DEF doomed, phase
<1>5. /\ Alters("all") /\ task'["all"].phase = phase /\ task'["all"].gone = doomed
      /\ task'["all"].seen = None
  BY <1>s, <1>2, <1>3, DropsMoves DEF Alters
<1> QED BY <1>1, <1>4, <1>5

LEMMA PurgeDeleteDoes ==
    ASSUME RowsShape, PurgeDeletesRows("all")
    PROVE  /\ At("all", "delete") /\ Deletes("all")
           /\ task'["all"].phase = "preload" /\ task'["all"].seen = None
<1>s. /\ "all" \in Slots /\ task \in [Slots -> Task] /\ table \in Rows /\ "preload" \in Phases
  BY DEF Slots, RowsShape, Phases
<1>1. /\ At("all", "delete") /\ Goes("all", "preload")
      /\ UNCHANGED <<store, flights, offline, expired, rowHistory>>
  BY DEF PurgeDeletesRows
<1>2. Alters("all") /\ task'["all"].phase = "preload" /\ task'["all"].seen = None
  BY <1>s, <1>1, GoesMoves DEF Alters
<1> DEFINE gone == task["all"].gone
<1>3. table' = Without(table, gone)
  BY DEF PurgeDeletesRows
<1> HIDE DEF gone
<1>4. /\ table' \in Rows /\ DOMAIN table' = DOMAIN table \ gone
      /\ \A i \in DOMAIN table' : table'[i] = table[i]
  BY <1>s, <1>3, WithoutIsRows
<1> QED BY <1>1, <1>2, <1>4 DEF Deletes, gone

LEMMA PreloadReadDoes ==
    ASSUME RowsShape, NEW t \in {"all", "prefetch", "space", "view"}, PreloadReads(t)
    PROVE  /\ At(t, "preload") /\ Alters(t) /\ Reads
           /\ task'[t].phase = "show" /\ task'[t].seen = table
<1>s. /\ t \in Slots /\ task \in [Slots -> Task] /\ table \in Rows /\ "show" \in Phases
  BY DEF Slots, RowsShape, Phases
<1>1. At(t, "preload") /\ Reads /\ Holds(t, "show", table)
  BY DEF PreloadReads, Reads
<1> QED BY <1>s, <1>1, HoldsMoves DEF Alters

LEMMA PreloadShowDoes ==
    ASSUME RowsShape, NEW t \in {"all", "prefetch", "space", "view"}, PreloadShows(t)
    PROVE  /\ At(t, "show")
           /\ UNCHANGED <<table, timer, flights, offline, expired, rowHistory>>
           /\ byFeed' = task[t].seen /\ byFeed' \in Rows
           /\ listed' = IF t \in {"all", "view"} THEN task[t].seen ELSE listed
           /\ listed' \in Rows
           /\ opened' \in Rows
           /\ task' \in [Slots -> Task] /\ task'[t].phase = "idle"
           /\ \A s \in Slots \ {t} :
                 \/ task'[s] = task[s]
                 \/ t = "all" /\ s = "prefetch" /\ task[s] = NoTask /\ task'[s].phase = "fetch"
<1>s. /\ t \in Slots /\ task \in [Slots -> Task] /\ listed \in Rows /\ opened \in Rows
      /\ task[t].seen \in Rows
  BY TaskHas DEF Slots, RowsShape
<1>1. /\ At(t, "show") /\ UNCHANGED <<table, timer, flights, offline, expired, rowHistory>>
      /\ byFeed' = task[t].seen
      /\ listed' = IF t \in {"all", "view"} THEN task[t].seen ELSE listed
  BY DEF PreloadShows
<1>2. opened' \in Rows
  <2> DEFINE S   == DOMAIN opened
             new == [i \in S |-> [opened[i] EXCEPT !.saved = FALSE]]
  <2>1. opened' = IF t = "space" THEN new ELSE opened
    BY DEF PreloadShows
  <2>2. new \in [S -> Article] /\ S \in SUBSET Ids
    BY <1>s, RowsHave DEF Article
  <2>3. new \in Rows
    BY <2>2, RowsMade
  <2> QED BY <1>s, <2>1, <2>3
<1>3. /\ task' \in [Slots -> Task] /\ task'[t].phase = "idle"
      /\ \A s \in Slots \ {t} :
            \/ task'[s] = task[s]
            \/ t = "all" /\ s = "prefetch" /\ task[s] = NoTask /\ task'[s].phase = "fetch"
  BY <1>s, <1>1, ShowMoves
<1>4. byFeed' \in Rows /\ listed' \in Rows
  BY <1>s, <1>1
<1> QED BY <1>1, <1>2, <1>3, <1>4

LEMMA PrefetchReadDoes ==
    ASSUME RowsShape, PrefetchReads
    PROVE  /\ At("prefetch", "fetch") /\ Alters("prefetch") /\ Reads
           /\ task'["prefetch"].phase \in {"idle", "extract"}
           /\ \A i \in DOMAIN task'["prefetch"].seen :
                 i \in DOMAIN table /\ task'["prefetch"].seen[i] = table[i]
<1>p. PICK frequent \in BOOLEAN : \/ Goes("prefetch", "idle")
                                \/ Holds("prefetch", "extract", Only(table, Candidates(frequent)))
  BY DEF PrefetchReads
<1> DEFINE some == Only(table, Candidates(frequent))
<1>s. /\ "prefetch" \in Slots /\ task \in [Slots -> Task] /\ table \in Rows
      /\ {"idle", "extract"} \subseteq Phases
  BY DEF Slots, RowsShape, Phases
<1>1. At("prefetch", "fetch") /\ Reads
  BY DEF PrefetchReads, Reads
<1>2. Goes("prefetch", "idle") \/ Holds("prefetch", "extract", some)
  BY <1>p
<1>3. /\ some \in Rows /\ DOMAIN some \subseteq DOMAIN table
      /\ \A i \in DOMAIN some : some[i] = table[i]
  BY <1>s, OnlyIsRows DEF Candidates
<1> HIDE DEF some
<1>4. CASE Goes("prefetch", "idle")
  BY <1>s, <1>1, <1>4, GoesMoves, NoRows DEF Alters
<1>5. CASE Holds("prefetch", "extract", some)
  <2>1. Alters("prefetch") /\ task'["prefetch"].phase = "extract" /\ task'["prefetch"].seen = some
    BY <1>s, <1>3, <1>5, HoldsMoves DEF Alters
  <2> QED BY <1>1, <1>3, <2>1
<1> QED BY <1>2, <1>4, <1>5

LEMMA PrefetchWriteDoes ==
    ASSUME RowsShape, NEW id \in Ids, PrefetchWrites(id)
    PROVE  /\ At("prefetch", "extract") /\ id \in DOMAIN task["prefetch"].seen
           /\ task'["prefetch"].phase \in {"idle", "extract", "preload"}
           /\ \A i \in DOMAIN task'["prefetch"].seen :
                 i \in DOMAIN task["prefetch"].seen
                 /\ task'["prefetch"].seen[i] = task["prefetch"].seen[i]
           /\ \/ UNCHANGED <<table, store, flights, offline, expired, rowHistory>> /\ Alters("prefetch")
              \/ \E article \in Article :
                    /\ Same(article, task["prefetch"].seen[id])
                    /\ PutsRows("prefetch", Row(id, article))
                    /\ DOMAIN Row(id, article) = {id} /\ Row(id, article)[id] = article
<1> DEFINE seen    == task["prefetch"].seen
           left    == Without(seen, {id})
           article == [seen[id] EXCEPT !.saved = TRUE]
           one     == Row(id, article)
<1>s. /\ "prefetch" \in Slots /\ task \in [Slots -> Task] /\ table \in Rows /\ revived \in BOOLEAN
      /\ "preload" \in Phases /\ seen \in Rows
  BY TaskHas DEF Slots, RowsShape, Phases
<1>1. /\ At("prefetch", "extract") /\ id \in DOMAIN seen
      /\ UNCHANGED <<store, flights, offline, expired, starWanted, calm>>
  BY DEF PrefetchWrites
<1>2. /\ left \in Rows
      /\ \A i \in DOMAIN left : i \in DOMAIN seen /\ left[i] = seen[i]
  <2> HIDE DEF seen
  <2> DEFINE ids == {id}
  <2>1. left = Without(seen, ids)
    OBVIOUS
  <2> HIDE DEF left, ids
  <2>2. /\ Without(seen, ids) \in Rows
        /\ DOMAIN Without(seen, ids) = DOMAIN seen \ ids
        /\ \A i \in DOMAIN seen \ ids : Without(seen, ids)[i] = seen[i]
    BY <1>s, WithoutIsRows
  <2> QED BY <2>1, <2>2
<1>3. /\ \/ Put(one)
         \/ UNCHANGED <<table, revived>>
      /\ \/ task' = [task EXCEPT !["prefetch"] = [NoTask EXCEPT !.phase = "preload"]]
         \/ task' = [task EXCEPT !["prefetch"] = NoTask]
         \/ task' = [task EXCEPT !["prefetch"] = [@ EXCEPT !.seen = left]]
  <2>1. \/ /\ Put(one)
           /\ task' = [task EXCEPT !["prefetch"] =
                          IF left = None THEN [NoTask EXCEPT !.phase = "preload"]
                          ELSE [@ EXCEPT !.seen = left]]
        \/ /\ UNCHANGED <<table, revived>>
           /\ task' = [task EXCEPT !["prefetch"] =
                          IF left = None THEN NoTask ELSE [@ EXCEPT !.seen = left]]
    BY DEF PrefetchWrites
  <2> HIDE DEF left, one
  <2>2. CASE left = None
    BY <2>1, <2>2
  <2>3. CASE left # None
    BY <2>1, <2>3
  <2> QED BY <2>2, <2>3
<1>4. article \in Article /\ Same(article, seen[id])
  <2>1. seen[id] \in Article
    BY <1>s, <1>1, RowsHave
  <2> QED BY <2>1, SavedIsSet DEF Same
<1>5. one \in Rows /\ DOMAIN one = {id} /\ one[id] = article
  BY <1>4, RowIsRows
<1> HIDE DEF one, left
<1>6. /\ Alters("prefetch") /\ task'["prefetch"].phase \in {"idle", "extract", "preload"}
      /\ task'["prefetch"].seen \in {None, left}
  <2>1. CASE task' = [task EXCEPT !["prefetch"] = [NoTask EXCEPT !.phase = "preload"]]
    BY <1>s, <2>1, GoesMoves DEF Alters, Goes
  <2>2. CASE task' = [task EXCEPT !["prefetch"] = NoTask]
    BY <1>s, <2>2, EndsMoves DEF Alters
  <2>3. CASE task' = [task EXCEPT !["prefetch"] = [@ EXCEPT !.seen = left]]
    BY <1>s, <1>1, <1>2, <2>3, LeftMoves DEF Alters, At
  <2> QED BY <1>3, <2>1, <2>2, <2>3
<1>7. \A i \in DOMAIN task'["prefetch"].seen :
          i \in DOMAIN seen /\ task'["prefetch"].seen[i] = seen[i]
  BY <1>2, <1>6, NoRows
<1>8. CASE Put(one)
  <2>1. PutsRows("prefetch", one)
    BY <1>s, <1>1, <1>5, <1>6, <1>8, PutMoves DEF PutsRows
  <2> QED BY <1>1, <1>4, <1>5, <1>6, <1>7, <2>1 DEF one
<1>9. CASE UNCHANGED <<table, revived>>
  BY <1>1, <1>6, <1>7, <1>9 DEF rowHistory
<1> QED BY <1>3, <1>8, <1>9

LEMMA ReleaseReadDoes ==
    ASSUME RowsShape, ReleaseReads
    PROVE  /\ At("space", "release") /\ Alters("space") /\ Reads
           /\ task'["space"].phase \in {"idle", "clear"}
           /\ \A i \in DOMAIN task'["space"].seen :
                 i \in DOMAIN table /\ task'["space"].seen[i] = table[i]
<1> DEFINE orphans == {i \in DOMAIN table : table[i].saved /\ ~table[i].starred /\ ~offline}
           some    == Only(table, orphans)
<1>s. /\ "space" \in Slots /\ task \in [Slots -> Task] /\ table \in Rows
      /\ {"idle", "clear"} \subseteq Phases
  BY DEF Slots, RowsShape, Phases
<1>1. At("space", "release") /\ Reads
  BY DEF ReleaseReads, Reads
<1>2. Goes("space", "idle") \/ Holds("space", "clear", some)
  BY DEF ReleaseReads
<1> HIDE DEF orphans
<1>3. /\ some \in Rows /\ DOMAIN some \subseteq DOMAIN table
      /\ \A i \in DOMAIN some : some[i] = table[i]
  BY <1>s, OnlyIsRows
<1> HIDE DEF some
<1>4. CASE Goes("space", "idle")
  BY <1>s, <1>1, <1>4, GoesMoves, NoRows DEF Alters
<1>5. CASE Holds("space", "clear", some)
  <2>1. Alters("space") /\ task'["space"].phase = "clear" /\ task'["space"].seen = some
    BY <1>s, <1>3, <1>5, HoldsMoves DEF Alters
  <2> QED BY <1>1, <1>3, <2>1
<1> QED BY <1>2, <1>4, <1>5

LEMMA ReleaseWriteDoes ==
    ASSUME RowsShape, ReleaseWrites
    PROVE  /\ At("space", "clear") /\ task'["space"].phase = "preload" /\ task'["space"].seen = None
           /\ \E rows \in Rows :
                 /\ DOMAIN rows = DOMAIN task["space"].seen
                 /\ \A i \in DOMAIN rows : Same(rows[i], task["space"].seen[i])
                 /\ PutsRows("space", rows)
<1> DEFINE seen == task["space"].seen
           S    == DOMAIN seen
           rows == Released(seen)
<1>s. /\ "space" \in Slots /\ task \in [Slots -> Task] /\ table \in Rows /\ revived \in BOOLEAN
      /\ "preload" \in Phases /\ seen \in Rows
  BY TaskHas DEF Slots, RowsShape, Phases
<1>1. /\ At("space", "clear") /\ Put(rows) /\ Goes("space", "preload")
      /\ UNCHANGED <<store, flights, offline, expired, starWanted, calm>>
  BY DEF ReleaseWrites
<1>2. /\ rows \in [S -> Article] /\ S \in SUBSET Ids
      /\ \A i \in S : Same(rows[i], seen[i])
  <2>1. /\ S \in SUBSET Ids /\ \A i \in S : seen[i] \in Article
    BY <1>s, RowsHave
  <2>2. rows = [i \in S |-> [seen[i] EXCEPT !.saved = FALSE]]
    BY DEF Released
  <2> HIDE DEF rows, S, seen
  <2>3. ASSUME NEW i \in S
        PROVE  /\ [seen[i] EXCEPT !.saved = FALSE] \in Article
               /\ Same([seen[i] EXCEPT !.saved = FALSE], seen[i])
    BY <2>1, SavedIsSet DEF Same
  <2>4. rows \in [S -> Article]
    BY <2>2, <2>3
  <2>5. \A i \in S : Same(rows[i], seen[i])
    BY <2>2, <2>3
  <2> QED BY <2>1, <2>4, <2>5
<1>3. rows \in Rows /\ DOMAIN rows = S
  BY <1>2, RowsMade
<1> HIDE DEF rows
<1>4. Alters("space") /\ task'["space"].phase = "preload" /\ task'["space"].seen = None
  BY <1>s, <1>1, GoesMoves DEF Alters
<1>5. PutsRows("space", rows)
  BY <1>s, <1>1, <1>3, <1>4, PutMoves DEF PutsRows
<1> QED BY <1>1, <1>2, <1>3, <1>4, <1>5

-----------------------------------------------------------------------------
(* Every step keeps the shape.                                             *)

LEMMA ReadKeepsShape ==
    ASSUME RowsShape, Reads, task' \in [Slots -> Task]
    PROVE  RowsShape'
BY DEF RowsShape, Reads, store, flights, rowHistory

LEMMA PutKeepsShape ==
    ASSUME RowsShape, NEW t \in Slots, NEW rows \in Rows, PutsRows(t, rows)
    PROVE  RowsShape'
BY DEF RowsShape, PutsRows, Alters, store, flights

LEMMA DeleteKeepsShape ==
    ASSUME RowsShape, NEW t \in Slots, Deletes(t)
    PROVE  RowsShape'
BY DEF RowsShape, Deletes, Alters, store, flights, rowHistory

LEMMA ShapeKept ==
    ASSUME RowsShape, KeeperInv, [ArticleNext]_rowVars
    PROVE  RowsShape'
<1>s. {"all", "single", "prefetch", "space", "view"} = Slots
  BY DEF Slots
<1>1. ASSUME NEW id \in Ids,
             OpenArticle(id) \/ MarkAsRead(id) \/ ToggleStar(id) \/ SweepWrites(id)
      PROVE  RowsShape'
  BY <1>1, ActsKeepShape, WritesKeepShape
<1>2. ASSUME NEW id \in Ids, PrefetchWrites(id) PROVE RowsShape'
  <2>1. CASE UNCHANGED <<table, store, flights, offline, expired, rowHistory>> /\ Alters("prefetch")
    BY <2>1, ReadKeepsShape DEF Reads, Alters
  <2>2. ASSUME NEW article \in Article, PutsRows("prefetch", Row(id, article)) PROVE RowsShape'
    <3>1. Row(id, article) \in Rows
      BY RowIsRows
    <3> QED BY <3>1, <2>2, <1>s, PutKeepsShape
  <2> QED BY <1>2, <2>1, <2>2, PrefetchWriteDoes
<1>3. ASSUME LeaveArticle \/ TimerFires \/ MarkAllAsRead \/ TogglePrefetch \/ WriteLands
             \/ StartRelease \/ GrowsOld \/ TabIsLost
      PROVE  RowsShape'
  BY <1>3, ActsKeepShape, WritesKeepShape, StartsKeepShape
<1>4. ASSUME NEW ids \in SUBSET Ids, MarkUnread(ids) PROVE RowsShape'
  BY <1>4, ActsKeepShape
<1>5. ASSUME NEW t \in {"all", "single"},
             \/ StartRefresh(t) \/ LooksUpRow(t) \/ AddsRow(t) \/ UpdatesRow(t)
             \/ DedupeReads(t) \/ DedupePuts(t) \/ DedupeDeletes(t)
      PROVE  RowsShape'
  <2>s. t \in Slots
    BY <1>s
  <2>1. CASE StartRefresh(t)
    BY <2>1, StartsKeepShape
  <2>2. CASE LooksUpRow(t)
    BY <2>2, LookUpDoes, ReadKeepsShape DEF Alters
  <2>3. CASE AddsRow(t)
    <3>1. /\ table' \in Rows /\ Alters(t)
          /\ UNCHANGED <<store, flights, offline, expired, rowHistory>>
      BY <2>3, AddDoes
    <3> QED BY <3>1 DEF RowsShape, Alters, store, flights, rowHistory
  <2>4. CASE UpdatesRow(t)
    BY <2>s, <2>4, UpdateDoes, TaskHas, PutKeepsShape
  <2>5. CASE DedupeReads(t)
    BY <2>5, DedupeReadDoes, ReadKeepsShape DEF Alters
  <2>6. CASE DedupePuts(t)
    <3>1. At(t, "collapse") /\ DOMAIN task[t].seen # {} /\ task[t].seen \in Rows
      BY <2>s, <2>6, DedupePutDoes, TaskHas DEF KeeperInv
    <3>2. Merged(task[t].seen) \in Article
      BY <3>1, KeeperMerged
    <3>3. PICK keeper \in Ids : PutsRows(t, Row(keeper, Merged(task[t].seen)))
      BY <2>6, DedupePutDoes
    <3>4. Row(keeper, Merged(task[t].seen)) \in Rows
      BY <3>2, RowIsRows
    <3> QED BY <2>s, <3>3, <3>4, PutKeepsShape
  <2>7. CASE DedupeDeletes(t)
    BY <2>s, <2>7, DedupeDeleteDoes, DeleteKeepsShape
  <2> QED BY <1>5, <2>1, <2>2, <2>3, <2>4, <2>5, <2>6, <2>7
<1>6. ASSUME PurgeReadsRows("all") \/ PrefetchReads \/ ReleaseReads PROVE RowsShape'
  BY <1>6, PurgeReadDoes, PrefetchReadDoes, ReleaseReadDoes, ReadKeepsShape DEF Alters
<1>7. ASSUME PurgeDeletesRows("all") PROVE RowsShape'
  BY <1>s, <1>7, PurgeDeleteDoes, DeleteKeepsShape
<1>8. ASSUME NEW t \in {"all", "prefetch", "space", "view"}, PreloadReads(t) PROVE RowsShape'
  BY <1>8, PreloadReadDoes, ReadKeepsShape DEF Alters
<1>9. ASSUME NEW t \in {"all", "prefetch", "space", "view"}, PreloadShows(t) PROVE RowsShape'
  BY <1>9, PreloadShowDoes DEF RowsShape, flights, rowHistory
<1>10. ASSUME ReleaseWrites PROVE RowsShape'
  BY <1>s, <1>10, ReleaseWriteDoes, PutKeepsShape
<1>11. ASSUME UNCHANGED rowVars PROVE RowsShape'
  BY <1>11 DEF rowVars, store, flights, rowHistory, RowsShape
<1> QED BY <1>1, <1>2, <1>3, <1>4, <1>5, <1>6, <1>7, <1>8, <1>9, <1>10, <1>11 DEF ArticleNext

-----------------------------------------------------------------------------
(* Every step keeps one row in sight, and one row in the table.            *)

Twins == TwinsInv /\ KeeperInv

\* A step that changes neither the rows of the table nor the tasks.
LEMMA StillKeepsTwins ==
    ASSUME Twins, UNCHANGED <<table, revived, task>>, expired' = expired \/ expired' = TRUE
    PROVE  Twins'
BY DEF Twins, TwinsInv, KeeperInv, OneRow, WillCollapse, At

\* One that reads, or begins.
LEMMA ReadKeepsTwins ==
    ASSUME Twins, NEW t \in Slots, Alters(t), UNCHANGED <<table, revived, expired>>,
           WillCollapse(t) => WillCollapse(t)' \/ OneRow(table),
           task'[t].phase = "collapse" => DOMAIN task'[t].seen # {},
           task'[t].phase = "delete" => expired,
           task'[t].phase # "drop"
    PROVE  Twins'
<1>1. TwinsInv'
  <2>1. ASSUME NEW s \in {"all", "single"}, WillCollapse(s), s # t PROVE WillCollapse(s)'
    <3>1. task'[s] = task[s] /\ table' = table
      BY <2>1 DEF Alters, Slots
    <3> QED BY <2>1, <3>1 DEF WillCollapse, At
  <2>2. revived' = revived /\ (OneRow(table) => OneRow(table)')
    BY DEF OneRow
  <2> QED BY <2>1, <2>2 DEF Twins, TwinsInv
<1>2. KeeperInv'
  BY DEF Twins, KeeperInv, At, Alters
<1> QED BY <1>1, <1>2 DEF Twins

\* One that puts rows.
LEMMA PutKeepsTwins ==
    ASSUME Twins, table \in Rows, NEW t \in Slots, NEW rows, PutsRows(t, rows),
           WillCollapse(t) => WillCollapse(t)' \/ revived',
           task'[t].phase \notin {"collapse", "delete"},
           task'[t].phase = "drop" =>
              \E i \in DOMAIN table' : \A g \in task'[t].gone : i < g
    PROVE  Twins'
<1>1. TwinsInv'
  <2> SUFFICES ASSUME ~revived' PROVE TwinsInv'
    BY DEF TwinsInv
  <2>1. DOMAIN table' = DOMAIN table /\ ~revived
    BY DEF PutsRows
  <2>2. ASSUME NEW s \in {"all", "single"}, WillCollapse(s), s # t PROVE WillCollapse(s)'
    <3>1. task'[s] = task[s]
      BY <2>2 DEF PutsRows, Alters, Slots
    <3> QED BY <2>1, <2>2, <3>1 DEF WillCollapse, At
  <2>3. OneRow(table) => OneRow(table)'
    BY <2>1 DEF OneRow
  <2> QED BY <2>1, <2>2, <2>3 DEF Twins, TwinsInv
<1>2. KeeperInv'
  <2>1. DOMAIN table \subseteq DOMAIN table' /\ expired' = expired /\ Alters(t)
    BY DEF PutsRows
  <2>2. ASSUME NEW s \in Slots, s # t
        PROVE  /\ At(s, "collapse")' => DOMAIN task'[s].seen # {}
               /\ At(s, "delete")' => expired'
               /\ At(s, "drop")' /\ ~expired' => \E i \in DOMAIN table' : \A g \in task'[s].gone : i < g
    BY <2>1, <2>2 DEF Twins, KeeperInv, At, Alters
  <2>3. ~At(t, "collapse")' /\ ~At(t, "delete")'
    BY DEF At
  <2>4. At(t, "drop")' => \E i \in DOMAIN table' : \A g \in task'[t].gone : i < g
    BY DEF At
  <2> QED BY <2>2, <2>3, <2>4 DEF KeeperInv
<1> QED BY <1>1, <1>2 DEF Twins

\* One that deletes rows: of two sweeps for twins, the one that keeps the lower row
\* leaves it to the other.
LEMMA DeleteKeepsTwins ==
    ASSUME Twins, RowsShape, NEW t \in Slots, Deletes(t),
           At(t, "drop") \/ At(t, "delete"),
           task'[t].phase \in {"purge", "idle", "preload"}
    PROVE  Twins'
<1>1. TwinsInv'
  <2> SUFFICES ASSUME ~revived PROVE TwinsInv'
    BY DEF TwinsInv, Deletes, rowHistory
  <2>1. DOMAIN table' = DOMAIN table \ task[t].gone /\ Alters(t)
    BY DEF Deletes
  <2>2. OneRow(table) => OneRow(table)'
    BY <2>1 DEF OneRow
  <2>3. WillCollapse(t) => OneRow(table)'
    BY <2>1 DEF WillCollapse, OneRow, At
  <2>4. ASSUME NEW s \in {"all", "single"}, WillCollapse(s), s # t PROVE WillCollapse(s)'
    <3>1. task'[s] = task[s]
      BY <2>1, <2>4 DEF Alters, Slots
    <3> QED BY <2>1, <2>4, <3>1 DEF WillCollapse, At
  <2> QED BY <2>2, <2>3, <2>4 DEF Twins, TwinsInv
<1>2. KeeperInv'
  <2>1. /\ DOMAIN table' = DOMAIN table \ task[t].gone /\ Alters(t) /\ expired' = expired
        /\ DOMAIN table \subseteq Nat
    BY RowsHave, ArticleAssumption DEF Deletes, RowsShape
  <2>2. task'[t].phase \notin {"collapse", "delete", "drop"}
    OBVIOUS
  <2>3. ASSUME NEW s \in Slots, task'[s].phase = "drop", ~expired'
        PROVE  \E i \in DOMAIN table' : \A g \in task'[s].gone : i < g
    <3>1. s # t /\ task'[s] = task[s] /\ At(s, "drop") /\ ~expired
      BY <2>1, <2>2, <2>3 DEF Alters, At
    <3>2. At(t, "drop")
      BY <3>1 DEF Twins, KeeperInv
    <3>3. PICK mine \in DOMAIN table : \A g \in task[t].gone : mine < g
      BY <3>1, <3>2 DEF Twins, KeeperInv
    <3>4. PICK other \in DOMAIN table : \A g \in task[s].gone : other < g
      BY <3>1 DEF Twins, KeeperInv
    <3>5. mine \in Nat /\ other \in Nat /\ task[s].gone \subseteq Nat
      BY <2>1, TaskHas, ArticleAssumption
    <3>6. mine \in DOMAIN table'
      BY <2>1, <3>3, <3>5
    <3>7. CASE other \in DOMAIN table'
      BY <3>1, <3>4, <3>7
    <3>8. CASE other \notin DOMAIN table'
      <4>1. mine < other
        BY <2>1, <3>3, <3>4, <3>8
      <4>2. \A g \in task[s].gone : mine < g
        BY <3>4, <3>5, <4>1
      <4> QED BY <3>1, <3>6, <4>2
    <3> QED BY <3>7, <3>8
  <2>4. ASSUME NEW s \in Slots
        PROVE  /\ At(s, "collapse")' => DOMAIN task'[s].seen # {}
               /\ At(s, "delete")' => expired'
    BY <2>1, <2>2 DEF Twins, KeeperInv, At, Alters
  <2> QED BY <2>3, <2>4 DEF KeeperInv, At
<1> QED BY <1>1, <1>2 DEF Twins

LEMMA TwinsInitially ==
    ASSUME ArticleInit
    PROVE  Twins
<1>1. table \in Rows
  BY InitRows DEF RowsShape
<1>2. TwinsInv
  BY <1>1, OneRowCounts DEF ArticleInit, TwinsInv
<1>3. \A t \in Slots : task[t].phase = "idle"
  BY NoTaskIsTask DEF ArticleInit
<1>4. KeeperInv
  BY <1>3 DEF KeeperInv, At
<1> QED BY <1>2, <1>4 DEF Twins

LEMMA TwinsKept ==
    ASSUME RowsShape, Twins, [ArticleNext]_rowVars
    PROVE  Twins'
<1>s. /\ {"all", "single", "prefetch", "space", "view"} = Slots
      /\ task \in [Slots -> Task] /\ table \in Rows /\ revived \in BOOLEAN
      /\ {"preload", "lookup", "release", "fetch"} \subseteq Phases
  BY DEF Slots, RowsShape, Phases
<1>1. ASSUME NEW id \in Ids, OpenArticle(id) \/ MarkAsRead(id) \/ ToggleStar(id) PROVE Twins'
  BY <1>1, StillKeepsTwins DEF OpenArticle, MarkAsRead, ToggleStar
<1>2. ASSUME TimerFires \/ MarkAllAsRead \/ GrowsOld PROVE Twins'
  BY <1>2, StillKeepsTwins DEF TimerFires, MarkAllAsRead, GrowsOld, rowHistory
<1>3. ASSUME NEW ids \in SUBSET Ids, MarkUnread(ids) PROVE Twins'
  BY <1>3, StillKeepsTwins DEF MarkUnread
<1>4. ASSUME LeaveArticle PROVE Twins'
  <2>1. Goes("view", "preload") /\ UNCHANGED <<table, expired, revived>>
    BY <1>4 DEF LeaveArticle
  <2>2. Alters("view") /\ task'["view"].phase = "preload" /\ "view" \in Slots
    BY <1>s, <2>1, GoesMoves DEF Alters
  <2>3. ~WillCollapse("view")
    BY <1>4 DEF LeaveArticle, At, WillCollapse
  <2> QED BY <2>1, <2>2, <2>3, ReadKeepsTwins
<1>5. ASSUME TogglePrefetch PROVE Twins'
  <2>1. UNCHANGED <<table, expired, revived>>
    BY <1>5 DEF TogglePrefetch
  <2>2. CASE At("prefetch", "idle") /\ Goes("prefetch", "fetch")
    <3>1. Alters("prefetch") /\ task'["prefetch"].phase = "fetch" /\ "prefetch" \in Slots
      BY <1>s, <2>2, GoesMoves DEF Alters
    <3>2. ~WillCollapse("prefetch")
      BY <2>2 DEF At, WillCollapse
    <3> QED BY <2>1, <3>1, <3>2, ReadKeepsTwins
  <2>3. CASE UNCHANGED task
    BY <2>1, <2>3, StillKeepsTwins
  <2> QED BY <1>5, <2>2, <2>3 DEF TogglePrefetch
<1>6. ASSUME StartRelease PROVE Twins'
  <2>1. Goes("space", "release") /\ UNCHANGED <<table, expired, revived>>
    BY <1>6 DEF StartRelease
  <2>2. Alters("space") /\ task'["space"].phase = "release" /\ "space" \in Slots
    BY <1>s, <2>1, GoesMoves DEF Alters
  <2>3. ~WillCollapse("space")
    BY <1>6 DEF StartRelease, At, WillCollapse
  <2> QED BY <2>1, <2>2, <2>3, ReadKeepsTwins
<1>7. ASSUME WriteLands \/ \E id \in Ids : SweepWrites(id) PROVE Twins'
  <2>1. PICK rows \in Rows : Put(rows) /\ UNCHANGED <<task, expired>>
    <3>1. CASE WriteLands
      <4>1. Head(writes) \in Rows /\ Put(Head(writes)) /\ UNCHANGED <<task, expired>>
        BY <3>1 DEF WriteLands, RowsShape
      <4> QED BY <4>1
    <3>2. ASSUME NEW id \in Ids, SweepWrites(id)
          PROVE  \E rows \in Rows : Put(rows) /\ UNCHANGED <<task, expired>>
      <4>1. /\ Only(sweep, {id}) \in Rows /\ Put(Only(sweep, {id}))
            /\ UNCHANGED <<task, expired>>
        BY <3>2, OnlyIsRows DEF SweepWrites, RowsShape
      <4> QED BY <4>1
    <3> QED BY <1>7, <3>1, <3>2
  <2>2. /\ revived => revived'
        /\ ~revived' => DOMAIN table' = DOMAIN table
        /\ DOMAIN table \subseteq DOMAIN table'
    BY <1>s, <2>1, PutMoves
  <2>3. TwinsInv'
    BY <2>1, <2>2 DEF Twins, TwinsInv, OneRow, WillCollapse, At
  <2>4. KeeperInv'
    BY <2>1, <2>2 DEF Twins, KeeperInv, At
  <2> QED BY <2>3, <2>4 DEF Twins
<1>8. ASSUME NEW id \in Ids, PrefetchWrites(id) PROVE Twins'
  <2>1. /\ ~WillCollapse("prefetch") /\ "prefetch" \in Slots
        /\ task'["prefetch"].phase \in {"idle", "extract", "preload"}
    BY <1>s, <1>8, PrefetchWriteDoes DEF WillCollapse, At
  <2>2. CASE UNCHANGED <<table, store, flights, offline, expired, rowHistory>> /\ Alters("prefetch")
    BY <2>1, <2>2, ReadKeepsTwins DEF rowHistory
  <2>3. ASSUME NEW article \in Article, PutsRows("prefetch", Row(id, article)) PROVE Twins'
    BY <1>s, <2>1, <2>3, PutKeepsTwins
  <2> QED BY <1>8, <2>2, <2>3, PrefetchWriteDoes
<1>9. ASSUME NEW t \in {"all", "single"},
             \/ StartRefresh(t) \/ LooksUpRow(t) \/ AddsRow(t) \/ UpdatesRow(t)
             \/ DedupeReads(t) \/ DedupePuts(t) \/ DedupeDeletes(t)
      PROVE  Twins'
  <2>s. t \in Slots
    BY <1>s
  <2>1. CASE StartRefresh(t)
    <3>1. Goes(t, "lookup") /\ UNCHANGED <<table, expired, revived>>
      BY <2>1 DEF StartRefresh
    <3>2. Alters(t) /\ task'[t].phase = "lookup"
      BY <1>s, <2>s, <3>1, GoesMoves DEF Alters
    <3>3. WillCollapse(t)'
      BY <3>2 DEF WillCollapse, At
    <3> QED BY <2>s, <3>1, <3>2, <3>3, ReadKeepsTwins
  <2>2. CASE LooksUpRow(t)
    <3>1. Alters(t) /\ Reads /\ task'[t].phase \in {"add", "dedupe", "update"}
      BY <2>2, LookUpDoes
    <3>2. WillCollapse(t)'
      BY <3>1 DEF WillCollapse, At
    <3> QED BY <2>s, <3>1, <3>2, ReadKeepsTwins DEF Reads, rowHistory
  <2>3. CASE AddsRow(t)
    <3>1. /\ Alters(t) /\ task'[t].phase = "dedupe" /\ expired' = expired
          /\ DOMAIN table \subseteq DOMAIN table'
      BY <2>3, AddDoes
    <3>2. TwinsInv'
      BY <3>1 DEF TwinsInv, WillCollapse
    <3>3. KeeperInv'
      BY <3>1 DEF Twins, KeeperInv, At, Alters
    <3> QED BY <3>2, <3>3 DEF Twins
  <2>4. CASE UpdatesRow(t)
    <3>1. PutsRows(t, task[t].seen) /\ task'[t].phase = "dedupe"
      BY <2>4, UpdateDoes
    <3>2. WillCollapse(t)'
      BY <3>1 DEF WillCollapse, At
    <3> QED BY <1>s, <2>s, <3>1, <3>2, PutKeepsTwins
  <2>5. CASE DedupeReads(t)
    <3>1. /\ Alters(t) /\ UNCHANGED <<table, revived, expired>>
          /\ OneRow(table) => task'[t].phase \in {"purge", "idle"}
          /\ ~OneRow(table) => /\ task'[t].phase = "collapse" /\ task'[t].seen = table
                               /\ DOMAIN table # {}
      BY <2>5, DedupeReadDoes DEF Reads, rowHistory
    <3>2. ~OneRow(table) => WillCollapse(t)'
      BY <3>1 DEF WillCollapse, At
    <3> QED BY <2>s, <3>1, <3>2, ReadKeepsTwins
  <2>6. CASE DedupePuts(t)
    <3> DEFINE merged == Merged(task[t].seen)
    <3>1. At(t, "collapse") /\ task'[t].phase = "drop"
      BY <2>6, DedupePutDoes DEF Twins
    <3>2. PICK keeper \in DOMAIN task[t].seen :
             /\ PutsRows(t, Row(keeper, merged))
             /\ keeper \in DOMAIN table'
             /\ task'[t].gone = DOMAIN task[t].seen \ {keeper}
             /\ \A g \in task'[t].gone : keeper < g
             /\ ~revived' => DOMAIN table' = DOMAIN table
      BY <2>6, DedupePutDoes DEF Twins
    <3>3. WillCollapse(t) => DOMAIN table \subseteq DOMAIN task[t].seen
      BY <3>1 DEF WillCollapse, At
    <3>4. WillCollapse(t) => WillCollapse(t)' \/ revived'
      <4> SUFFICES ASSUME WillCollapse(t), ~revived' PROVE WillCollapse(t)'
        OBVIOUS
      <4>1. \A i, j \in DOMAIN table' \ task'[t].gone : i = j
        BY <3>2, <3>3
      <4> QED BY <3>1, <4>1 DEF WillCollapse, At
    <3>5. \E i \in DOMAIN table' : \A g \in task'[t].gone : i < g
      BY <3>2
    <3> HIDE DEF merged
    <3> QED BY <1>s, <2>s, <3>1, <3>2, <3>4, <3>5, PutKeepsTwins
  <2>7. CASE DedupeDeletes(t)
    BY <2>s, <2>7, DedupeDeleteDoes, DeleteKeepsTwins
  <2> QED BY <1>9, <2>1, <2>2, <2>3, <2>4, <2>5, <2>6, <2>7
<1>10. ASSUME NEW t \in Slots, Alters(t), Reads, ~WillCollapse(t),
              task'[t].phase \notin {"collapse", "drop"},
              task'[t].phase = "delete" => expired
       PROVE  Twins'
  BY <1>10, ReadKeepsTwins DEF Reads, rowHistory
<1>11. ASSUME PurgeReadsRows("all") PROVE Twins'
  <2>1. ~WillCollapse("all")
    BY <1>11, PurgeReadDoes DEF WillCollapse, At
  <2> QED BY <1>s, <1>10, <1>11, <2>1, PurgeReadDoes
<1>12. ASSUME PrefetchReads \/ ReleaseReads PROVE Twins'
  <2>1. CASE PrefetchReads
    <3>1. ~WillCollapse("prefetch")
      BY <2>1, PrefetchReadDoes DEF WillCollapse, At
    <3> QED BY <1>s, <1>10, <2>1, <3>1, PrefetchReadDoes
  <2>2. CASE ReleaseReads
    <3>1. ~WillCollapse("space")
      BY <2>2, ReleaseReadDoes DEF WillCollapse, At
    <3> QED BY <1>s, <1>10, <2>2, <3>1, ReleaseReadDoes
  <2> QED BY <1>12, <2>1, <2>2
<1>13. ASSUME PurgeDeletesRows("all") PROVE Twins'
  BY <1>s, <1>13, PurgeDeleteDoes, DeleteKeepsTwins
<1>14. ASSUME NEW t \in {"all", "prefetch", "space", "view"}, PreloadReads(t) PROVE Twins'
  <2>1. ~WillCollapse(t)
    BY <1>14, PreloadReadDoes DEF WillCollapse, At
  <2> QED BY <1>s, <1>10, <1>14, <2>1, PreloadReadDoes
<1>15. ASSUME NEW t \in {"all", "prefetch", "space", "view"}, PreloadShows(t) PROVE Twins'
  <2>1. /\ At(t, "show") /\ UNCHANGED <<table, expired, revived>>
        /\ task' \in [Slots -> Task] /\ task'[t].phase = "idle"
        /\ \A s \in Slots \ {t} :
              \/ task'[s] = task[s]
              \/ t = "all" /\ s = "prefetch" /\ task[s] = NoTask /\ task'[s].phase = "fetch"
    BY <1>15, PreloadShowDoes DEF rowHistory
  <2>2. ASSUME NEW s \in {"all", "single"}, WillCollapse(s) PROVE WillCollapse(s)'
    <3>1. s # t /\ s # "prefetch"
      BY <2>1, <2>2 DEF WillCollapse, At
    <3>2. task'[s] = task[s]
      BY <1>s, <2>1, <3>1
    <3> QED BY <2>1, <2>2, <3>2 DEF WillCollapse, At
  <2>3. TwinsInv'
    BY <2>1, <2>2 DEF Twins, TwinsInv, OneRow
  <2>4. \A s \in Slots : task'[s] = task[s] \/ task'[s].phase \in {"idle", "fetch"}
    BY <2>1
  <2>5. KeeperInv'
    BY <2>1, <2>4 DEF Twins, KeeperInv, At
  <2> QED BY <2>3, <2>5 DEF Twins
<1>16. ASSUME ReleaseWrites PROVE Twins'
  <2>1. ~WillCollapse("space") /\ task'["space"].phase = "preload" /\ "space" \in Slots
    BY <1>s, <1>16, ReleaseWriteDoes DEF WillCollapse, At
  <2>2. PICK rows \in Rows : PutsRows("space", rows)
    BY <1>16, ReleaseWriteDoes
  <2> QED BY <1>s, <2>1, <2>2, PutKeepsTwins
<1>17. ASSUME TabIsLost PROVE Twins'
  <2>1. /\ table' = table /\ revived' = (Cardinality(DOMAIN table) > 1)
        /\ task' = [t \in Slots |-> NoTask]
    BY <1>17 DEF TabIsLost
  <2>2. revived' \/ OneRow(table)
    BY <1>s, <2>1, OneRowCounts
  <2>3. \A t \in Slots : task'[t].phase = "idle"
    BY <2>1, NoTaskIsTask
  <2>4. TwinsInv'
    BY <2>1, <2>2 DEF TwinsInv, OneRow
  <2>5. KeeperInv'
    BY <2>3 DEF KeeperInv, At
  <2> QED BY <2>4, <2>5 DEF Twins
<1>18. ASSUME UNCHANGED rowVars PROVE Twins'
  BY <1>18, StillKeepsTwins DEF rowVars, rowHistory
<1> QED BY <1>1, <1>2, <1>3, <1>4, <1>5, <1>6, <1>7, <1>8, <1>9, <1>11, <1>12, <1>13, <1>14,
           <1>15, <1>16, <1>17, <1>18 DEF ArticleNext

-----------------------------------------------------------------------------
(* While the history is calm, every step keeps the copies in agreement.    *)

\* With nothing to be written, the table is what the user wants and the store shows it.
Quiet == DOMAIN timer = {} /\ writes = <<>> /\ DOMAIN sweep = {}

Settled ==
    /\ OneRow(table)
    /\ DOMAIN table = {} => ~starWanted
    /\ \A i \in DOMAIN table :
          /\ table[i].starred = starWanted
          /\ i \in DOMAIN byFeed => Same(byFeed[i], table[i])
          /\ i \in DOMAIN listed => Same(listed[i], table[i])

Inside == DOMAIN byFeed \subseteq DOMAIN table /\ DOMAIN listed \subseteq DOMAIN table

\* An act of a calm history begins at rest.
LEMMA BeginsAtRest ==
    ASSUME RowsShape, CalmInv, Begins, calm'
    PROVE  /\ Quiet /\ Settled /\ Inside /\ timer = None
           /\ \A t \in Slots : task[t].phase = "idle"
<1>1. calm /\ AtRest
  BY DEF Begins
<1>2. timer = None /\ Quiet
  BY <1>1, NoRows DEF AtRest, Quiet
<1>3. \A t \in Slots : task[t].phase = "idle"
  BY <1>1 DEF AtRest, At
<1>4. Agreement /\ ~Renewing
  BY <1>1, <1>3 DEF CalmInv, AllAgree, Renewing, At, Slots
<1>5. \A i : Intended(i) = table[i]
  BY <1>2 DEF Intended, Quiet
<1>6. Settled /\ Inside
  BY <1>4, <1>5 DEF Agreement, Settled, Inside
<1> QED BY <1>2, <1>3, <1>6

\* While a task of a calm history works, there is nothing else.
LEMMA WorksAlone ==
    ASSUME CalmInv, calm, NEW t \in Slots, task[t].phase # "idle"
    PROVE  /\ Quiet /\ Settled /\ (Renewing \/ Inside) /\ TaskAgrees(t)
           /\ \A s \in Slots \ {t} : task[s].phase = "idle"
<1>1. Alone /\ Agreement /\ TaskAgrees(t)
  BY DEF CalmInv, AllAgree
<1>2. Quiet
  BY <1>1 DEF Alone, Quiet, At
<1>3. \A s \in Slots \ {t} : task[s].phase = "idle"
  BY <1>1 DEF Alone, NoneBut, At
<1>4. \A i : Intended(i) = table[i]
  BY <1>2 DEF Intended, Quiet
<1>5. Settled /\ (Renewing \/ Inside)
  BY <1>1, <1>4 DEF Agreement, Settled, Inside
<1> QED BY <1>1, <1>2, <1>3, <1>5

\* A step after which one task at most works on a settled table.
LEMMA WorkAgrees ==
    ASSUME NEW t \in Slots, Quiet', Settled', (Renewing \/ Inside)', TaskAgrees(t)',
           \A s \in Slots \ {t} : task'[s].phase = "idle"
    PROVE  AllAgree'
<1>1. \A i : Intended(i)' = table'[i]
  BY DEF Intended, Quiet
<1>2. Agreement'
  BY <1>1 DEF Agreement, Settled, Inside, Quiet
<1>3. Alone'
  BY DEF Alone, NoneBut, At, Quiet
<1>4. \A s \in Slots : TaskAgrees(s)'
  BY DEF TaskAgrees, At
<1> QED BY <1>2, <1>3, <1>4 DEF AllAgree

\* An act of the user after which some rows are to be written.
LEMMA ActAgrees ==
    ASSUME NEW updated \in Rows, DOMAIN updated \subseteq DOMAIN table, table' = table,
           OneRow(table), DOMAIN table = {} => ~starWanted',
           DOMAIN timer' = {}, \A t \in Slots : task'[t].phase = "idle",
           \/ writes' = <<updated>> /\ DOMAIN sweep' = {}
           \/ writes' = <<>> /\ sweep' = updated,
           \A i \in DOMAIN table \ DOMAIN updated :
              /\ table[i].starred = starWanted'
              /\ i \in DOMAIN byFeed' => Same(byFeed'[i], table[i])
              /\ i \in DOMAIN listed' => Same(listed'[i], table[i]),
           \A i \in DOMAIN updated :
              /\ updated[i].starred = starWanted'
              /\ i \in DOMAIN byFeed' => Same(byFeed'[i], updated[i])
              /\ i \in DOMAIN listed' => Same(listed'[i], updated[i]),
           Inside'
    PROVE  AllAgree'
<1>1. writes' = <<updated>> => writes' # <<>> /\ Len(writes') = 1 /\ Head(writes') = updated
  OBVIOUS
<1>2. \A i : Intended(i)' = IF i \in DOMAIN updated THEN updated[i] ELSE table[i]
  BY <1>1 DEF Intended
<1>3. Agreement'
  <2>1. (OneRow(table) /\ (DOMAIN table = {} => ~starWanted))'
    BY DEF OneRow
  <2>2. ASSUME NEW i \in DOMAIN table
        PROVE  /\ Intended(i)'.starred = starWanted'
               /\ i \in DOMAIN byFeed' => Same(byFeed'[i], Intended(i)')
               /\ i \in DOMAIN listed' => Same(listed'[i], Intended(i)')
    <3>1. CASE i \in DOMAIN updated
      BY <1>2, <3>1
    <3>2. CASE i \notin DOMAIN updated
      BY <1>2, <3>2, <2>2
    <3> QED BY <3>1, <3>2
  <2>3. (\A i \in DOMAIN table :
            /\ Intended(i).starred = starWanted
            /\ i \in DOMAIN byFeed => Same(byFeed[i], Intended(i))
            /\ i \in DOMAIN listed => Same(listed[i], Intended(i)))'
    BY <2>2 DEF Same, Intended
  <2>4. /\ (DOMAIN timer \subseteq DOMAIN table)'
        /\ (\A i \in DOMAIN timer : Same(timer[i], table[i]))'
        /\ (writes # <<>> => DOMAIN Head(writes) \subseteq DOMAIN table)'
        /\ (DOMAIN sweep \subseteq DOMAIN table)'
        /\ (~Renewing => DOMAIN byFeed \subseteq DOMAIN table /\ DOMAIN listed \subseteq DOMAIN table)'
    BY <1>1 DEF Inside
  <2> QED BY <2>1, <2>3, <2>4 DEF Agreement
<1>4. Alone'
  BY <1>1 DEF Alone, NoneBut, At
<1>5. \A s \in Slots : TaskAgrees(s)'
  BY DEF TaskAgrees, At
<1> QED BY <1>3, <1>4, <1>5 DEF AllAgree

\* Opening and leaving an article.
LEMMA OpensCalmly ==
    ASSUME RowsShape, CalmInv, calm', NEW id \in Ids, OpenArticle(id)
    PROVE  AllAgree'
<1> DEFINE row == Only(listed, {id})
<1>1. /\ Begins /\ Flush /\ Select(row) /\ listed' = Shows(listed, Flushed)
      /\ UNCHANGED <<table, sweep, task, starWanted>>
  BY DEF OpenArticle, Select
<1>2. /\ Quiet /\ Settled /\ Inside /\ timer = None
      /\ \A t \in Slots : task[t].phase = "idle"
  BY <1>1, BeginsAtRest
<1>3. listed \in Rows /\ opened \in Rows
  BY DEF RowsShape
<1>4. /\ row \in Rows /\ DOMAIN row \subseteq DOMAIN listed
      /\ \A i \in DOMAIN row : row[i] = listed[i]
  BY <1>3, OnlyIsRows
<1> HIDE DEF row
<1>5. /\ DOMAIN timer' \subseteq DOMAIN listed
      /\ \A i \in DOMAIN timer' : timer'[i] = listed[i]
  BY <1>1, <1>4, SelectKeepsShape
<1>6. /\ writes' = <<>> /\ DOMAIN byFeed' = DOMAIN byFeed
      /\ \A i \in DOMAIN byFeed : byFeed'[i] = byFeed[i]
  BY <1>1, <1>2, FlushKeepsShape DEF Quiet
<1>7. /\ DOMAIN listed' = DOMAIN listed
      /\ \A i \in DOMAIN listed : listed'[i] = listed[i]
  BY <1>1, <1>2, <1>3, FlushedIsRows, NoRows, ShowsIsRows
<1>8. \A i : Intended(i)' = table[i]
  BY <1>1, <1>2, <1>6 DEF Intended, Quiet
<1>9. Agreement'
  <2>1. /\ (OneRow(table) /\ (DOMAIN table = {} => ~starWanted))'
        /\ (\A i \in DOMAIN table :
               /\ Intended(i).starred = starWanted
               /\ i \in DOMAIN byFeed => Same(byFeed[i], Intended(i))
               /\ i \in DOMAIN listed => Same(listed[i], Intended(i)))'
    BY <1>1, <1>2, <1>6, <1>7, <1>8 DEF Settled, OneRow, Same, Intended
  <2>2. /\ (DOMAIN timer \subseteq DOMAIN table)'
        /\ (\A i \in DOMAIN timer : Same(timer[i], table[i]))'
    BY <1>1, <1>2, <1>5 DEF Settled, Inside, Same
  <2>3. /\ (writes # <<>> => DOMAIN Head(writes) \subseteq DOMAIN table)'
        /\ (DOMAIN sweep \subseteq DOMAIN table)'
        /\ (DOMAIN byFeed \subseteq DOMAIN table /\ DOMAIN listed \subseteq DOMAIN table)'
    BY <1>1, <1>2, <1>6, <1>7 DEF Quiet, Inside
  <2> QED BY <2>1, <2>2, <2>3 DEF Agreement
<1>10. Alone' /\ \A t \in Slots : TaskAgrees(t)'
  BY <1>1, <1>2, <1>6 DEF Alone, NoneBut, At, TaskAgrees, Quiet
<1> QED BY <1>9, <1>10 DEF AllAgree

LEMMA LeavesCalmly ==
    ASSUME RowsShape, CalmInv, calm', LeaveArticle
    PROVE  AllAgree'
<1>1. /\ Begins /\ Flush /\ Select(None) /\ listed' = byFeed' /\ Goes("view", "preload")
      /\ UNCHANGED <<table, sweep, starWanted>>
  BY DEF LeaveArticle, Select
<1>2. /\ Quiet /\ Settled /\ Inside /\ timer = None
      /\ \A t \in Slots : task[t].phase = "idle"
  BY <1>1, BeginsAtRest
<1>3. DOMAIN timer' = {}
  BY <1>1, NoRows, SelectKeepsShape
<1>4. /\ writes' = <<>> /\ DOMAIN byFeed' = DOMAIN byFeed
      /\ \A i \in DOMAIN byFeed : byFeed'[i] = byFeed[i]
  BY <1>1, <1>2, FlushKeepsShape DEF Quiet
<1>5. /\ "view" \in Slots /\ "preload" \in Phases /\ task \in [Slots -> Task]
  BY DEF Slots, Phases, RowsShape
<1>6. /\ task'["view"].phase = "preload"
      /\ \A s \in Slots \ {"view"} : task'[s].phase = "idle"
  BY <1>1, <1>2, <1>5, GoesMoves
<1>7. Quiet' /\ Settled' /\ Inside'
  BY <1>1, <1>2, <1>3, <1>4 DEF Quiet, Settled, Inside, OneRow, Same
<1>8. TaskAgrees("view")'
  BY <1>6 DEF TaskAgrees, At
<1> QED BY <1>5, <1>6, <1>7, <1>8, WorkAgrees

\* The timer, the swipe and the star.
LEMMA TimerFiresCalmly ==
    ASSUME RowsShape, CalmInv, calm', TimerFires
    PROVE  AllAgree'
<1> DEFINE updated == MarkedRead(timer)
<1>1. /\ ApplyUpdate(updated) /\ writes' = Append(writes, updated) /\ timer' = None /\ timer # None
      /\ UNCHANGED <<table, sweep, task, starWanted, calm>>
  BY DEF TimerFires, rowHistory
<1>2. /\ timer \in Rows /\ byFeed \in Rows /\ listed \in Rows
  BY DEF RowsShape
<1>3. DOMAIN timer # {}
  BY <1>1, <1>2, NoRows
<1>4. Alone /\ Agreement
  BY <1>1 DEF CalmInv, AllAgree
<1>5. /\ writes = <<>> /\ DOMAIN sweep = {} /\ \A t \in Slots : task[t].phase = "idle"
  BY <1>3, <1>4 DEF Alone, At
<1>6. \A i : Intended(i) = table[i]
  BY <1>5 DEF Intended
<1>7. ~Renewing
  BY <1>5 DEF Renewing, At, Slots
<1>8. /\ updated \in Rows /\ DOMAIN updated = DOMAIN timer
      /\ \A i \in DOMAIN timer : updated[i].starred = timer[i].starred
  BY <1>2, MarkedReadIsRows
<1> HIDE DEF updated
<1>9. /\ DOMAIN byFeed' = DOMAIN byFeed
      /\ \A i \in DOMAIN byFeed : byFeed'[i] = IF i \in DOMAIN updated THEN updated[i] ELSE byFeed[i]
      /\ DOMAIN listed' = DOMAIN listed
      /\ \A i \in DOMAIN listed : listed'[i] = IF i \in DOMAIN updated THEN updated[i] ELSE listed[i]
  BY <1>1, <1>2, <1>8, UpdateKeepsShape
<1>10. writes' = <<updated>> /\ DOMAIN sweep' = {} /\ DOMAIN timer' = {}
  BY <1>1, <1>5, NoRows
<1>11. /\ DOMAIN updated \subseteq DOMAIN table /\ OneRow(table)
       /\ DOMAIN table = {} => ~starWanted'
       /\ \A t \in Slots : task'[t].phase = "idle"
       /\ Inside'
  BY <1>1, <1>4, <1>5, <1>7, <1>8, <1>9 DEF Agreement, Inside
<1>12. \A i \in DOMAIN table \ DOMAIN updated :
          /\ table[i].starred = starWanted'
          /\ i \in DOMAIN byFeed' => Same(byFeed'[i], table[i])
          /\ i \in DOMAIN listed' => Same(listed'[i], table[i])
  BY <1>1, <1>4, <1>6, <1>9 DEF Agreement
<1>13. \A i \in DOMAIN updated :
          /\ updated[i].starred = starWanted'
          /\ i \in DOMAIN byFeed' => Same(byFeed'[i], updated[i])
          /\ i \in DOMAIN listed' => Same(listed'[i], updated[i])
  BY <1>1, <1>4, <1>6, <1>8, <1>9 DEF Agreement, Same
<1> QED BY <1>1, <1>8, <1>10, <1>11, <1>12, <1>13, ActAgrees

LEMMA SwipesCalmly ==
    ASSUME RowsShape, CalmInv, calm', NEW id \in Ids, MarkAsRead(id)
    PROVE  AllAgree'
<1> DEFINE row == Only(listed, {id})
           updated == MarkedRead(row)
<1>1. /\ Begins /\ ApplyUpdate(updated) /\ writes' = Append(writes, updated)
      /\ UNCHANGED <<table, timer, sweep, task, starWanted>>
  BY DEF MarkAsRead
<1>2. /\ byFeed \in Rows /\ listed \in Rows
  BY DEF RowsShape
<1>3. /\ Quiet /\ Settled /\ Inside
      /\ \A t \in Slots : task[t].phase = "idle"
  BY <1>1, BeginsAtRest
<1>4. /\ row \in Rows /\ DOMAIN row \subseteq DOMAIN listed
      /\ \A i \in DOMAIN row : row[i] = listed[i]
  BY <1>2, OnlyIsRows
<1> HIDE DEF row
<1>5. /\ updated \in Rows /\ DOMAIN updated = DOMAIN row
      /\ \A i \in DOMAIN row : updated[i].starred = row[i].starred
  BY <1>4, MarkedReadIsRows
<1> HIDE DEF updated
<1>6. /\ DOMAIN byFeed' = DOMAIN byFeed
      /\ \A i \in DOMAIN byFeed : byFeed'[i] = IF i \in DOMAIN updated THEN updated[i] ELSE byFeed[i]
      /\ DOMAIN listed' = DOMAIN listed
      /\ \A i \in DOMAIN listed : listed'[i] = IF i \in DOMAIN updated THEN updated[i] ELSE listed[i]
  BY <1>1, <1>2, <1>5, UpdateKeepsShape
<1>7. writes' = <<updated>> /\ DOMAIN sweep' = {} /\ DOMAIN timer' = {}
  BY <1>1, <1>3 DEF Quiet
<1>8. /\ DOMAIN updated \subseteq DOMAIN table /\ OneRow(table)
      /\ DOMAIN table = {} => ~starWanted'
      /\ \A t \in Slots : task'[t].phase = "idle"
      /\ Inside'
  BY <1>1, <1>3, <1>4, <1>5, <1>6 DEF Settled, Inside
<1>9. \A i \in DOMAIN table \ DOMAIN updated :
         /\ table[i].starred = starWanted'
         /\ i \in DOMAIN byFeed' => Same(byFeed'[i], table[i])
         /\ i \in DOMAIN listed' => Same(listed'[i], table[i])
  BY <1>1, <1>3, <1>6 DEF Settled
<1>10. \A i \in DOMAIN updated :
          /\ updated[i].starred = starWanted'
          /\ i \in DOMAIN byFeed' => Same(byFeed'[i], updated[i])
          /\ i \in DOMAIN listed' => Same(listed'[i], updated[i])
  BY <1>1, <1>3, <1>4, <1>5, <1>6, <1>8 DEF Settled, Same
<1> QED BY <1>1, <1>5, <1>7, <1>8, <1>9, <1>10, ActAgrees

LEMMA StarsCalmly ==
    ASSUME RowsShape, CalmInv, calm', NEW id \in Ids, ToggleStar(id)
    PROVE  AllAgree'
<1> DEFINE updated == Row(id, Toggled(id))
<1>1. /\ Begins /\ ApplyUpdate(updated) /\ writes' = Append(writes, updated)
      /\ starWanted' = updated[id].starred /\ id \in DOMAIN byFeed
      /\ UNCHANGED <<table, timer, sweep, task>>
  BY DEF ToggleStar
<1>2. /\ byFeed \in Rows /\ listed \in Rows /\ byFeed[id] \in Article
  BY <1>1, RowsHave DEF RowsShape
<1>3. /\ Quiet /\ Settled /\ Inside
      /\ \A t \in Slots : task[t].phase = "idle"
  BY <1>1, BeginsAtRest
<1>4. Toggled(id) \in Article
  BY <1>2 DEF Toggled, Article
<1>5. /\ updated \in Rows /\ DOMAIN updated = {id}
  BY <1>4, RowIsRows
<1> HIDE DEF updated
<1>6. /\ DOMAIN byFeed' = DOMAIN byFeed
      /\ \A i \in DOMAIN byFeed : byFeed'[i] = IF i \in DOMAIN updated THEN updated[i] ELSE byFeed[i]
      /\ DOMAIN listed' = DOMAIN listed
      /\ \A i \in DOMAIN listed : listed'[i] = IF i \in DOMAIN updated THEN updated[i] ELSE listed[i]
  BY <1>1, <1>2, <1>5, UpdateKeepsShape
<1>7. writes' = <<updated>> /\ DOMAIN sweep' = {} /\ DOMAIN timer' = {}
  BY <1>1, <1>3 DEF Quiet
<1>8. /\ DOMAIN updated \subseteq DOMAIN table /\ OneRow(table)
      /\ id \in DOMAIN table
      /\ \A t \in Slots : task'[t].phase = "idle"
      /\ Inside'
  BY <1>1, <1>3, <1>5, <1>6 DEF Settled, Inside
<1>9. \A i \in DOMAIN table : i = id
  BY <1>8 DEF OneRow
<1>10. \A i \in DOMAIN updated :
          /\ updated[i].starred = starWanted'
          /\ i \in DOMAIN byFeed' => Same(byFeed'[i], updated[i])
          /\ i \in DOMAIN listed' => Same(listed'[i], updated[i])
  BY <1>1, <1>5, <1>6 DEF Same
<1> QED BY <1>1, <1>5, <1>7, <1>8, <1>9, <1>10, ActAgrees

\* The two acts that leave a sweep of rows to be written.
LEMMA MarksAllCalmly ==
    ASSUME RowsShape, CalmInv, calm', MarkAllAsRead
    PROVE  AllAgree'
<1> DEFINE unread  == {i \in DOMAIN listed : ~listed[i].read}
           rows    == Only(listed, unread)
           updated == MarkedRead(rows)
           S       == DOMAIN byFeed
<1>1. /\ Begins /\ sweep' = updated /\ listed' = MarkedRead(listed)
      /\ byFeed' = [i \in S |-> [byFeed[i] EXCEPT !.read = @ \/ i \in unread]]
      /\ UNCHANGED <<table, timer, writes, task, starWanted>>
  BY DEF MarkAllAsRead
<1>2. /\ byFeed \in Rows /\ listed \in Rows
  BY DEF RowsShape
<1>3. /\ Quiet /\ Settled /\ Inside
      /\ \A t \in Slots : task[t].phase = "idle"
  BY <1>1, BeginsAtRest
<1>4. unread \subseteq DOMAIN listed /\ \A i \in DOMAIN listed : i \in unread <=> ~listed[i].read
  OBVIOUS
<1> HIDE DEF unread
<1>5. /\ rows \in Rows /\ DOMAIN rows = unread
      /\ \A i \in unread : rows[i] = listed[i]
  <2>1. /\ rows \in Rows /\ DOMAIN rows = DOMAIN listed \cap unread
        /\ \A i \in DOMAIN listed \cap unread : rows[i] = listed[i]
    BY <1>2, OnlyIsRows
  <2> HIDE DEF rows
  <2> QED BY <1>4, <2>1
<1> HIDE DEF rows
<1>6. /\ updated \in Rows /\ DOMAIN updated = unread
      /\ \A i \in unread : updated[i].starred = listed[i].starred /\ updated[i].read = TRUE
  <2>1. /\ updated \in Rows /\ DOMAIN updated = DOMAIN rows
        /\ \A i \in DOMAIN rows : updated[i].starred = rows[i].starred /\ updated[i].read = TRUE
    BY <1>5, MarkedReadIsRows
  <2> HIDE DEF updated
  <2> QED BY <1>5, <2>1
<1> HIDE DEF updated
<1>7. /\ DOMAIN listed' = DOMAIN listed
      /\ \A i \in DOMAIN listed : listed'[i].starred = listed[i].starred /\ listed'[i].read = TRUE
  BY <1>1, <1>2, MarkedReadIsRows
<1>8. ASSUME NEW i \in S
      PROVE  /\ byFeed'[i].starred = byFeed[i].starred
             /\ i \in unread => byFeed'[i].read = TRUE
             /\ i \notin unread => byFeed'[i].read = byFeed[i].read
  <2> DEFINE r == byFeed[i].read \/ i \in unread
  <2>1. byFeed'[i] = [byFeed[i] EXCEPT !.read = r]
    BY <1>1
  <2>2. byFeed[i] \in Article
    BY <1>2, RowsHave
  <2>3. byFeed[i].read \in BOOLEAN
    BY <2>2 DEF Article
  <2>4. r \in BOOLEAN /\ (i \in unread => r = TRUE) /\ (i \notin unread => r = byFeed[i].read)
    BY <2>3
  <2> HIDE DEF r
  <2>5. byFeed'[i].read = r /\ byFeed'[i].starred = byFeed[i].starred
    BY <2>1, <2>2, <2>4, ReadIsSet
  <2> QED BY <2>4, <2>5
<1>9. DOMAIN byFeed' = DOMAIN byFeed
  BY <1>1
<1>10. /\ writes' = <<>> /\ sweep' = updated /\ DOMAIN timer' = {}
       /\ DOMAIN updated \subseteq DOMAIN table /\ OneRow(table)
       /\ DOMAIN table = {} => ~starWanted'
       /\ \A t \in Slots : task'[t].phase = "idle"
       /\ Inside'
  BY <1>1, <1>3, <1>4, <1>6, <1>7, <1>9 DEF Settled, Inside, Quiet
<1>11. ASSUME NEW i \in DOMAIN table \ DOMAIN updated
       PROVE  /\ table[i].starred = starWanted'
              /\ i \in DOMAIN byFeed' => Same(byFeed'[i], table[i])
              /\ i \in DOMAIN listed' => Same(listed'[i], table[i])
  <2>1. i \notin unread
    BY <1>6, <1>11
  <2>2. table[i].starred = starWanted'
    BY <1>1, <1>3, <1>11 DEF Settled
  <2>3. i \in DOMAIN byFeed' => Same(byFeed'[i], table[i])
    BY <1>3, <1>8, <1>9, <1>11, <2>1 DEF Settled, Same
  <2>4. ASSUME i \in DOMAIN listed PROVE Same(listed'[i], table[i])
    <3>1. listed[i] \in Article /\ listed[i].read
      BY <1>2, <1>4, <2>1, <2>4, RowsHave
    <3>2. listed[i].read = TRUE
      BY <3>1 DEF Article
    <3> QED BY <1>3, <1>7, <1>11, <2>4, <3>2 DEF Settled, Same
  <2> QED BY <1>7, <2>2, <2>3, <2>4
<1>12. ASSUME NEW i \in DOMAIN updated
       PROVE  /\ updated[i].starred = starWanted'
              /\ i \in DOMAIN byFeed' => Same(byFeed'[i], updated[i])
              /\ i \in DOMAIN listed' => Same(listed'[i], updated[i])
  <2>1. /\ i \in unread /\ i \in DOMAIN listed /\ i \in DOMAIN table
        /\ updated[i].starred = listed[i].starred /\ updated[i].read = TRUE
    BY <1>4, <1>6, <1>10
  <2>2. listed[i].starred = starWanted' /\ (i \in DOMAIN byFeed => byFeed[i].starred = starWanted')
    BY <1>1, <1>3, <2>1 DEF Settled, Same
  <2> QED BY <1>7, <1>8, <1>9, <2>1, <2>2 DEF Same
<1> QED BY <1>1, <1>6, <1>10, <1>11, <1>12, ActAgrees

LEMMA UnmarksCalmly ==
    ASSUME RowsShape, CalmInv, calm', NEW ids \in SUBSET Ids, MarkUnread(ids)
    PROVE  AllAgree'
<1> DEFINE R == {j \in ids \cap DOMAIN byFeed : byFeed[j].read}
           updated == [i \in R |-> [byFeed[i] EXCEPT !.read = FALSE]]
           S == DOMAIN listed
<1>1. /\ Begins /\ sweep' = updated /\ byFeed' = Shows(byFeed, updated)
      /\ listed' = [i \in S |-> [listed[i] EXCEPT !.read = @ /\ i \notin DOMAIN updated]]
      /\ UNCHANGED <<table, timer, writes, task, starWanted>>
  BY DEF MarkUnread
<1>2. /\ byFeed \in Rows /\ listed \in Rows
  BY DEF RowsShape
<1>3. /\ Quiet /\ Settled /\ Inside
      /\ \A t \in Slots : task[t].phase = "idle"
  BY <1>1, BeginsAtRest
<1>4. R \in SUBSET Ids /\ R \subseteq DOMAIN byFeed /\ \A i \in R : byFeed[i] \in Article
  BY <1>2, RowsHave
<1> HIDE DEF R
<1>5. ASSUME NEW i \in R
      PROVE  /\ [byFeed[i] EXCEPT !.read = FALSE] \in Article
             /\ [byFeed[i] EXCEPT !.read = FALSE].read = FALSE
             /\ [byFeed[i] EXCEPT !.read = FALSE].starred = byFeed[i].starred
  BY <1>4, ReadIsSet
<1>6. /\ updated \in [R -> Article] /\ DOMAIN updated = R
      /\ \A i \in R : updated[i].starred = byFeed[i].starred /\ updated[i].read = FALSE
  BY <1>5
<1> HIDE DEF updated
<1>7. updated \in Rows
  BY <1>4, <1>6, RowsMade
<1>8. /\ DOMAIN byFeed' = DOMAIN byFeed
      /\ \A i \in DOMAIN byFeed : byFeed'[i] = IF i \in R THEN updated[i] ELSE byFeed[i]
  BY <1>1, <1>2, <1>6, <1>7, ShowsIsRows
<1>9. ASSUME NEW i \in S
      PROVE  /\ listed'[i].starred = listed[i].starred
             /\ i \in R => listed'[i].read = FALSE
             /\ i \notin R => listed'[i].read = listed[i].read
  <2> DEFINE r == listed[i].read /\ i \notin R
  <2>1. listed'[i] = [listed[i] EXCEPT !.read = r]
    BY <1>1, <1>6
  <2>2. listed[i] \in Article
    BY <1>2, RowsHave
  <2>3. listed[i].read \in BOOLEAN
    BY <2>2 DEF Article
  <2>4. r \in BOOLEAN /\ (i \in R => r = FALSE) /\ (i \notin R => r = listed[i].read)
    BY <2>3
  <2> HIDE DEF r
  <2>5. listed'[i].read = r /\ listed'[i].starred = listed[i].starred
    BY <2>1, <2>2, <2>4, ReadIsSet
  <2> QED BY <2>4, <2>5
<1>10. DOMAIN listed' = DOMAIN listed
  BY <1>1
<1>11. /\ writes' = <<>> /\ sweep' = updated /\ DOMAIN timer' = {}
       /\ DOMAIN updated \subseteq DOMAIN table /\ OneRow(table)
       /\ DOMAIN table = {} => ~starWanted'
       /\ \A t \in Slots : task'[t].phase = "idle"
       /\ Inside'
  BY <1>1, <1>3, <1>4, <1>6, <1>8, <1>10 DEF Settled, Inside, Quiet
<1>12. ASSUME NEW i \in DOMAIN table \ DOMAIN updated
       PROVE  /\ table[i].starred = starWanted'
              /\ i \in DOMAIN byFeed' => Same(byFeed'[i], table[i])
              /\ i \in DOMAIN listed' => Same(listed'[i], table[i])
  <2>1. i \notin R /\ i \in DOMAIN table
    BY <1>6, <1>12
  <2>2. table[i].starred = starWanted'
    BY <1>1, <1>3, <2>1 DEF Settled
  <2>3. i \in DOMAIN byFeed' => Same(byFeed'[i], table[i])
    BY <1>3, <1>8, <2>1 DEF Settled
  <2>4. i \in DOMAIN listed' => Same(listed'[i], table[i])
    BY <1>3, <1>9, <1>10, <2>1 DEF Settled, Same
  <2> QED BY <2>2, <2>3, <2>4
<1>13. ASSUME NEW i \in DOMAIN updated
       PROVE  /\ updated[i].starred = starWanted'
              /\ i \in DOMAIN byFeed' => Same(byFeed'[i], updated[i])
              /\ i \in DOMAIN listed' => Same(listed'[i], updated[i])
  <2>1. /\ i \in R /\ i \in DOMAIN table /\ i \in DOMAIN byFeed
        /\ updated[i].starred = byFeed[i].starred /\ updated[i].read = FALSE
    BY <1>4, <1>6, <1>11
  <2>2. byFeed[i].starred = starWanted' /\ (i \in DOMAIN listed => listed[i].starred = starWanted')
    BY <1>1, <1>3, <2>1 DEF Settled, Same
  <2> QED BY <1>8, <1>9, <1>10, <2>1, <2>2 DEF Same
<1> QED BY <1>1, <1>7, <1>11, <1>12, <1>13, ActAgrees

\* Work that begins.
LEMMA StartsCalmly ==
    ASSUME RowsShape, CalmInv, calm', Begins, UNCHANGED <<table, store, flights, starWanted>>,
           NEW t \in Slots, NEW phase \in {"lookup", "release", "fetch"},
           Goes(t, phase) \/ UNCHANGED task
    PROVE  AllAgree'
<1>1. /\ Quiet /\ Settled /\ Inside
      /\ \A s \in Slots : task[s].phase = "idle"
  BY BeginsAtRest
<1>2. phase \in Phases /\ task \in [Slots -> Task]
  BY DEF Phases, RowsShape
<1>3. /\ task'[t].phase \in {"idle", "lookup", "release", "fetch"}
      /\ \A s \in Slots \ {t} : task'[s].phase = "idle"
  <2>1. CASE Goes(t, phase)
    BY <1>1, <1>2, <2>1, GoesMoves
  <2>2. CASE UNCHANGED task
    BY <1>1, <2>2
  <2> QED BY <2>1, <2>2
<1>4. Quiet' /\ Settled' /\ Inside'
  BY <1>1 DEF Quiet, Settled, Inside, OneRow, Same, store, flights
<1>5. TaskAgrees(t)'
  BY <1>3 DEF TaskAgrees, At
<1> QED BY <1>3, <1>4, <1>5, WorkAgrees

\* Rows whose star and read state the table has already, whichever task puts them.
LEMMA PutsCalmly ==
    ASSUME CalmInv, calm, NEW t \in Slots, task[t].phase # "idle", ~Renewing,
           NEW rows, PutsRows(t, rows),
           \A i \in DOMAIN rows : i \in DOMAIN table /\ Same(rows[i], table[i]),
           TaskAgrees(t)'
    PROVE  AllAgree'
<1>1. /\ Quiet /\ Settled /\ (Renewing \/ Inside)
      /\ \A s \in Slots \ {t} : task[s].phase = "idle"
  BY WorksAlone
<1>2. /\ DOMAIN table' = DOMAIN table
      /\ \A i \in DOMAIN table : Same(table'[i], table[i])
      /\ \A s \in Slots \ {t} : task'[s] = task[s]
      /\ UNCHANGED <<byFeed, listed, timer, writes, sweep, starWanted>>
  BY DEF PutsRows, Alters, Same, store, flights
<1>3. Quiet' /\ Settled' /\ Inside'
  BY <1>1, <1>2 DEF Quiet, Settled, Inside, OneRow, Same
<1> QED BY <1>1, <1>2, <1>3, WorkAgrees

\* A task that reads.
LEMMA ReadsCalmly ==
    ASSUME CalmInv, calm, NEW t \in Slots, task[t].phase # "idle", Alters(t), Reads,
           Renewing => Renewing', TaskAgrees(t)'
    PROVE  AllAgree'
<1>1. /\ Quiet /\ Settled /\ (Renewing \/ Inside)
      /\ \A s \in Slots \ {t} : task[s].phase = "idle"
  BY WorksAlone
<1>2. /\ \A s \in Slots \ {t} : task'[s] = task[s]
      /\ UNCHANGED <<table, byFeed, listed, timer, writes, sweep, starWanted>>
  BY DEF Reads, Alters, store, flights, rowHistory
<1>3. Quiet' /\ Settled' /\ (Renewing \/ Inside)'
  BY <1>1, <1>2 DEF Quiet, Settled, Inside, OneRow, Same
<1> QED BY <1>1, <1>2, <1>3, WorkAgrees

\* The writes of the user's acts reach the table.
LEMMA LandsCalmly ==
    ASSUME RowsShape, CalmInv, calm, WriteLands
    PROVE  AllAgree'
<1> DEFINE rows == Head(writes)
<1>1. /\ writes # <<>> /\ Put(rows) /\ writes' = Tail(writes)
      /\ UNCHANGED <<byFeed, listed, timer, sweep, task, starWanted>>
  BY DEF WriteLands, store
<1>2. rows \in Rows /\ table \in Rows /\ revived \in BOOLEAN
  BY <1>1 DEF RowsShape
<1>3. /\ Alone /\ Agreement /\ DOMAIN sweep = {} /\ Len(writes) = 1
      /\ \A t \in Slots : task[t].phase = "idle"
      /\ DOMAIN timer = {}
  BY <1>1 DEF CalmInv, AllAgree, Alone, At
<1>4. writes' = <<>>
  BY <1>1, <1>3 DEF RowsShape
<1>5. ~Renewing
  BY <1>3 DEF Renewing, At, Slots
<1>6. DOMAIN rows \subseteq DOMAIN table
  BY <1>1, <1>3 DEF Agreement
<1>7. \A i : Intended(i) = IF i \in DOMAIN rows THEN rows[i] ELSE table[i]
  BY <1>1, <1>3 DEF Intended
<1> HIDE DEF rows
<1>8. /\ DOMAIN table' = DOMAIN table
      /\ \A i \in DOMAIN table : table'[i] = Intended(i)
  BY <1>1, <1>2, <1>6, <1>7, PutMoves
<1>9. Quiet' /\ Settled' /\ Inside'
  BY <1>1, <1>3, <1>4, <1>5, <1>8 DEF Quiet, Settled, Inside, Agreement, OneRow
<1>10. "all" \in Slots /\ TaskAgrees("all")' /\ \A s \in Slots : task'[s].phase = "idle"
  BY <1>1, <1>3 DEF Slots, TaskAgrees, At
<1> QED BY <1>9, <1>10, WorkAgrees

LEMMA SweepsCalmly ==
    ASSUME RowsShape, CalmInv, calm, NEW id \in Ids, SweepWrites(id)
    PROVE  AllAgree'
<1> DEFINE rows == Only(sweep, {id})
           left == Without(sweep, {id})
<1>1. /\ id \in DOMAIN sweep /\ Put(rows) /\ sweep' = left
      /\ UNCHANGED <<byFeed, listed, timer, writes, task, starWanted>>
  BY DEF SweepWrites, store
<1>2. sweep \in Rows /\ table \in Rows /\ revived \in BOOLEAN
  BY DEF RowsShape
<1>3. rows \in Rows /\ DOMAIN rows = {id} /\ rows[id] = sweep[id]
  <2>1. /\ rows \in Rows
        /\ DOMAIN rows = DOMAIN sweep \cap {id}
        /\ \A i \in DOMAIN sweep \cap {id} : rows[i] = sweep[i]
    BY <1>2, OnlyIsRows
  <2> HIDE DEF rows
  <2> QED BY <1>1, <2>1
<1>4. /\ left \in Rows /\ DOMAIN left = DOMAIN sweep \ {id}
  BY <1>2, WithoutIsRows
<1> HIDE DEF rows, left
<1>5. Alone /\ Agreement
  BY DEF CalmInv, AllAgree
<1>6. /\ writes = <<>> /\ DOMAIN timer = {}
      /\ \A t \in Slots : task[t].phase = "idle"
  BY <1>1, <1>5 DEF Alone, At
<1>7. ~Renewing
  BY <1>6 DEF Renewing, At, Slots
<1>8. id \in DOMAIN table /\ \A i \in DOMAIN table : i = id
  BY <1>1, <1>5 DEF Agreement, OneRow
<1>9. DOMAIN left = {}
  BY <1>4, <1>5, <1>8 DEF Agreement
<1>10. Intended(id) = sweep[id]
  BY <1>1, <1>6 DEF Intended
<1>11. DOMAIN table' = DOMAIN table /\ table'[id] = Intended(id)
  BY <1>1, <1>2, <1>3, <1>8, <1>10, PutMoves
<1>12. Quiet' /\ Inside'
  BY <1>1, <1>5, <1>6, <1>7, <1>9, <1>11 DEF Quiet, Inside, Agreement
<1>13. Settled'
  BY <1>1, <1>5, <1>8, <1>11 DEF Settled, Agreement, OneRow
<1>14. "all" \in Slots /\ TaskAgrees("all")' /\ \A s \in Slots : task'[s].phase = "idle"
  BY <1>1, <1>6 DEF Slots, TaskAgrees, At
<1> QED BY <1>12, <1>13, <1>14, WorkAgrees

\* The tasks of a calm history, step by step.
LEMMA RefreshesCalmly ==
    ASSUME RowsShape, KeeperInv, CalmInv, calm, NEW t \in {"all", "single"},
           \/ LooksUpRow(t) \/ AddsRow(t) \/ UpdatesRow(t)
           \/ DedupeReads(t) \/ DedupePuts(t) \/ DedupeDeletes(t)
    PROVE  AllAgree'
<1>s. t \in Slots
  BY DEF Slots
<1>1. CASE LooksUpRow(t)
  <2>1. /\ task[t].phase = "lookup" /\ Alters(t) /\ Reads
        /\ task'[t].phase \in {"add", "dedupe", "update"}
        /\ task'[t].phase = "add" => DOMAIN table = {}
        /\ \A i \in DOMAIN task'[t].seen : i \in DOMAIN table /\ task'[t].seen[i] = table[i]
    BY <1>1, LookUpDoes DEF At
  <2>2. ~Renewing
    BY <1>s, <2>1, WorksAlone DEF Renewing, At, Slots
  <2>3. TaskAgrees(t)'
    BY <2>1 DEF TaskAgrees, At, Reads, Same
  <2> QED BY <1>s, <2>1, <2>2, <2>3, ReadsCalmly
<1>2. CASE AddsRow(t)
  <2>1. /\ task[t].phase = "add" /\ Alters(t) /\ task'[t].phase = "dedupe"
        /\ UNCHANGED <<byFeed, listed, timer, writes, sweep, starWanted>>
    BY <1>2, AddDoes DEF At, store, flights, rowHistory
  <2>2. PICK id \in Ids : DOMAIN table' = {id} \cup DOMAIN table /\ table'[id].starred = FALSE
    BY <1>2, AddDoes
  <2>3. /\ Quiet /\ Settled /\ TaskAgrees(t)
        /\ Renewing \/ Inside
        /\ \A s \in Slots \ {t} : task[s].phase = "idle"
    BY <1>s, <2>1, WorksAlone
  <2>4. ~Renewing
    BY <1>s, <2>1, <2>3 DEF Renewing, At, Slots
  <2>5. DOMAIN table = {} /\ DOMAIN byFeed = {} /\ DOMAIN listed = {}
    BY <2>1, <2>3, <2>4 DEF TaskAgrees, At, Inside
  <2>6. starWanted = FALSE
    BY <2>3, <2>5 DEF Settled, RowsShape
  <2>7. Quiet' /\ Settled' /\ Inside'
    BY <2>1, <2>2, <2>3, <2>5, <2>6 DEF Quiet, Settled, Inside, OneRow
  <2>8. TaskAgrees(t)'
    BY <2>1 DEF TaskAgrees, At
  <2> QED BY <1>s, <2>1, <2>3, <2>7, <2>8, WorkAgrees DEF Alters
<1>3. CASE UpdatesRow(t)
  <2>1. task[t].phase = "update" /\ PutsRows(t, task[t].seen) /\ task'[t].phase = "dedupe"
    BY <1>3, UpdateDoes DEF At
  <2>2. TaskAgrees(t) /\ ~Renewing
    BY <1>s, <2>1, WorksAlone DEF Renewing, At, Slots
  <2>3. \A i \in DOMAIN task[t].seen : i \in DOMAIN table /\ Same(task[t].seen[i], table[i])
    BY <2>1, <2>2 DEF TaskAgrees
  <2>4. TaskAgrees(t)'
    BY <2>1 DEF TaskAgrees, At
  <2> QED BY <1>s, <2>1, <2>2, <2>3, <2>4, PutsCalmly
<1>4. CASE DedupeReads(t)
  <2>1. /\ task[t].phase = "dedupe" /\ Alters(t) /\ Reads
        /\ OneRow(table) => task'[t].phase \in {"purge", "idle"}
    BY <1>4, DedupeReadDoes DEF At
  <2>2. Settled /\ ~Renewing
    BY <1>s, <2>1, WorksAlone DEF Renewing, At, Slots
  <2>3. TaskAgrees(t)'
    BY <2>1, <2>2 DEF TaskAgrees, At, Settled
  <2> QED BY <1>s, <2>1, <2>2, <2>3, ReadsCalmly
<1>5. CASE DedupePuts(t) \/ DedupeDeletes(t)
  <2>1. task[t].phase \in {"collapse", "drop"}
    BY <1>5 DEF DedupePuts, DedupeDeletes, At
  <2>2. TaskAgrees(t)
    BY <1>s, <2>1, WorksAlone
  <2> QED BY <2>1, <2>2 DEF TaskAgrees, At
<1> QED BY <1>1, <1>2, <1>3, <1>4, <1>5

LEMMA TidiesCalmly ==
    ASSUME RowsShape, CalmInv, calm,
           \/ PurgeReadsRows("all") \/ PurgeDeletesRows("all")
           \/ PrefetchReads \/ ReleaseReads \/ ReleaseWrites
    PROVE  AllAgree'
<1>s. "all" \in Slots /\ "prefetch" \in Slots /\ "space" \in Slots
  BY DEF Slots
<1>1. CASE PurgeReadsRows("all")
  <2>1. /\ task["all"].phase = "purge" /\ Alters("all") /\ Reads
        /\ task'["all"].phase \in {"preload", "delete"}
        /\ \A i \in task'["all"].gone : ~table[i].starred
    BY <1>1, PurgeReadDoes DEF At
  <2>2. ~Renewing
    BY <1>s, <2>1, WorksAlone DEF Renewing, At, Slots
  <2>3. TaskAgrees("all")'
    BY <2>1 DEF TaskAgrees, At, Reads
  <2> QED BY <1>s, <2>1, <2>2, <2>3, ReadsCalmly
<1>2. CASE PurgeDeletesRows("all")
  <2>1. /\ task["all"].phase = "delete" /\ Deletes("all") /\ task'["all"].phase = "preload"
    BY <1>2, PurgeDeleteDoes DEF At
  <2>2. /\ DOMAIN table' = DOMAIN table \ task["all"].gone
        /\ \A i \in DOMAIN table' : table'[i] = table[i]
        /\ \A s \in Slots \ {"all"} : task'[s] = task[s]
        /\ UNCHANGED <<byFeed, listed, timer, writes, sweep, starWanted>>
    BY <2>1 DEF Deletes, Alters, store, flights, rowHistory
  <2>3. /\ Quiet /\ Settled /\ TaskAgrees("all")
        /\ \A s \in Slots \ {"all"} : task[s].phase = "idle"
    BY <1>s, <2>1, WorksAlone
  <2>4. DOMAIN table' = {} => ~starWanted'
    <3>1. CASE DOMAIN table = {}
      BY <2>2, <2>3, <3>1 DEF Settled
    <3>2. ASSUME NEW i \in DOMAIN table, i \in task["all"].gone PROVE ~starWanted'
      BY <2>1, <2>2, <2>3, <3>2 DEF Settled, TaskAgrees, At
    <3> QED BY <2>2, <3>1, <3>2
  <2>5. Quiet' /\ Settled' /\ Renewing'
    BY <2>1, <2>2, <2>3, <2>4 DEF Quiet, Settled, OneRow, Renewing, At
  <2>6. TaskAgrees("all")'
    BY <2>1 DEF TaskAgrees, At
  <2> QED BY <1>s, <2>2, <2>3, <2>5, <2>6, WorkAgrees
<1>3. CASE PrefetchReads
  <2>1. /\ task["prefetch"].phase = "fetch" /\ Alters("prefetch") /\ Reads
        /\ task'["prefetch"].phase \in {"idle", "extract"}
        /\ \A i \in DOMAIN task'["prefetch"].seen :
              i \in DOMAIN table /\ task'["prefetch"].seen[i] = table[i]
    BY <1>3, PrefetchReadDoes DEF At
  <2>2. ~Renewing
    BY <1>s, <2>1, WorksAlone DEF Renewing, At, Slots
  <2>3. TaskAgrees("prefetch")'
    BY <2>1 DEF TaskAgrees, At, Reads, Same
  <2> QED BY <1>s, <2>1, <2>2, <2>3, ReadsCalmly
<1>4. CASE ReleaseReads
  <2>1. /\ task["space"].phase = "release" /\ Alters("space") /\ Reads
        /\ task'["space"].phase \in {"idle", "clear"}
        /\ \A i \in DOMAIN task'["space"].seen :
              i \in DOMAIN table /\ task'["space"].seen[i] = table[i]
    BY <1>4, ReleaseReadDoes DEF At
  <2>2. ~Renewing
    BY <1>s, <2>1, WorksAlone DEF Renewing, At, Slots
  <2>3. TaskAgrees("space")'
    BY <2>1 DEF TaskAgrees, At, Reads, Same
  <2> QED BY <1>s, <2>1, <2>2, <2>3, ReadsCalmly
<1>5. CASE ReleaseWrites
  <2>1. task["space"].phase = "clear" /\ task'["space"].phase = "preload"
    BY <1>5, ReleaseWriteDoes DEF At
  <2>2. PICK rows \in Rows :
           /\ DOMAIN rows = DOMAIN task["space"].seen
           /\ \A i \in DOMAIN rows : Same(rows[i], task["space"].seen[i])
           /\ PutsRows("space", rows)
    BY <1>5, ReleaseWriteDoes
  <2>3. TaskAgrees("space") /\ ~Renewing
    BY <1>s, <2>1, WorksAlone DEF Renewing, At, Slots
  <2>4. \A i \in DOMAIN rows : i \in DOMAIN table /\ Same(rows[i], table[i])
    BY <2>1, <2>2, <2>3 DEF TaskAgrees, Same
  <2>5. TaskAgrees("space")'
    BY <2>1 DEF TaskAgrees, At
  <2> QED BY <1>s, <2>1, <2>2, <2>3, <2>4, <2>5, PutsCalmly
<1> QED BY <1>1, <1>2, <1>3, <1>4, <1>5

LEMMA PrefetchesCalmly ==
    ASSUME RowsShape, CalmInv, calm, NEW id \in Ids, PrefetchWrites(id)
    PROVE  AllAgree'
<1> DEFINE seen == task["prefetch"].seen
<1>s. "prefetch" \in Slots
  BY DEF Slots
<1>1. /\ task["prefetch"].phase = "extract" /\ id \in DOMAIN seen
      /\ task'["prefetch"].phase \in {"idle", "extract", "preload"}
      /\ \A i \in DOMAIN task'["prefetch"].seen :
            i \in DOMAIN seen /\ task'["prefetch"].seen[i] = seen[i]
  BY PrefetchWriteDoes DEF At
<1>2. TaskAgrees("prefetch") /\ ~Renewing
  BY <1>s, <1>1, WorksAlone DEF Renewing, At, Slots
<1>3. \A i \in DOMAIN seen : i \in DOMAIN table /\ Same(seen[i], table[i])
  BY <1>1, <1>2 DEF TaskAgrees
<1>4. CASE UNCHANGED <<table, store, flights, offline, expired, rowHistory>> /\ Alters("prefetch")
  <2>1. Reads
    BY <1>4 DEF Reads
  <2>2. TaskAgrees("prefetch")'
    BY <1>1, <1>3, <1>4 DEF TaskAgrees, At
  <2> QED BY <1>s, <1>1, <1>2, <1>4, <2>1, <2>2, ReadsCalmly
<1>5. ASSUME NEW article \in Article, Same(article, seen[id]),
             PutsRows("prefetch", Row(id, article)),
             DOMAIN Row(id, article) = {id}, Row(id, article)[id] = article
      PROVE  AllAgree'
  <2> DEFINE rows == Row(id, article)
  <2>1. PutsRows("prefetch", rows) /\ DOMAIN rows = {id} /\ rows[id] = article
    BY <1>5
  <2> HIDE DEF rows
  <2>2. \A i \in DOMAIN rows : i \in DOMAIN table /\ Same(rows[i], table[i])
    BY <1>1, <1>3, <1>5, <2>1 DEF Same
  <2>3. /\ DOMAIN table' = DOMAIN table
        /\ \A i \in DOMAIN table : Same(table'[i], table[i])
    BY <2>1, <2>2 DEF PutsRows, Same
  <2>4. TaskAgrees("prefetch")'
    BY <1>1, <1>3, <2>3 DEF TaskAgrees, At, Same
  <2> QED BY <1>s, <1>1, <1>2, <2>1, <2>2, <2>4, PutsCalmly
<1> QED BY <1>4, <1>5, PrefetchWriteDoes

LEMMA PreloadsCalmly ==
    ASSUME RowsShape, CalmInv, calm, NEW t \in {"all", "prefetch", "space", "view"},
           PreloadReads(t) \/ PreloadShows(t)
    PROVE  AllAgree'
<1>s. t \in Slots /\ "prefetch" \in Slots
  BY DEF Slots
<1>1. CASE PreloadReads(t)
  <2>1. /\ task[t].phase = "preload" /\ Alters(t) /\ Reads
        /\ task'[t].phase = "show" /\ task'[t].seen = table
    BY <1>1, PreloadReadDoes DEF At
  <2>2. Renewing => Renewing'
    <3>1. t # "all" => task["all"].phase = "idle"
      BY <1>s, <2>1, WorksAlone DEF Slots
    <3> QED BY <2>1, <3>1 DEF Renewing, At
  <2>3. TaskAgrees(t)'
    BY <2>1 DEF TaskAgrees, At, Reads, Same
  <2> QED BY <1>s, <2>1, <2>2, <2>3, ReadsCalmly
<1>2. CASE PreloadShows(t)
  <2>1. /\ task[t].phase = "show"
        /\ UNCHANGED <<table, timer, writes, sweep, starWanted>>
        /\ byFeed' = task[t].seen
        /\ listed' = IF t \in {"all", "view"} THEN task[t].seen ELSE listed
        /\ task'[t].phase = "idle"
        /\ \A s \in Slots \ {t} :
              \/ task'[s] = task[s]
              \/ t = "all" /\ s = "prefetch" /\ task[s] = NoTask /\ task'[s].phase = "fetch"
    BY <1>2, PreloadShowDoes DEF At, flights, rowHistory
  <2>2. /\ Quiet /\ Settled /\ TaskAgrees(t)
        /\ Renewing \/ Inside
        /\ \A s \in Slots \ {t} : task[s].phase = "idle"
    BY <1>s, <2>1, WorksAlone
  <2>3. t # "all" => Inside
    BY <1>s, <2>1, <2>2 DEF Renewing, At, Slots
  <2>4. \A i \in DOMAIN task[t].seen : i \in DOMAIN table /\ Same(task[t].seen[i], table[i])
    BY <2>1, <2>2 DEF TaskAgrees
  <2>5. Quiet' /\ Settled' /\ Inside'
    BY <2>1, <2>2, <2>3, <2>4 DEF Quiet, Settled, Inside, OneRow
  <2>6. task'["prefetch"].phase \in {"idle", "fetch"}
    BY <1>s, <2>1, <2>2
  <2>7. \A s \in Slots \ {"prefetch"} : task'[s].phase = "idle"
    BY <2>1, <2>2
  <2>8. TaskAgrees("prefetch")'
    BY <2>6 DEF TaskAgrees, At
  <2> QED BY <1>s, <2>5, <2>7, <2>8, WorkAgrees
<1> QED BY <1>1, <1>2

LEMMA CalmInitially ==
    ASSUME ArticleInit
    PROVE  CalmInv
<1> SUFFICES ASSUME calm PROVE AllAgree
  BY DEF CalmInv
<1>1. /\ table \in Rows /\ byFeed = table /\ listed = table /\ calm = (Cardinality(DOMAIN table) <= 1)
      /\ starWanted = \E i \in DOMAIN table : table[i].starred
      /\ timer = None /\ writes = <<>> /\ sweep = None
      /\ task = [t \in Slots |-> NoTask]
  BY InitRows DEF ArticleInit, RowsShape
<1>2. OneRow(table)
  BY <1>1, OneRowCounts
<1>3. \A i \in DOMAIN table : table[i].starred = starWanted
  <2> SUFFICES ASSUME NEW i \in DOMAIN table PROVE table[i].starred = starWanted
    OBVIOUS
  <2>1. table[i] \in Article /\ \A j \in DOMAIN table : j = i
    BY <1>1, <1>2, RowsHave DEF OneRow
  <2>2. table[i].starred \in BOOLEAN
    BY <2>1 DEF Article
  <2>3. starWanted <=> table[i].starred
    BY <1>1, <2>1
  <2>4. starWanted \in BOOLEAN
    BY InitRows DEF RowsShape
  <2> QED BY <2>2, <2>3, <2>4
<1>4. DOMAIN timer = {} /\ DOMAIN sweep = {} /\ writes = <<>>
  BY <1>1, NoRows
<1>5. \A t \in Slots : task[t].phase = "idle"
  BY <1>1, NoTaskIsTask
<1>6. Agreement
  <2>1. \A i : Intended(i) = table[i]
    BY <1>4 DEF Intended
  <2>2. DOMAIN table = {} => ~starWanted
    BY <1>1
  <2> QED BY <1>1, <1>2, <1>3, <1>4, <2>1, <2>2 DEF Agreement, Same
<1>7. Alone /\ \A t \in Slots : TaskAgrees(t)
  BY <1>4, <1>5 DEF Alone, TaskAgrees, At
<1> QED BY <1>6, <1>7 DEF AllAgree

\* The loss of the tab starts the history again.
LEMMA LosesCalmly ==
    ASSUME RowsShape, calm', TabIsLost
    PROVE  AllAgree'
<1>1. /\ table \in Rows /\ table' = table /\ byFeed' = table /\ listed' = table
      /\ Cardinality(DOMAIN table) <= 1
      /\ starWanted' = \E i \in DOMAIN table : table[i].starred
      /\ timer' = None /\ writes' = <<>> /\ sweep' = None
      /\ task' = [t \in Slots |-> NoTask]
  BY DEF TabIsLost, RowsShape
<1>2. OneRow(table)
  BY <1>1, OneRowCounts
<1>3. \A i \in DOMAIN table : table[i].starred = starWanted'
  <2> SUFFICES ASSUME NEW i \in DOMAIN table PROVE table[i].starred = starWanted'
    OBVIOUS
  <2>1. table[i] \in Article /\ \A j \in DOMAIN table : j = i
    BY <1>1, <1>2, RowsHave DEF OneRow
  <2>2. table[i].starred \in BOOLEAN
    BY <2>1 DEF Article
  <2>3. starWanted' <=> table[i].starred
    BY <1>1, <2>1
  <2>4. starWanted' \in BOOLEAN
    BY <1>1
  <2> QED BY <2>2, <2>3, <2>4
<1>4. Quiet'
  BY <1>1, NoRows DEF Quiet
<1>5. \A t \in Slots : task'[t].phase = "idle"
  BY <1>1, NoTaskIsTask
<1>6. Settled' /\ Inside'
  BY <1>1, <1>2, <1>3 DEF Settled, Inside, OneRow, Same
<1>7. "all" \in Slots /\ TaskAgrees("all")'
  BY <1>5 DEF TaskAgrees, At, Slots
<1> QED BY <1>4, <1>5, <1>6, <1>7, WorkAgrees

\* A step that changes nothing of it keeps the agreement.
LEMMA StillAgrees ==
    ASSUME CalmInv, UNCHANGED <<table, store, flights, task, starWanted, calm>>
    PROVE  CalmInv'
BY DEF CalmInv, AllAgree, Alone, NoneBut, Agreement, OneRow, Intended, Renewing, TaskAgrees,
       At, Same, store, flights

LEMMA CalmKept ==
    ASSUME RowsShape, KeeperInv, CalmInv, [ArticleNext]_rowVars
    PROVE  CalmInv'
<1>s. "all" \in Slots /\ "single" \in Slots /\ "prefetch" \in Slots /\ "space" \in Slots
  BY DEF Slots
<1>1. ASSUME NEW id \in Ids, OpenArticle(id) \/ MarkAsRead(id) \/ ToggleStar(id) PROVE CalmInv'
  BY <1>1, OpensCalmly, SwipesCalmly, StarsCalmly DEF CalmInv
<1>2. ASSUME NEW id \in Ids, SweepWrites(id) \/ PrefetchWrites(id) PROVE CalmInv'
  <2>1. calm' = calm
    BY <1>2, PrefetchWriteDoes DEF SweepWrites, rowHistory, PutsRows
  <2> QED BY <1>2, <2>1, SweepsCalmly, PrefetchesCalmly DEF CalmInv
<1>3. ASSUME LeaveArticle \/ MarkAllAsRead PROVE CalmInv'
  BY <1>3, LeavesCalmly, MarksAllCalmly DEF CalmInv
<1>4. ASSUME TimerFires PROVE CalmInv'
  BY <1>4, TimerFiresCalmly DEF CalmInv
<1>5. ASSUME WriteLands PROVE CalmInv'
  <2>1. calm' = calm
    BY <1>5 DEF WriteLands
  <2> QED BY <1>5, <2>1, LandsCalmly DEF CalmInv
<1>6. ASSUME NEW ids \in SUBSET Ids, MarkUnread(ids) PROVE CalmInv'
  BY <1>6, UnmarksCalmly DEF CalmInv
<1>7. ASSUME TogglePrefetch PROVE CalmInv'
  <2>1. /\ Begins /\ UNCHANGED <<table, store, flights, starWanted>>
        /\ Goes("prefetch", "fetch") \/ UNCHANGED task
    BY <1>7 DEF TogglePrefetch
  <2> QED BY <1>s, <2>1, StartsCalmly DEF CalmInv
<1>8. ASSUME StartRelease PROVE CalmInv'
  <2>1. /\ Begins /\ UNCHANGED <<table, store, flights, starWanted>>
        /\ Goes("space", "release")
    BY <1>8 DEF StartRelease
  <2> QED BY <1>s, <2>1, StartsCalmly DEF CalmInv
<1>9. ASSUME NEW t \in {"all", "single"}, StartRefresh(t) PROVE CalmInv'
  <2>1. /\ Begins /\ UNCHANGED <<table, store, flights, starWanted>>
        /\ Goes(t, "lookup") /\ t \in Slots
    BY <1>s, <1>9 DEF StartRefresh
  <2> QED BY <2>1, StartsCalmly DEF CalmInv
<1>10. ASSUME NEW t \in {"all", "single"},
              \/ LooksUpRow(t) \/ AddsRow(t) \/ UpdatesRow(t)
              \/ DedupeReads(t) \/ DedupePuts(t) \/ DedupeDeletes(t)
       PROVE  CalmInv'
  <2>1. calm' = calm
    BY <1>10 DEF LooksUpRow, AddsRow, UpdatesRow, DedupeReads, DedupePuts, DedupeDeletes, rowHistory
  <2> QED BY <1>10, <2>1, RefreshesCalmly DEF CalmInv
<1>11. ASSUME \/ PurgeReadsRows("all") \/ PurgeDeletesRows("all")
              \/ PrefetchReads \/ ReleaseReads \/ ReleaseWrites
       PROVE  CalmInv'
  <2>1. calm' = calm
    BY <1>11 DEF PurgeReadsRows, PurgeDeletesRows, PrefetchReads, ReleaseReads, ReleaseWrites, rowHistory
  <2> QED BY <1>11, <2>1, TidiesCalmly DEF CalmInv
<1>12. ASSUME NEW t \in {"all", "prefetch", "space", "view"}, PreloadReads(t) \/ PreloadShows(t)
       PROVE  CalmInv'
  <2>1. calm' = calm
    BY <1>12 DEF PreloadReads, PreloadShows, rowHistory
  <2> QED BY <1>12, <2>1, PreloadsCalmly DEF CalmInv
<1>13. ASSUME GrowsOld PROVE CalmInv'
  BY <1>13, StillAgrees DEF GrowsOld, rowHistory
<1>14. ASSUME TabIsLost PROVE CalmInv'
  BY <1>14, LosesCalmly DEF CalmInv
<1>15. ASSUME UNCHANGED rowVars PROVE CalmInv'
  BY <1>15, StillAgrees DEF rowVars, rowHistory
<1> QED BY <1>1, <1>2, <1>3, <1>4, <1>5, <1>6, <1>7, <1>8, <1>9, <1>10, <1>11, <1>12, <1>13,
           <1>14, <1>15 DEF ArticleNext

-----------------------------------------------------------------------------
(* The theorems.                                                           *)

\* Whatever the user, the refreshes, the prefetch, the purge and the release do to the
\* rows of an item, the invariant above holds.
THEOREM RowsInvariant == ArticleSpec => []RowsInv
<1>1. ArticleInit => RowsInv
  BY InitRows, TwinsInitially, CalmInitially DEF RowsInv, Twins
<1>2. RowsInv /\ [ArticleNext]_rowVars => RowsInv'
  BY ShapeKept, TwinsKept, CalmKept DEF RowsInv, Twins
<1> QED BY <1>1, <1>2, PTL DEF ArticleSpec

\* Two refreshes may store an item twice, but when both are past their sweep for twins
\* the item has one row again, unless a late write has brought a deleted row back.
THEOREM TwinsDoNotStay == ArticleSpec => []TwinsAreCollapsed
<1>1. RowsInv => TwinsAreCollapsed
  <2> SUFFICES ASSUME RowsInv,
                      \A t \in {"all", "single"} : task[t].phase \notin
                          {"lookup", "add", "update", "dedupe", "collapse", "drop"}
               PROVE  revived \/ Cardinality(DOMAIN table) <= 1
    BY DEF TwinsAreCollapsed
  <2>1. \A t \in {"all", "single"} : ~WillCollapse(t)
    BY DEF WillCollapse, At
  <2>2. revived \/ OneRow(table)
    BY <2>1 DEF RowsInv, TwinsInv
  <2>3. table \in Rows
    BY DEF RowsInv, RowsShape
  <2> QED BY <2>2, <2>3, OneRowCounts
<1> QED BY <1>1, RowsInvariant, PTL

\* A sweep for twins leaves a row of the item, even when two of them work on the same
\* rows and neither knows of the other.
THEOREM DedupeSparesTheItem == ArticleSpec => DedupeLeavesOne
<1>1. RowsInv /\ [ArticleNext]_rowVars =>
         [(\E t \in Slots : DedupeDeletes(t)) /\ ~expired /\ table # None => table' # None]_rowVars
  <2> SUFFICES ASSUME RowsInv, NEW t \in Slots, DedupeDeletes(t), ~expired
               PROVE  table' # None
    OBVIOUS
  <2>1. At(t, "drop") /\ table' = Without(table, task[t].gone)
    BY DEF DedupeDeletes
  <2>2. PICK i \in DOMAIN table : \A g \in task[t].gone : i < g
    BY <2>1 DEF RowsInv, KeeperInv
  <2>3. table \in Rows /\ DOMAIN table \subseteq Nat
    BY RowsHave, ArticleAssumption DEF RowsInv, RowsShape
  <2>4. i \notin task[t].gone
    BY <2>2, <2>3
  <2>5. i \in DOMAIN Without(table, task[t].gone)
    BY <2>2, <2>4 DEF Without
  <2> QED BY <2>1, <2>5, NoRows
<1> QED BY <1>1, RowsInvariant, PTL DEF ArticleSpec, DedupeLeavesOne

\* What the user does while nothing is under way is never undone by the background work.
THEOREM CalmActsAreKept == ArticleSpec => []CalmActsStick
<1>1. RowsInv => CalmActsStick
  <2> SUFFICES ASSUME RowsInv, calm, AtRest, NEW i \in DOMAIN table
               PROVE  /\ table[i].starred = starWanted
                      /\ i \in DOMAIN byFeed => /\ byFeed[i].starred = table[i].starred
                                                /\ byFeed[i].read = table[i].read
    BY DEF CalmActsStick
  <2>1. Agreement /\ writes = <<>> /\ DOMAIN sweep = {}
    BY NoRows DEF RowsInv, CalmInv, AllAgree, AtRest
  <2>2. Intended(i) = table[i]
    BY <2>1 DEF Intended
  <2> QED BY <2>1, <2>2 DEF Agreement, Same
<1> QED BY <1>1, RowsInvariant, PTL

-----------------------------------------------------------------------------
(* Ids: no row, no copy of one and no write is of an id that was never      *)
(* given, so a row that is added gets one that nothing else will write to.  *)

IdsInv ==
    /\ DOMAIN table \subseteq usedIds /\ DOMAIN byFeed \subseteq usedIds
    /\ DOMAIN listed \subseteq usedIds /\ DOMAIN sweep \subseteq usedIds
    /\ DOMAIN opened \subseteq usedIds /\ DOMAIN timer \subseteq DOMAIN opened /\ OneRow(opened)
    /\ \A n \in DOMAIN writes : DOMAIN writes[n] \subseteq usedIds
    /\ \A t \in Slots : DOMAIN task[t].seen \subseteq usedIds
    /\ moves \in 0..MaxMoves

\* The bound only grows to its limit.
LEMMA MovesCount ==
    ASSUME moves \in 0..MaxMoves, Moves
    PROVE  moves' \in 0..MaxMoves
BY ArticleAssumption DEF Moves

\* One more write.
LEMMA WritesGrow ==
    ASSUME RowsShape, IdsInv, NEW rows \in Rows, DOMAIN rows \subseteq usedIds,
           writes' = Append(writes, rows), usedIds' = usedIds
    PROVE  \A n \in DOMAIN writes' : DOMAIN writes'[n] \subseteq usedIds'
<1>1. writes \in Seq(Rows)
  BY DEF RowsShape
<1>2. \A n \in DOMAIN writes' : writes'[n] = rows \/ (n \in DOMAIN writes /\ writes'[n] = writes[n])
  BY <1>1
<1> QED BY <1>2 DEF IdsInv

\* A task takes a step: what it writes and what it holds has an id.
LEMMA TaskKeepsIds ==
    ASSUME IdsInv, NEW t \in Slots, Alters(t), UNCHANGED <<store, flights>>,
           usedIds \subseteq usedIds', DOMAIN table' \subseteq usedIds',
           DOMAIN task'[t].seen \subseteq usedIds', moves' \in 0..MaxMoves
    PROVE  IdsInv'
<1>1. ASSUME NEW s \in Slots PROVE DOMAIN task'[s].seen \subseteq usedIds'
  <2>1. CASE s = t
    BY <2>1
  <2>2. CASE s # t
    BY <2>2 DEF Alters, IdsInv
  <2> QED BY <2>1, <2>2
<1>2. \A n \in DOMAIN writes' : DOMAIN writes'[n] \subseteq usedIds'
  BY DEF IdsInv, flights
<1> QED BY <1>1, <1>2 DEF IdsInv, OneRow, store, flights

\* What leaving an article writes.
LEMMA FlushHasIds ==
    ASSUME RowsShape, IdsInv, Flush, usedIds' = usedIds
    PROVE  /\ DOMAIN byFeed' = DOMAIN byFeed
           /\ \A n \in DOMAIN writes' : DOMAIN writes'[n] \subseteq usedIds'
<1>1. opened \in Rows /\ byFeed \in Rows /\ writes \in Seq(Rows)
  BY DEF RowsShape
<1>2. Flushed \in Rows
  BY <1>1, FlushedIsRows
<1>3. DOMAIN Flushed \subseteq DOMAIN opened
  <2> DEFINE S == {j \in DOMAIN opened : ~opened[j].read}
  <2> DEFINE rows == [i \in S |-> opened[i]]
  <2>1. rows \in Rows /\ DOMAIN rows \subseteq DOMAIN opened
    BY <1>1, UnreadIsRows
  <2>2. Flushed = IF timer # None THEN MarkedRead(rows) ELSE None
    BY DEF Flushed
  <2> HIDE DEF rows
  <2> QED BY <2>1, <2>2, MarkedReadIsRows, NoRows
<1>4. DOMAIN byFeed' = DOMAIN byFeed
  BY <1>1, <1>2, ShowsIsRows DEF Flush
<1>5. CASE writes' = writes
  BY <1>4, <1>5 DEF IdsInv
<1>6. CASE writes' = Append(writes, Flushed)
  <2>1. DOMAIN Flushed \subseteq usedIds
    BY <1>3 DEF IdsInv
  <2> QED BY <1>2, <1>4, <1>6, <2>1, WritesGrow
<1> QED BY <1>4, <1>5, <1>6 DEF Flush

\* What the user does.
LEMMA ActsKeepIds ==
    ASSUME RowsShape, IdsInv
    PROVE  /\ \A id \in Ids : OpenArticle(id) \/ MarkAsRead(id) \/ ToggleStar(id) => IdsInv'
           /\ LeaveArticle \/ TimerFires \/ MarkAllAsRead => IdsInv'
           /\ \A ids \in SUBSET Ids : MarkUnread(ids) => IdsInv'
<1>0. /\ table \in Rows /\ byFeed \in Rows /\ listed \in Rows /\ opened \in Rows /\ timer \in Rows
      /\ sweep \in Rows /\ writes \in Seq(Rows) /\ task \in [Slots -> Task]
  BY DEF RowsShape
<1>1. ASSUME NEW id \in Ids, OpenArticle(id) PROVE IdsInv'
  <2>1. PICK rows : rows = Only(listed, {id})
    OBVIOUS
  <2>2. rows \in Rows /\ DOMAIN rows \subseteq DOMAIN listed /\ OneRow(rows)
    <3>1. Only(listed, {id}) \in Rows /\ DOMAIN Only(listed, {id}) = DOMAIN listed \cap {id}
      BY <1>0, OnlyIsRows
    <3> QED BY <2>1, <3>1 DEF OneRow
  <2>3. /\ Flush /\ Select(rows) /\ opened' = rows /\ Moves
        /\ UNCHANGED <<table, sweep, task, usedIds>>
    BY <1>1, <2>1 DEF OpenArticle, Select
  <2>4. DOMAIN timer' \subseteq DOMAIN opened'
    BY <2>2, <2>3, SelectKeepsShape
  <2>5. DOMAIN listed' = DOMAIN listed
    BY <1>0, <1>1, FlushedIsRows, ShowsIsRows DEF OpenArticle
  <2>6. /\ DOMAIN byFeed' = DOMAIN byFeed
        /\ \A n \in DOMAIN writes' : DOMAIN writes'[n] \subseteq usedIds'
    BY <2>3, FlushHasIds
  <2>7. moves' \in 0..MaxMoves
    BY <2>3, MovesCount DEF IdsInv
  <2> QED BY <2>2, <2>3, <2>4, <2>5, <2>6, <2>7 DEF IdsInv, OneRow
<1>2. ASSUME NEW id \in Ids, MarkAsRead(id) PROVE IdsInv'
  <2>1. PICK updated : updated = MarkedRead(Only(listed, {id}))
    OBVIOUS
  <2>2. updated \in Rows /\ DOMAIN updated \subseteq usedIds
    <3>1. Only(listed, {id}) \in Rows /\ DOMAIN Only(listed, {id}) = DOMAIN listed \cap {id}
      BY <1>0, OnlyIsRows
    <3> QED BY <2>1, <3>1, MarkedReadIsRows DEF IdsInv
  <2>3. /\ ApplyUpdate(updated) /\ writes' = Append(writes, updated) /\ Moves
        /\ UNCHANGED <<table, opened, timer, sweep, task, usedIds>>
    BY <1>2, <2>1 DEF MarkAsRead
  <2>4. DOMAIN byFeed' = DOMAIN byFeed /\ DOMAIN listed' = DOMAIN listed
    BY <1>0, <2>2, <2>3, UpdateKeepsShape
  <2>5. \A n \in DOMAIN writes' : DOMAIN writes'[n] \subseteq usedIds'
    BY <2>2, <2>3, WritesGrow
  <2>6. moves' \in 0..MaxMoves
    BY <2>3, MovesCount DEF IdsInv
  <2> QED BY <2>3, <2>4, <2>5, <2>6 DEF IdsInv, OneRow
<1>3. ASSUME NEW id \in Ids, ToggleStar(id) PROVE IdsInv'
  <2>1. PICK updated : updated = Row(id, Toggled(id))
    OBVIOUS
  <2>2. id \in DOMAIN byFeed /\ updated \in Rows /\ DOMAIN updated = {id}
    <3>1. id \in DOMAIN byFeed /\ byFeed[id] \in Article
      BY <1>0, <1>3, RowsHave DEF ToggleStar
    <3>2. Toggled(id) \in Article
      BY <3>1 DEF Toggled, Article
    <3> QED BY <2>1, <3>1, <3>2, RowIsRows
  <2>3. /\ ApplyUpdate(updated) /\ writes' = Append(writes, updated) /\ Moves
        /\ opened' = Shows(opened, updated)
        /\ UNCHANGED <<table, timer, sweep, task, usedIds>>
    BY <1>3, <2>1 DEF ToggleStar
  <2>4. DOMAIN byFeed' = DOMAIN byFeed /\ DOMAIN listed' = DOMAIN listed
    BY <1>0, <2>2, <2>3, UpdateKeepsShape
  <2>5. DOMAIN opened' = DOMAIN opened
    BY <1>0, <2>2, <2>3, ShowsIsRows
  <2>6. \A n \in DOMAIN writes' : DOMAIN writes'[n] \subseteq usedIds'
    BY <2>2, <2>3, WritesGrow DEF IdsInv
  <2>7. moves' \in 0..MaxMoves
    BY <2>3, MovesCount DEF IdsInv
  <2> QED BY <2>3, <2>4, <2>5, <2>6, <2>7 DEF IdsInv, OneRow
<1>4. ASSUME LeaveArticle PROVE IdsInv'
  <2>1. /\ Flush /\ Select(None) /\ opened' = None /\ listed' = byFeed'
        /\ Goes("view", "preload") /\ UNCHANGED <<table, sweep, usedIds, moves>>
    BY <1>4 DEF LeaveArticle, Select
  <2>2. DOMAIN timer' \subseteq {} /\ DOMAIN opened' = {}
    BY <2>1, NoRows, SelectKeepsShape
  <2>3. /\ DOMAIN byFeed' = DOMAIN byFeed
        /\ \A n \in DOMAIN writes' : DOMAIN writes'[n] \subseteq usedIds'
    BY <2>1, FlushHasIds
  <2>4. "view" \in Slots /\ "preload" \in Phases
    BY DEF Slots, Phases
  <2>5. task'["view"].seen = None /\ \A s \in Slots \ {"view"} : task'[s] = task[s]
    BY <1>0, <2>1, <2>4, GoesMoves
  <2>6. ASSUME NEW s \in Slots PROVE DOMAIN task'[s].seen \subseteq usedIds'
    BY <2>1, <2>5, NoRows DEF IdsInv
  <2> QED BY <2>1, <2>2, <2>3, <2>6 DEF IdsInv, OneRow
<1>5. ASSUME TimerFires PROVE IdsInv'
  <2>1. PICK updated : updated = MarkedRead(timer)
    OBVIOUS
  <2>2. updated \in Rows /\ DOMAIN updated = DOMAIN timer
    BY <1>0, <2>1, MarkedReadIsRows
  <2>3. /\ ApplyUpdate(updated) /\ writes' = Append(writes, updated)
        /\ opened' = updated /\ timer' = None
        /\ UNCHANGED <<table, sweep, task, usedIds, moves>>
    BY <1>5, <2>1 DEF TimerFires
  <2>4. DOMAIN byFeed' = DOMAIN byFeed /\ DOMAIN listed' = DOMAIN listed
    BY <1>0, <2>2, <2>3, UpdateKeepsShape
  <2>5. \A n \in DOMAIN writes' : DOMAIN writes'[n] \subseteq usedIds'
    BY <2>2, <2>3, WritesGrow DEF IdsInv
  <2> QED BY <2>2, <2>3, <2>4, <2>5, NoRows DEF IdsInv, OneRow
<1>6. ASSUME MarkAllAsRead PROVE IdsInv'
  <2>1. PICK unread \in SUBSET DOMAIN listed :
           /\ byFeed' = [i \in DOMAIN byFeed |-> [byFeed[i] EXCEPT !.read = @ \/ i \in unread]]
           /\ listed' = MarkedRead(listed)
           /\ sweep' = MarkedRead(Only(listed, unread))
    BY <1>6 DEF MarkAllAsRead
  <2>2. Moves /\ UNCHANGED <<table, opened, timer, writes, task, usedIds>>
    BY <1>6 DEF MarkAllAsRead
  <2>3. DOMAIN byFeed' = DOMAIN byFeed /\ DOMAIN listed' = DOMAIN listed
    BY <1>0, <2>1, MarkedReadIsRows
  <2>4. DOMAIN sweep' \subseteq DOMAIN listed
    <3>1. Only(listed, unread) \in Rows /\ DOMAIN Only(listed, unread) = DOMAIN listed \cap unread
      BY <1>0, OnlyIsRows
    <3> QED BY <2>1, <3>1, MarkedReadIsRows
  <2>5. moves' \in 0..MaxMoves
    BY <2>2, MovesCount DEF IdsInv
  <2> QED BY <2>2, <2>3, <2>4, <2>5 DEF IdsInv, OneRow
<1>7. ASSUME NEW ids \in SUBSET Ids, MarkUnread(ids) PROVE IdsInv'
  <2>1. PICK restored :
           /\ restored = [i \in {j \in ids \cap DOMAIN byFeed : byFeed[j].read} |->
                             [byFeed[i] EXCEPT !.read = FALSE]]
           /\ byFeed' = Shows(byFeed, restored)
           /\ listed' = [i \in DOMAIN listed |->
                            [listed[i] EXCEPT !.read = @ /\ i \notin DOMAIN restored]]
           /\ sweep' = restored
    BY <1>7 DEF MarkUnread
  <2>2. Moves /\ UNCHANGED <<table, opened, timer, writes, task, usedIds>>
    BY <1>7 DEF MarkUnread
  <2>3. DOMAIN restored \subseteq DOMAIN byFeed /\ DOMAIN listed' = DOMAIN listed
    BY <2>1
  <2>4. DOMAIN byFeed' = DOMAIN byFeed
    BY <2>1 DEF Shows
  <2>5. moves' \in 0..MaxMoves
    BY <2>2, MovesCount DEF IdsInv
  <2> QED BY <2>1, <2>2, <2>3, <2>4, <2>5 DEF IdsInv, OneRow
<1> QED BY <1>1, <1>2, <1>3, <1>4, <1>5, <1>6, <1>7

\* Writes that reach the table are of rows that had an id when they began.
LEMMA WritesKeepIds ==
    ASSUME RowsShape, IdsInv
    PROVE  /\ WriteLands => IdsInv'
           /\ \A id \in Ids : SweepWrites(id) => IdsInv'
<1>0. table \in Rows /\ sweep \in Rows /\ writes \in Seq(Rows) /\ revived \in BOOLEAN
  BY DEF RowsShape
<1>1. ASSUME WriteLands PROVE IdsInv'
  <2>1. /\ writes # <<>> /\ Put(Head(writes)) /\ writes' = Tail(writes)
        /\ UNCHANGED <<store, sweep, task, usedIds, moves>>
    BY <1>1 DEF WriteLands
  <2>2. /\ 1 \in DOMAIN writes /\ Head(writes) = writes[1] /\ Head(writes) \in Rows
        /\ \A n \in DOMAIN writes' : n + 1 \in DOMAIN writes /\ writes'[n] = writes[n + 1]
    BY <1>0, <2>1
  <2>3. DOMAIN table' = DOMAIN Head(writes) \cup DOMAIN table
    BY <1>0, <2>1, <2>2, PutMoves
  <2>4. \A n \in DOMAIN writes' : DOMAIN writes'[n] \subseteq usedIds'
    BY <2>1, <2>2 DEF IdsInv
  <2> QED BY <2>1, <2>2, <2>3, <2>4 DEF IdsInv, OneRow, store
<1>2. ASSUME NEW id \in Ids, SweepWrites(id) PROVE IdsInv'
  <2>1. /\ Put(Only(sweep, {id})) /\ sweep' = Without(sweep, {id})
        /\ UNCHANGED <<store, writes, task, usedIds, moves>>
    BY <1>2 DEF SweepWrites
  <2>2. /\ Only(sweep, {id}) \in Rows /\ DOMAIN Only(sweep, {id}) \subseteq DOMAIN sweep
        /\ DOMAIN sweep' \subseteq DOMAIN sweep
    <3>1. Only(sweep, {id}) \in Rows /\ DOMAIN Only(sweep, {id}) = DOMAIN sweep \cap {id}
      BY <1>0, OnlyIsRows
    <3>2. DOMAIN Without(sweep, {id}) = DOMAIN sweep \ {id}
      BY <1>0, WithoutIsRows
    <3> QED BY <2>1, <3>1, <3>2
  <2>3. DOMAIN table' = DOMAIN Only(sweep, {id}) \cup DOMAIN table
    BY <1>0, <2>1, <2>2, PutMoves
  <2> QED BY <2>1, <2>2, <2>3 DEF IdsInv, OneRow, store
<1> QED BY <1>1, <1>2

\* What begins holds nothing; the boot shows what the table has.
LEMMA StartsKeepIds ==
    ASSUME RowsShape, IdsInv
    PROVE  /\ TogglePrefetch \/ StartRelease \/ GrowsOld \/ TabIsLost => IdsInv'
           /\ \A t \in {"all", "single"} : StartRefresh(t) => IdsInv'
<1>0. /\ task \in [Slots -> Task]
      /\ {"all", "single", "prefetch", "space", "view"} = Slots
      /\ {"fetch", "release", "lookup"} \subseteq Phases
  BY DEF RowsShape, Slots, Phases
<1>1. ASSUME NEW t \in Slots, NEW phase \in Phases, Goes(t, phase), Moves,
             UNCHANGED <<table, store, flights, usedIds>>
      PROVE  IdsInv'
  <2>1. /\ Alters(t) /\ task'[t].seen = None
    BY <1>0, <1>1, GoesMoves DEF Alters
  <2>2. moves' \in 0..MaxMoves
    BY <1>1, MovesCount DEF IdsInv
  <2>3. DOMAIN task'[t].seen \subseteq usedIds' /\ DOMAIN table' \subseteq usedIds'
    BY <1>1, <2>1, NoRows DEF IdsInv
  <2> QED BY <1>1, <2>1, <2>2, <2>3, TaskKeepsIds
<1>2. ASSUME TogglePrefetch PROVE IdsInv'
  <2>1. CASE Goes("prefetch", "fetch")
    BY <1>0, <1>1, <1>2, <2>1 DEF TogglePrefetch
  <2>2. CASE UNCHANGED task
    <3>1. moves' \in 0..MaxMoves
      BY <1>2, MovesCount DEF TogglePrefetch, IdsInv
    <3> QED BY <1>2, <2>2, <3>1 DEF TogglePrefetch, IdsInv, OneRow, store, flights
  <2> QED BY <1>2, <2>1, <2>2 DEF TogglePrefetch
<1>3. ASSUME StartRelease PROVE IdsInv'
  BY <1>0, <1>1, <1>3 DEF StartRelease
<1>4. ASSUME NEW t \in {"all", "single"}, StartRefresh(t) PROVE IdsInv'
  BY <1>0, <1>1, <1>4 DEF StartRefresh
<1>5. ASSUME GrowsOld PROVE IdsInv'
  BY <1>5 DEF GrowsOld, IdsInv, OneRow, store, flights
<1>6. ASSUME TabIsLost PROVE IdsInv'
  <2>1. /\ byFeed' = table /\ listed' = table /\ opened' = None /\ timer' = None
        /\ writes' = <<>> /\ sweep' = None /\ UNCHANGED <<table, usedIds>> /\ Moves
        /\ \A t \in Slots : task'[t] = NoTask
    BY <1>6 DEF TabIsLost
  <2>2. moves' \in 0..MaxMoves
    BY <2>1, MovesCount DEF IdsInv
  <2>3. \A t \in Slots : task'[t].seen = None
    BY <2>1, NoTaskIsTask
  <2> QED BY <2>1, <2>2, <2>3, NoRows DEF IdsInv, OneRow
<1> QED BY <1>2, <1>3, <1>4, <1>5, <1>6

\* What the tasks do.
LEMMA TasksKeepIds ==
    ASSUME RowsShape, KeeperInv, IdsInv
    PROVE  /\ \A t \in {"all", "single"} :
                 LooksUpRow(t) \/ AddsRow(t) \/ UpdatesRow(t) \/ DedupeReads(t) \/ DedupePuts(t)
                 \/ DedupeDeletes(t) => IdsInv'
           /\ PurgeReadsRows("all") \/ PurgeDeletesRows("all") => IdsInv'
           /\ \A t \in {"all", "prefetch", "space", "view"} : PreloadReads(t) => IdsInv'
           /\ PrefetchReads \/ ReleaseReads \/ ReleaseWrites => IdsInv'
           /\ \A id \in Ids : PrefetchWrites(id) => IdsInv'
<1>0. /\ {"all", "single", "prefetch", "space", "view"} = Slots
      /\ DOMAIN table \subseteq usedIds /\ moves \in 0..MaxMoves
      /\ \A t \in Slots : task[t].seen \in Rows /\ DOMAIN task[t].seen \subseteq usedIds
      /\ DOMAIN None = {}
  BY TaskHas, NoRows DEF Slots, IdsInv
<1>1. ASSUME NEW t \in Slots, Reads, Alters(t), UNCHANGED <<usedIds, moves>>,
             \A i \in DOMAIN task'[t].seen : i \in DOMAIN table
      PROVE  IdsInv'
  BY <1>0, <1>1, TaskKeepsIds DEF Reads
<1>2. ASSUME NEW t \in Slots, NEW rows, DOMAIN rows \subseteq usedIds, PutsRows(t, rows),
             UNCHANGED <<usedIds, moves>>, \A i \in DOMAIN task'[t].seen : i \in usedIds
      PROVE  IdsInv'
  BY <1>0, <1>2, TaskKeepsIds DEF PutsRows
<1>3. ASSUME NEW t \in Slots, Deletes(t), UNCHANGED <<usedIds, moves>>, task'[t].seen = None
      PROVE  IdsInv'
  BY <1>0, <1>3, TaskKeepsIds DEF Deletes
<1>4. ASSUME NEW t \in {"all", "single"}, LooksUpRow(t) PROVE IdsInv'
  BY <1>0, <1>1, <1>4, LookUpDoes DEF LooksUpRow
<1>5. ASSUME NEW t \in {"all", "single"}, AddsRow(t) PROVE IdsInv'
  <2>1. PICK id \in Ids : /\ table' = Over(Row(id, Fresh), table)
                          /\ usedIds' = usedIds \cup {id}
    BY <1>5 DEF AddsRow
  <2>2. Fresh \in Article
    BY DEF Fresh, Article
  <2>3. DOMAIN table' = {id} \cup DOMAIN table
    <3>1. Row(id, Fresh) \in Rows /\ DOMAIN Row(id, Fresh) = {id}
      BY <2>2, RowIsRows
    <3>2. DOMAIN Over(Row(id, Fresh), table) = {id} \cup DOMAIN table
      BY <3>1, OverIsRows DEF RowsShape
    <3> QED BY <2>1, <3>2
  <2>4. Alters(t) /\ UNCHANGED <<store, flights>> /\ DOMAIN task'[t].seen = {}
    BY <1>5, AddDoes
  <2>5. moves' = moves
    BY <1>5 DEF AddsRow
  <2> QED BY <1>0, <2>1, <2>3, <2>4, <2>5, TaskKeepsIds
<1>6. ASSUME NEW t \in {"all", "single"}, UpdatesRow(t) PROVE IdsInv'
  BY <1>0, <1>2, <1>6, UpdateDoes DEF UpdatesRow
<1>7. ASSUME NEW t \in {"all", "single"}, DedupeReads(t) PROVE IdsInv'
  BY <1>0, <1>1, <1>7, DedupeReadDoes DEF DedupeReads
<1>8. ASSUME NEW t \in {"all", "single"}, DedupePuts(t) PROVE IdsInv'
  <2>1. PICK keeper \in DOMAIN task[t].seen :
           keeper \in Ids /\ PutsRows(t, Row(keeper, Merged(task[t].seen)))
    BY <1>8, DedupePutDoes
  <2>2. task'[t].seen = None /\ UNCHANGED <<usedIds, moves>>
    BY <1>8, DedupePutDoes DEF DedupePuts
  <2>3. DOMAIN Row(keeper, Merged(task[t].seen)) \subseteq usedIds
    BY <1>0, <2>1 DEF Row
  <2> QED BY <1>0, <1>2, <2>1, <2>2, <2>3
<1>9. ASSUME NEW t \in {"all", "single"}, DedupeDeletes(t) PROVE IdsInv'
  BY <1>0, <1>3, <1>9, DedupeDeleteDoes DEF DedupeDeletes
<1>10. ASSUME PurgeReadsRows("all") PROVE IdsInv'
  BY <1>0, <1>1, <1>10, PurgeReadDoes DEF PurgeReadsRows
<1>11. ASSUME PurgeDeletesRows("all") PROVE IdsInv'
  BY <1>0, <1>3, <1>11, PurgeDeleteDoes DEF PurgeDeletesRows
<1>12. ASSUME NEW t \in {"all", "prefetch", "space", "view"}, PreloadReads(t) PROVE IdsInv'
  BY <1>0, <1>1, <1>12, PreloadReadDoes DEF PreloadReads
<1>13. ASSUME PrefetchReads PROVE IdsInv'
  BY <1>0, <1>1, <1>13, PrefetchReadDoes DEF PrefetchReads
<1>14. ASSUME ReleaseReads PROVE IdsInv'
  BY <1>0, <1>1, <1>14, ReleaseReadDoes DEF ReleaseReads
<1>15. ASSUME ReleaseWrites PROVE IdsInv'
  <2>1. PICK rows \in Rows : DOMAIN rows = DOMAIN task["space"].seen /\ PutsRows("space", rows)
    BY <1>15, ReleaseWriteDoes
  <2>2. task'["space"].seen = None /\ UNCHANGED <<usedIds, moves>>
    BY <1>15, ReleaseWriteDoes DEF ReleaseWrites
  <2> QED BY <1>0, <1>2, <2>1, <2>2
<1>16. ASSUME NEW id \in Ids, PrefetchWrites(id) PROVE IdsInv'
  <2>1. /\ id \in DOMAIN task["prefetch"].seen
        /\ \A i \in DOMAIN task'["prefetch"].seen : i \in DOMAIN task["prefetch"].seen
        /\ UNCHANGED <<usedIds, moves>>
    BY <1>16, PrefetchWriteDoes DEF PrefetchWrites
  <2>2. CASE UNCHANGED <<table, store, flights>> /\ Alters("prefetch")
    BY <1>0, <2>1, <2>2, TaskKeepsIds
  <2>3. ASSUME NEW article, PutsRows("prefetch", Row(id, article)), DOMAIN Row(id, article) = {id}
        PROVE  IdsInv'
    BY <1>0, <1>2, <2>1, <2>3
  <2> QED BY <1>16, <2>2, <2>3, PrefetchWriteDoes
<1> QED BY <1>4, <1>5, <1>6, <1>7, <1>8, <1>9, <1>10, <1>11, <1>12, <1>13, <1>14, <1>15, <1>16

\* What is shown was read from the table.
LEMMA ShowsKeepIds ==
    ASSUME RowsShape, IdsInv, NEW t \in {"all", "prefetch", "space", "view"}, PreloadShows(t)
    PROVE  IdsInv'
<1>1. /\ {"all", "single", "prefetch", "space", "view"} = Slots
      /\ task \in [Slots -> Task]
  BY DEF Slots, RowsShape
<1>2. /\ byFeed' = task[t].seen /\ listed' \in {task[t].seen, listed}
      /\ UNCHANGED <<table, timer, flights, usedIds, moves>>
      /\ DOMAIN opened' = DOMAIN opened
  BY DEF PreloadShows
<1>3. ASSUME NEW s \in Slots PROVE DOMAIN task'[s].seen \subseteq usedIds'
  <2>1. task'[s] \in {task[s], NoTask, [NoTask EXCEPT !.phase = "fetch"]}
    BY <1>1 DEF PreloadShows
  <2>2. task'[s].seen = task[s].seen \/ task'[s].seen = None
    BY <2>1 DEF NoTask
  <2> QED BY <1>2, <2>2, NoRows DEF IdsInv
<1> QED BY <1>1, <1>2, <1>3 DEF IdsInv, OneRow, flights

AgeKnown == expired \in BOOLEAN

\* No row and no copy of one has an id that was never given, one article is open at most,
\* and every row, write and task is of the form ArticleRows names.
THEOREM RowsTypeCorrect == ArticleSpec => []ArticleTypeOK
<1>1. ArticleInit => IdsInv
  <2> SUFFICES ASSUME ArticleInit PROVE IdsInv
    OBVIOUS
  <2>1. /\ byFeed = table /\ listed = table /\ opened = None /\ timer = None /\ writes = <<>>
        /\ sweep = None /\ usedIds = DOMAIN table /\ moves = 0
        /\ \A t \in Slots : task[t] = NoTask
    BY DEF ArticleInit
  <2>2. \A t \in Slots : task[t].seen = None
    BY <2>1, NoTaskIsTask
  <2> QED BY <2>1, <2>2, NoRows, ArticleAssumption DEF IdsInv, OneRow
<1>2. RowsInv /\ IdsInv /\ [ArticleNext]_rowVars => IdsInv'
  <2> SUFFICES ASSUME RowsInv, IdsInv, [ArticleNext]_rowVars PROVE IdsInv'
    OBVIOUS
  <2>1. RowsShape /\ KeeperInv
    BY DEF RowsInv
  <2>2. CASE UNCHANGED rowVars
    BY <2>2 DEF rowVars, store, flights, IdsInv, OneRow
  <2>3. ASSUME NEW id \in Ids,
               OpenArticle(id) \/ MarkAsRead(id) \/ ToggleStar(id) \/ SweepWrites(id)
               \/ PrefetchWrites(id)
        PROVE  IdsInv'
    BY <2>1, <2>3, ActsKeepIds, WritesKeepIds, TasksKeepIds
  <2>4. ASSUME LeaveArticle \/ TimerFires \/ MarkAllAsRead \/ TogglePrefetch \/ WriteLands
               \/ StartRelease \/ GrowsOld \/ TabIsLost
        PROVE  IdsInv'
    BY <2>1, <2>4, ActsKeepIds, WritesKeepIds, StartsKeepIds
  <2>5. ASSUME NEW ids \in SUBSET Ids, MarkUnread(ids) PROVE IdsInv'
    BY <2>1, <2>5, ActsKeepIds
  <2>6. ASSUME NEW t \in {"all", "single"},
               \/ StartRefresh(t) \/ LooksUpRow(t) \/ AddsRow(t) \/ UpdatesRow(t)
               \/ DedupeReads(t) \/ DedupePuts(t) \/ DedupeDeletes(t)
        PROVE  IdsInv'
    BY <2>1, <2>6, StartsKeepIds, TasksKeepIds
  <2>7. ASSUME PurgeReadsRows("all") \/ PurgeDeletesRows("all") \/ PrefetchReads \/ ReleaseReads
               \/ ReleaseWrites
        PROVE  IdsInv'
    BY <2>1, <2>7, TasksKeepIds
  <2>8. ASSUME NEW t \in {"all", "prefetch", "space", "view"}, PreloadReads(t) \/ PreloadShows(t)
        PROVE  IdsInv'
    BY <2>1, <2>8, TasksKeepIds, ShowsKeepIds
  <2> QED BY <2>2, <2>3, <2>4, <2>5, <2>6, <2>7, <2>8 DEF ArticleNext
<1>3. RowsInv /\ IdsInv /\ AgeKnown => ArticleTypeOK
  <2> SUFFICES ASSUME RowsInv, IdsInv, AgeKnown PROVE ArticleTypeOK
    OBVIOUS
  <2>1. opened \in Rows
    BY DEF RowsInv, RowsShape
  <2>2. Cardinality(DOMAIN opened) <= 1
    BY <2>1, OneRowCounts DEF IdsInv
  <2>3. /\ table \in Rows /\ byFeed \in Rows /\ listed \in Rows /\ timer \in Rows
        /\ writes \in Seq(Rows) /\ sweep \in Rows /\ task \in [Slots -> Task]
        /\ offline \in BOOLEAN /\ starWanted \in BOOLEAN /\ calm \in BOOLEAN /\ revived \in BOOLEAN
    BY DEF RowsInv, RowsShape
  <2>4. /\ DOMAIN timer \subseteq DOMAIN opened /\ DOMAIN table \cup DOMAIN byFeed \subseteq usedIds
        /\ moves \in 0..MaxMoves
    BY DEF IdsInv
  <2> QED BY <2>1, <2>2, <2>3, <2>4 DEF AgeKnown, ArticleTypeOK
<1>4. ArticleInit => AgeKnown
  BY DEF ArticleInit, AgeKnown
<1>5. AgeKnown /\ [ArticleNext]_rowVars => AgeKnown'
  <2> DEFINE Stays == expired' = expired \/ expired' = TRUE
  <2> SUFFICES ASSUME AgeKnown, [ArticleNext]_rowVars PROVE Stays
    BY DEF AgeKnown
  <2>1. ASSUME NEW id \in Ids,
               OpenArticle(id) \/ MarkAsRead(id) \/ ToggleStar(id) \/ SweepWrites(id)
               \/ PrefetchWrites(id)
        PROVE  Stays
    BY <2>1 DEF OpenArticle, MarkAsRead, ToggleStar, SweepWrites, PrefetchWrites
  <2>2. ASSUME LeaveArticle \/ TimerFires \/ MarkAllAsRead \/ TogglePrefetch \/ WriteLands
               \/ StartRelease \/ TabIsLost \/ PurgeReadsRows("all") \/ PurgeDeletesRows("all")
               \/ PrefetchReads \/ ReleaseReads \/ ReleaseWrites \/ UNCHANGED rowVars
        PROVE  Stays
    BY <2>2 DEF LeaveArticle, TimerFires, MarkAllAsRead, TogglePrefetch, WriteLands, StartRelease,
       TabIsLost, PurgeReadsRows, PurgeDeletesRows, PrefetchReads, ReleaseReads, ReleaseWrites, rowVars
  <2>3. ASSUME NEW ids \in SUBSET Ids, MarkUnread(ids) PROVE Stays
    BY <2>3 DEF MarkUnread
  <2>4. ASSUME NEW t,
               StartRefresh(t) \/ LooksUpRow(t) \/ AddsRow(t) \/ UpdatesRow(t) \/ DedupeReads(t)
               \/ DedupePuts(t) \/ DedupeDeletes(t) \/ PreloadReads(t) \/ PreloadShows(t)
        PROVE  Stays
    BY <2>4 DEF StartRefresh, LooksUpRow, AddsRow, UpdatesRow, DedupeReads, DedupePuts, DedupeDeletes,
       PreloadReads, PreloadShows
  <2>5. GrowsOld => Stays
    BY DEF GrowsOld
  <2> HIDE DEF Stays
  <2> QED BY <2>1, <2>2, <2>3, <2>4, <2>5 DEF ArticleNext
<1> QED BY <1>1, <1>2, <1>3, <1>4, <1>5, RowsInvariant, PTL DEF ArticleSpec
=============================================================================
