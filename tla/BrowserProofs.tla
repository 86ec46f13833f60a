----------------------------- MODULE BrowserProofs -----------------------------
(***************************************************************************)
(* Proofs about two tables of the browser application: Preferences, for     *)
(* every set of settings and any number of changes, and Subscriptions, for  *)
(* every set of addresses and tabs and any number of operations.  The two   *)
(* share no state; Subscriptions begins at `Fits`.  The last theorem puts   *)
(* the parts of the browser together, with the results of KeyVaultProofs    *)
(* and ArticleRowsProofs.                                                   *)
(***************************************************************************)
EXTENDS MCBrowser, KeyVaultProofs, ArticleRowsProofs, SequenceTheorems, FiniteSetTheorems, TLAPS

-----------------------------------------------------------------------------
(* The invariant.                                                          *)

PrefShape == PreferencesTypeOK /\ now \in Nat /\ changes \in 0..MaxChanges

\* The writes have put their rows in the order in which they began.
InOrder ==
    \A i, j \in DOMAIN puts : i < j /\ puts[j].stage = "stamp" => puts[i].stage = "stamp"

\* The last write that has put its row; unless a vault was imported, the row is its row.
LastToPut(i) == puts[i].stage = "stamp" /\ \A j \in DOMAIN puts : i < j => puts[j].stage = "row"

RowIsOfLast == \A i \in DOMAIN puts : LastToPut(i) /\ puts[i].calm => row = puts[i].prefs

\* Between writes, what the device wrote last stands or has been replaced by a later stamp.
OwnStands ==
    own.ts > 0 /\ (\A i \in DOMAIN puts : puts[i].stage = "row") =>
        stamp > own.ts \/ (row = own.prefs /\ stamp = own.ts)

\* A vault that has passed the gate is newer than what the device wrote, and stays so:
\* a write that ends before it is imported is not calm.
ImportIsNewer ==
    Importing =>
        /\ \A i \in DOMAIN puts : ~puts[i].calm
        /\ lane["pull"].carries.prefs # NoRow
        /\ own.ts = 0 \/ own.ts < lane["pull"].carries.ts

PrefInv == PrefShape /\ InOrder /\ RowIsOfLast /\ OwnStands /\ own.ts <= stamp /\ ImportIsNewer

-----------------------------------------------------------------------------
(* Records, writes and calls.                                              *)

\* What was stamped up to now was stamped up to any later time.
LEMMA StampedLater ==
    ASSUME now \in Nat, now' \in Nat, now <= now'
    PROVE  /\ \A x \in Stamped : x \in Stamped'
           /\ \A f \in [Lanes -> SyncCall] : f \in [Lanes -> SyncCall]'
<1>1. \A x \in Stamped : x \in Stamped'
  BY DEF Stamped
<1>2. \A c \in SyncCall : c \in SyncCall'
  BY <1>1 DEF SyncCall
<1> QED BY <1>1, <1>2

\* No record and no call are a record and a call; the defaults are settings.
LEMMA NothingFits ==
    ASSUME now \in Nat
    PROVE  /\ Nothing \in Stamped /\ NoCall \in SyncCall
           /\ Nothing.ts = 0 /\ NoCall.stage = "idle"
           /\ Default \in SettingRecord
BY PreferencesAssumption DEF Nothing, Stamped, NoCall, SyncCall, Default, SettingRecord

\* One lane gets another call.
LEMMA LaneMoves ==
    ASSUME lane \in [Lanes -> SyncCall], NEW l \in Lanes, NEW c \in SyncCall,
           lane' = [lane EXCEPT ![l] = c]
    PROVE  /\ lane' \in [Lanes -> SyncCall]
           /\ lane'[l] = c
           /\ \A k \in Lanes \ {l} : lane'[k] = lane[k]
OBVIOUS

\* A call that begins.
LEMMA EnterMoves ==
    ASSUME lane \in [Lanes -> SyncCall], NEW l \in Lanes,
           NEW op \in {"push", "pull", "resync", "merge"}, NEW stage \in {"put", "get"},
           NEW carries \in Stamped, Enter(l, op, stage, carries)
    PROVE  /\ lane' \in [Lanes -> SyncCall]
           /\ lane'[l].stage = stage
           /\ \A k \in Lanes \ {l} : lane'[k] = lane[k]
<1> DEFINE c == [op |-> op, stage |-> stage, carries |-> carries, current |-> FALSE]
<1>1. c \in SyncCall /\ c.stage = stage
  BY DEF SyncCall
<1>2. lane' = [lane EXCEPT ![l] = c]
  BY DEF Enter
<1> HIDE DEF c
<1> QED BY <1>1, <1>2, LaneMoves

\* One that ends.
LEMMA LeaveMoves ==
    ASSUME now \in Nat, lane \in [Lanes -> SyncCall], NEW l \in Lanes, Leave(l)
    PROVE  /\ lane' \in [Lanes -> SyncCall]
           /\ lane'[l].stage = "idle"
           /\ \A k \in Lanes \ {l} : lane'[k] = lane[k]
BY NothingFits, LaneMoves DEF Leave

\* What a call carries, and the same when the vault is no longer the server's.
LEMMA CallsCarry ==
    ASSUME lane \in [Lanes -> SyncCall], NEW l \in Lanes
    PROVE  /\ lane[l].carries \in Stamped /\ lane[l].current \in BOOLEAN
           /\ Outdated \in [Lanes -> SyncCall]
           /\ Outdated[l].stage = lane[l].stage /\ Outdated[l].carries = lane[l].carries
<1>1. \A k \in Lanes : lane[k] \in SyncCall
  OBVIOUS
<1>2. ASSUME NEW k \in Lanes
      PROVE  /\ [lane[k] EXCEPT !.current = FALSE] \in SyncCall
             /\ [lane[k] EXCEPT !.current = FALSE].stage = lane[k].stage
             /\ [lane[k] EXCEPT !.current = FALSE].carries = lane[k].carries
  BY <1>1 DEF SyncCall
<1>3. lane[l].carries \in Stamped /\ lane[l].current \in BOOLEAN
  BY <1>1 DEF SyncCall
<1> QED BY <1>2, <1>3 DEF Outdated

\* The later of two records is one of them.
LEMMA LatestIsOne ==
    ASSUME NEW a, NEW b
    PROVE  Latest(a, b) \in {a, b}
BY DEF Latest

\* Writes that are no longer calm.
LEMMA DisturbedWrites ==
    ASSUME puts \in Seq(Write)
    PROVE  /\ Disturbed \in Seq(Write) /\ DOMAIN Disturbed = DOMAIN puts
           /\ \A i \in DOMAIN puts : /\ Disturbed[i].stage = puts[i].stage
                                     /\ Disturbed[i].calm = FALSE
<1>1. \A i \in DOMAIN puts : puts[i] \in Write
  OBVIOUS
<1>2. ASSUME NEW i \in DOMAIN puts
      PROVE  /\ [puts[i] EXCEPT !.calm = FALSE] \in Write
             /\ [puts[i] EXCEPT !.calm = FALSE].stage = puts[i].stage
             /\ [puts[i] EXCEPT !.calm = FALSE].calm = FALSE
  BY <1>1 DEF Write
<1>3. /\ DOMAIN Disturbed = DOMAIN puts
      /\ \A i \in DOMAIN puts : Disturbed[i] = [puts[i] EXCEPT !.calm = FALSE]
  BY DEF Disturbed
<1>4. DOMAIN puts = 1..Len(puts) /\ Len(puts) \in Nat
  OBVIOUS
<1>5. Disturbed \in [1..Len(puts) -> Write]
  BY <1>2, <1>4 DEF Disturbed
<1>6. Disturbed \in Seq(Write)
  BY <1>4, <1>5, SeqDef
<1> QED BY <1>2, <1>3, <1>6

\* A write that begins comes last.
LEMMA WriteBegins ==
    ASSUME PrefShape, NEW prefs \in SettingRecord, NEW of \in Settings \cup {"hydrate"},
           AddWrite(prefs, of)
    PROVE  /\ puts' \in Seq(Write) /\ Len(puts') = Len(puts) + 1
           /\ \A i \in DOMAIN puts : puts'[i] = puts[i]
           /\ puts'[Len(puts) + 1].stage = "row"
           /\ puts'[Len(puts) + 1].calm = ~Importing
<1> DEFINE w == [prefs |-> prefs, of |-> of, stage |-> "row", calm |-> ~Importing]
<1>1. w \in Write /\ w.stage = "row" /\ w.calm = ~Importing
  BY DEF Write
<1>2. puts' = Append(puts, w) /\ puts \in Seq(Write)
  BY DEF AddWrite, PrefShape, PreferencesTypeOK
<1> HIDE DEF w
<1> QED BY <1>1, <1>2

\* The first write ends.
LEMMA WriteEnds ==
    ASSUME puts \in Seq(Write), puts # <<>>, puts' = Tail(puts)
    PROVE  /\ puts' \in Seq(Write) /\ Len(puts') = Len(puts) - 1
           /\ \A i \in DOMAIN puts' : i + 1 \in DOMAIN puts /\ puts'[i] = puts[i + 1]
           /\ Head(puts) \in Write /\ Head(puts) = puts[1] /\ 1 \in DOMAIN puts
OBVIOUS

\* What the device exports is a record.
LEMMA ExportFits ==
    ASSUME PrefShape
    PROVE  Export \in Stamped
BY DEF PrefShape, PreferencesTypeOK, Export, Stamped

\* No vault passes the gate, and what one carries that has passed stays the same.
SameImport == Importing' => Importing /\ lane'["pull"].carries = lane["pull"].carries

\* A lane other than that of the pull moves, or that of the pull, but not past the gate.
LEMMA LaneMovesSafely ==
    ASSUME lane \in [Lanes -> SyncCall], NEW l \in Lanes, NEW c \in SyncCall,
           l = "pull" => c.stage # "import",
           lane' = [lane EXCEPT ![l] = c]
    PROVE  lane' \in [Lanes -> SyncCall] /\ SameImport
<1>1. /\ lane' \in [Lanes -> SyncCall]
      /\ lane'[l] = c
      /\ \A k \in Lanes \ {l} : lane'[k] = lane[k]
  BY LaneMoves
<1>2. "pull" \in Lanes
  BY DEF Lanes
<1> QED BY <1>1, <1>2 DEF SameImport, Importing

\* The same when another call has stored a vault.
LEMMA OutdatedMoves ==
    ASSUME lane \in [Lanes -> SyncCall], NEW l \in Lanes, NEW c \in SyncCall,
           c.stage # "import",
           lane' = [Outdated EXCEPT ![l] = c]
    PROVE  lane' \in [Lanes -> SyncCall] /\ SameImport
<1>1. "pull" \in Lanes
  BY DEF Lanes
<1>2. /\ Outdated \in [Lanes -> SyncCall]
      /\ Outdated["pull"].stage = lane["pull"].stage
      /\ Outdated["pull"].carries = lane["pull"].carries
  BY <1>1, CallsCarry
<1> HIDE DEF Outdated
<1>3. /\ lane' \in [Lanes -> SyncCall]
      /\ lane'["pull"] = IF l = "pull" THEN c ELSE Outdated["pull"]
  BY <1>1, <1>2
<1> QED BY <1>2, <1>3 DEF SameImport, Importing

\* The types hold after a step when each part has its type.
LEMMA PrefShapeKept ==
    ASSUME PrefShape, now' \in {now, now + 1}, changes' \in 0..MaxChanges,
           row' \in SettingRecord \cup {NoRow}, stamp' \in 0..now',
           memory' \in SettingRecord, hydrated' \in BOOLEAN, puts' \in Seq(Write),
           dirty' \in BOOLEAN, due' \in BOOLEAN, known' \in BOOLEAN,
           lane' \in [Lanes -> SyncCall], vault' \in Stamped,
           other' \in Stamped', own' \in Stamped'
    PROVE  PrefShape'
<1>1. now \in Nat /\ now' \in Nat /\ now <= now'
  BY DEF PrefShape
<1>2. lane' \in [Lanes -> SyncCall]' /\ vault' \in Stamped'
  BY <1>1, StampedLater
<1> QED BY <1>1, <1>2 DEF PrefShape, PreferencesTypeOK

-----------------------------------------------------------------------------
(* Steps that leave the row, its stamp and the writes alone.               *)

\* Such a step keeps the invariant unless it lets a vault past the gate.
LEMMA QuietStepKeepsInv ==
    ASSUME PrefInv, UNCHANGED <<row, stamp, puts, own>>, SameImport,
           now' \in {now, now + 1}, changes' \in 0..MaxChanges,
           memory' \in SettingRecord, hydrated' \in BOOLEAN,
           dirty' \in BOOLEAN, due' \in BOOLEAN, known' \in BOOLEAN,
           lane' \in [Lanes -> SyncCall], vault' \in Stamped, other' \in Stamped'
    PROVE  PrefInv'
<1>1. PrefShape /\ now \in Nat /\ now' \in Nat /\ now <= now'
  BY DEF PrefInv, PrefShape
<1>2. own' \in Stamped'
  BY <1>1, StampedLater DEF PrefShape, PreferencesTypeOK
<1>3. row \in SettingRecord \cup {NoRow} /\ stamp \in 0..now /\ puts \in Seq(Write)
  BY <1>1 DEF PrefShape, PreferencesTypeOK
<1>4. PrefShape'
  <2>1. stamp' \in 0..now'
    BY <1>1, <1>3
  <2> QED BY <1>1, <1>2, <1>3, <2>1, PrefShapeKept
<1>5. InOrder'
  BY DEF PrefInv, InOrder
<1>6. RowIsOfLast'
  BY DEF PrefInv, RowIsOfLast, LastToPut
<1>7. OwnStands' /\ (own.ts <= stamp)'
  BY DEF PrefInv, OwnStands
<1>8. ImportIsNewer'
  BY DEF PrefInv, ImportIsNewer, SameImport
<1> QED BY <1>4, <1>5, <1>6, <1>7, <1>8 DEF PrefInv

\* BeginPush, BeginPull, BeginResync, BeginMerge: a call of the sync store begins.
LEMMA BeginKeepsInv ==
    ASSUME PrefInv, BeginPush \/ BeginPull \/ BeginResync \/ BeginMerge
    PROVE  PrefInv'
<1>1. PrefShape /\ now \in Nat /\ lane \in [Lanes -> SyncCall]
  BY DEF PrefInv, PrefShape, PreferencesTypeOK
<1>2. Export \in Stamped /\ Nothing \in Stamped
  BY <1>1, ExportFits, NothingFits
<1>3. lane' \in [Lanes -> SyncCall] /\ SameImport
  <2>1. \E l \in Lanes, op \in {"push", "pull", "resync", "merge"}, stage \in {"put", "get"},
           carries \in Stamped : Enter(l, op, stage, carries)
    BY <1>2 DEF BeginPush, BeginPull, BeginResync, BeginMerge, Lanes
  <2>2. PICK l \in Lanes, op \in {"push", "pull", "resync", "merge"}, stage \in {"put", "get"},
           carries \in Stamped : Enter(l, op, stage, carries)
    BY <2>1
  <2>3. /\ lane' \in [Lanes -> SyncCall]
        /\ lane'[l].stage = stage
        /\ \A k \in Lanes \ {l} : lane'[k] = lane[k]
    BY <1>1, <2>2, EnterMoves
  <2>4. "pull" \in Lanes
    BY DEF Lanes
  <2> QED BY <2>3, <2>4 DEF SameImport, Importing
<1>4. UNCHANGED <<row, stamp, memory, hydrated, puts, known, vault, other, now, changes, own>>
  BY DEF BeginPush, BeginPull, BeginResync, BeginMerge, used
<1>5. dirty' \in BOOLEAN /\ due' \in BOOLEAN
  BY <1>1 DEF BeginPush, BeginPull, BeginResync, BeginMerge, ClearMarker, PrefShape,
              PreferencesTypeOK
<1>6. other' \in Stamped' /\ vault' \in Stamped
  BY <1>1, <1>4, StampedLater DEF PrefShape, PreferencesTypeOK
<1>7. memory' \in SettingRecord /\ hydrated' \in BOOLEAN /\ known' \in BOOLEAN
      /\ changes' \in 0..MaxChanges
  BY <1>1, <1>4 DEF PrefShape, PreferencesTypeOK
<1> QED BY <1>3, <1>4, <1>5, <1>6, <1>7, QuietStepKeepsInv

\* Stored, RequestFails: the end of a request.
LEMMA RequestKeepsInv ==
    ASSUME PrefInv, NEW l \in Lanes, Stored(l) \/ RequestFails(l)
    PROVE  PrefInv'
<1>1. PrefShape /\ now \in Nat /\ lane \in [Lanes -> SyncCall]
  BY DEF PrefInv, PrefShape, PreferencesTypeOK
<1>2. lane[l].carries \in Stamped
  BY <1>1, CallsCarry
<1>3. NoCall \in SyncCall /\ NoCall.stage = "idle"
  BY <1>1, NothingFits
<1>4. lane' \in [Lanes -> SyncCall] /\ SameImport
  <2>1. CASE Stored(l)
    <3> DEFINE c == IF l = "pull" THEN [NoCall EXCEPT !.op = "pull", !.stage = "get"] ELSE NoCall
    <3>1. c \in SyncCall /\ c.stage # "import"
      BY <1>3 DEF SyncCall
    <3>2. lane' = [Outdated EXCEPT ![l] = c]
      BY <2>1 DEF Stored
    <3> HIDE DEF c
    <3> QED BY <1>1, <3>1, <3>2, OutdatedMoves
  <2>2. CASE lane' = [lane EXCEPT ![l] = NoCall]
    BY <1>1, <1>3, <2>2, LaneMovesSafely
  <2>3. CASE lane' = [Outdated EXCEPT ![l] = NoCall]
    BY <1>1, <1>3, <2>3, OutdatedMoves
  <2> QED BY <2>1, <2>2, <2>3 DEF RequestFails, Leave
<1>5. UNCHANGED <<row, stamp, memory, hydrated, puts, other, now, changes, own>>
  BY DEF Stored, RequestFails, used
<1>6. dirty' \in BOOLEAN /\ due' \in BOOLEAN /\ known' \in BOOLEAN
  BY <1>1 DEF Stored, RequestFails, ClearMarker, Leave, PrefShape, PreferencesTypeOK
<1>7. other' \in Stamped'
  BY <1>1, <1>5, StampedLater DEF PrefShape, PreferencesTypeOK
<1>8. vault' \in Stamped
  BY <1>1, <1>2 DEF Stored, RequestFails, Leave, PrefShape, PreferencesTypeOK
<1>9. memory' \in SettingRecord /\ hydrated' \in BOOLEAN /\ changes' \in 0..MaxChanges
  BY <1>1, <1>5 DEF PrefShape, PreferencesTypeOK
<1> QED BY <1>4, <1>5, <1>6, <1>7, <1>8, <1>9, QuietStepKeepsInv

\* OtherChanges, OtherPulls, OtherPushes: the other devices.
LEMMA OthersKeepInv ==
    ASSUME PrefInv, (\E s \in Settings : OtherChanges(s)) \/ OtherPulls \/ OtherPushes
    PROVE  PrefInv'
<1>1. /\ PrefShape /\ now \in Nat /\ lane \in [Lanes -> SyncCall]
      /\ vault \in Stamped /\ other \in Stamped /\ changes \in 0..MaxChanges
  BY DEF PrefInv, PrefShape, PreferencesTypeOK
<1>2. UNCHANGED <<row, stamp, memory, hydrated, puts, dirty, due, own>>
  BY DEF OtherChanges, OtherPulls, OtherPushes, used
<1>3. now' \in {now, now + 1} /\ known' \in BOOLEAN
  BY <1>1 DEF OtherChanges, OtherPulls, OtherPushes, PrefShape, PreferencesTypeOK, used
<1>4. changes' \in 0..MaxChanges
  BY <1>1, PreferencesAssumption DEF OtherChanges, OtherPulls, OtherPushes, used
<1>5. vault' \in Stamped
  BY <1>1 DEF OtherChanges, OtherPulls, OtherPushes
<1>6. \A x \in Stamped : x \in Stamped'
  BY <1>1, <1>3, StampedLater
<1>7. other' \in Stamped'
  <2>1. ASSUME NEW s \in Settings, OtherChanges(s) PROVE other' \in Stamped'
    <3> DEFINE base == IF other.prefs = NoRow THEN Default ELSE other.prefs
               new == [base EXCEPT ![s] = changes + 1]
    <3>1. base \in SettingRecord
      BY <1>1, NothingFits DEF Stamped
    <3>2. changes + 1 \in 0..MaxChanges
      BY <1>1, <2>1, PreferencesAssumption DEF OtherChanges
    <3>3. other' = [prefs |-> new, ts |-> now + 1] /\ now' = now + 1
      BY <2>1 DEF OtherChanges
    <3> HIDE DEF base
    <3>4. new \in SettingRecord
      BY <3>1, <3>2 DEF SettingRecord
    <3> HIDE DEF new
    <3>5. now + 1 \in 0..now'
      BY <1>1, <3>3
    <3> QED BY <3>3, <3>4, <3>5 DEF Stamped
  <2>2. CASE OtherPulls
    <3>1. Latest(other, vault) \in Stamped
      BY <1>1, LatestIsOne
    <3> QED BY <1>6, <2>2, <3>1 DEF OtherPulls
  <2>3. CASE OtherPushes
    BY <1>1, <1>6, <2>3 DEF OtherPushes
  <2> QED BY <2>1, <2>2, <2>3
<1>8. lane' \in [Lanes -> SyncCall] /\ SameImport
  <2>1. "pull" \in Lanes
    BY DEF Lanes
  <2>2. CASE lane' = lane
    BY <1>1, <2>2 DEF SameImport, Importing
  <2>3. CASE lane' = Outdated
    <3>1. /\ Outdated \in [Lanes -> SyncCall]
          /\ Outdated["pull"].stage = lane["pull"].stage
          /\ Outdated["pull"].carries = lane["pull"].carries
      BY <1>1, <2>1, CallsCarry
    <3> HIDE DEF Outdated
    <3> QED BY <2>3, <3>1 DEF SameImport, Importing
  <2> QED BY <2>2, <2>3 DEF OtherChanges, OtherPulls, OtherPushes
<1>9. memory' \in SettingRecord /\ hydrated' \in BOOLEAN /\ dirty' \in BOOLEAN /\ due' \in BOOLEAN
  BY <1>1, <1>2 DEF PrefShape, PreferencesTypeOK
<1> QED BY <1>2, <1>3, <1>4, <1>5, <1>7, <1>8, <1>9, QuietStepKeepsInv

\* Fetched: the vault has come down.
LEMMA FetchedKeepsInv ==
    ASSUME PrefInv, NEW l \in {"pull", "restore"}, Fetched(l)
    PROVE  PrefInv'
<1>1. /\ PrefShape /\ now \in Nat /\ lane \in [Lanes -> SyncCall] /\ l \in Lanes
      /\ vault \in Stamped
  BY DEF PrefInv, PrefShape, PreferencesTypeOK, Lanes
<1>2. lane' \in [Lanes -> SyncCall] /\ SameImport
  <2> DEFINE got == IF lane[l].op = "merge" THEN Latest(lane[l].carries, vault) ELSE vault
             c == [op |-> lane[l].op, stage |-> IF l = "pull" THEN "gate" ELSE "import",
                   carries |-> got, current |-> TRUE]
  <2>1. lane[l].carries \in Stamped /\ lane[l] \in SyncCall
    BY <1>1, CallsCarry
  <2>2. got \in Stamped
    BY <1>1, <2>1, LatestIsOne
  <2>3. CASE lane' = [lane EXCEPT ![l] = NoCall]
    <3>1. NoCall \in SyncCall /\ NoCall.stage # "import"
      BY <1>1, NothingFits
    <3> QED BY <1>1, <2>3, <3>1, LaneMovesSafely
  <2>4. CASE lane' = [lane EXCEPT ![l] = c]
    <3> HIDE DEF got
    <3>1. c \in SyncCall
      BY <2>1, <2>2 DEF SyncCall
    <3>2. l = "pull" => c.stage # "import"
      OBVIOUS
    <3> HIDE DEF c
    <3> QED BY <1>1, <2>4, <3>1, <3>2, LaneMovesSafely
  <2> QED BY <2>3, <2>4 DEF Fetched, Leave
<1>3. UNCHANGED <<row, stamp, memory, hydrated, puts, dirty, due, known, vault, other, now,
                  changes, own>>
  BY DEF Fetched, used
<1>4. other' \in Stamped' /\ vault' \in Stamped
  BY <1>1, <1>3, StampedLater DEF PrefShape, PreferencesTypeOK
<1>5. /\ memory' \in SettingRecord /\ hydrated' \in BOOLEAN /\ changes' \in 0..MaxChanges
      /\ dirty' \in BOOLEAN /\ due' \in BOOLEAN /\ known' \in BOOLEAN
  BY <1>1, <1>3 DEF PrefShape, PreferencesTypeOK
<1> QED BY <1>2, <1>3, <1>4, <1>5, QuietStepKeepsInv

\* ShowRestored: a restore shows the row, a merge uploads it.
LEMMA RestoredKeepsInv ==
    ASSUME PrefInv, ShowRestored
    PROVE  PrefInv'
<1>1. /\ PrefShape /\ now \in Nat /\ lane \in [Lanes -> SyncCall] /\ "restore" \in Lanes
      /\ row \in SettingRecord \cup {NoRow}
  BY DEF PrefInv, PrefShape, PreferencesTypeOK, Lanes
<1>2. lane' \in [Lanes -> SyncCall] /\ SameImport
  <2>1. CASE lane' = [lane EXCEPT !["restore"] = NoCall]
    <3>1. NoCall \in SyncCall
      BY <1>1, NothingFits
    <3> QED BY <1>1, <2>1, <3>1, LaneMovesSafely
  <2>2. CASE lane' = [lane EXCEPT !["restore"].stage = "put", !["restore"].carries = Export]
    <3> DEFINE c == [lane["restore"] EXCEPT !.stage = "put", !.carries = Export]
    <3>1. Export \in Stamped
      BY <1>1, ExportFits
    <3>2. lane["restore"] \in SyncCall
      BY <1>1
    <3>3. c \in SyncCall
      BY <3>1, <3>2 DEF SyncCall
    <3>4. lane' = [lane EXCEPT !["restore"] = c]
      BY <1>1, <2>2
    <3> HIDE DEF c
    <3> QED BY <1>1, <3>3, <3>4, LaneMovesSafely
  <2> QED BY <2>1, <2>2 DEF ShowRestored, Leave
<1>3. UNCHANGED <<row, stamp, puts, dirty, due, known, vault, other, now, changes, own>>
  BY DEF ShowRestored, used
<1>4. memory' \in SettingRecord /\ hydrated' \in BOOLEAN
  BY <1>1, NothingFits DEF ShowRestored
<1>5. other' \in Stamped' /\ vault' \in Stamped
  BY <1>1, <1>3, StampedLater DEF PrefShape, PreferencesTypeOK
<1>6. /\ changes' \in 0..MaxChanges
      /\ dirty' \in BOOLEAN /\ due' \in BOOLEAN /\ known' \in BOOLEAN
  BY <1>1, <1>3 DEF PrefShape, PreferencesTypeOK
<1> QED BY <1>2, <1>3, <1>4, <1>5, <1>6, QuietStepKeepsInv

-----------------------------------------------------------------------------
(* Writes.                                                                 *)

\* Hydrate, Update: what the memory is written from, and what a step on the writes alone
\* leaves alone.
LEMMA AddKeepsInv ==
    ASSUME PrefInv, NEW prefs \in SettingRecord, NEW of \in Settings \cup {"hydrate"},
           AddWrite(prefs, of),
           UNCHANGED <<row, stamp, dirty, due, lane, known, vault, other, now, own>>,
           changes' \in 0..MaxChanges, memory' \in SettingRecord, hydrated' \in BOOLEAN
    PROVE  PrefInv'
<1>1. PrefShape /\ now \in Nat /\ puts \in Seq(Write)
  BY DEF PrefInv, PrefShape, PreferencesTypeOK
<1> DEFINE n == Len(puts) + 1
<1>2. /\ puts' \in Seq(Write) /\ Len(puts') = n
      /\ \A i \in DOMAIN puts : puts'[i] = puts[i]
      /\ puts'[n].stage = "row"
      /\ puts'[n].calm = ~Importing
  BY <1>1, WriteBegins
<1>3. /\ n \in Nat /\ DOMAIN puts' = 1..n /\ DOMAIN puts = 1..(n - 1)
      /\ \A i \in DOMAIN puts' : i \in DOMAIN puts \/ i = n
      /\ \A i \in DOMAIN puts : i \in DOMAIN puts' /\ i < n
  BY <1>1, <1>2
<1> HIDE DEF n
<1>4. PrefShape'
  <2>1. /\ row' \in SettingRecord \cup {NoRow} /\ stamp' \in 0..now'
        /\ dirty' \in BOOLEAN /\ due' \in BOOLEAN /\ known' \in BOOLEAN
        /\ lane' \in [Lanes -> SyncCall] /\ vault' \in Stamped
    BY <1>1 DEF PrefShape, PreferencesTypeOK
  <2>2. other' \in Stamped' /\ own' \in Stamped'
    BY <1>1, StampedLater DEF PrefShape, PreferencesTypeOK
  <2> QED BY <1>1, <1>2, <2>1, <2>2, PrefShapeKept
<1>5. InOrder'
  <2> SUFFICES ASSUME NEW i \in DOMAIN puts', NEW j \in DOMAIN puts', i < j,
                      puts'[j].stage = "stamp"
               PROVE  puts'[i].stage = "stamp"
    BY DEF InOrder
  <2>1. j \in DOMAIN puts
    BY <1>2, <1>3
  <2>2. i \in DOMAIN puts
    BY <1>3, <2>1
  <2> QED BY <1>2, <2>1, <2>2 DEF PrefInv, InOrder
<1>6. RowIsOfLast'
  <2> SUFFICES ASSUME NEW i \in DOMAIN puts', LastToPut(i)', puts'[i].calm
               PROVE  row' = puts'[i].prefs
    BY DEF RowIsOfLast
  <2>1. i \in DOMAIN puts
    BY <1>2, <1>3 DEF LastToPut
  <2>2. LastToPut(i) /\ puts[i].calm
    BY <1>2, <1>3, <2>1 DEF LastToPut
  <2> QED BY <1>2, <2>1, <2>2 DEF PrefInv, RowIsOfLast
<1>7. OwnStands' /\ (own.ts <= stamp)'
  BY <1>2, <1>3 DEF PrefInv, OwnStands
<1>8. ImportIsNewer'
  <2> SUFFICES ASSUME Importing
               PROVE  /\ \A i \in DOMAIN puts' : ~puts'[i].calm
                      /\ lane["pull"].carries.prefs # NoRow
                      /\ own.ts = 0 \/ own.ts < lane["pull"].carries.ts
    BY DEF ImportIsNewer, Importing
  <2> QED BY <1>2, <1>3 DEF PrefInv, ImportIsNewer
<1> QED BY <1>4, <1>5, <1>6, <1>7, <1>8 DEF PrefInv

\* Hydrate: without a row the defaults are written.
LEMMA HydrateKeepsInv ==
    ASSUME PrefInv, Hydrate
    PROVE  PrefInv'
<1>1. /\ PrefShape /\ now \in Nat /\ Default \in SettingRecord
      /\ lane \in [Lanes -> SyncCall] /\ changes \in 0..MaxChanges
  BY NothingFits DEF PrefInv, PrefShape, PreferencesTypeOK
<1>2. /\ UNCHANGED <<row, stamp, dirty, due, lane, known, vault, other, now, own>>
      /\ changes' \in 0..MaxChanges
  BY <1>1 DEF Hydrate, Turn
<1>3. CASE AddWrite(Default, "hydrate") /\ UNCHANGED <<memory, hydrated>>
  <2>1. memory' \in SettingRecord /\ hydrated' \in BOOLEAN
    BY <1>1, <1>3 DEF PrefShape, PreferencesTypeOK
  <2> QED BY <1>1, <1>2, <1>3, <2>1, AddKeepsInv
<1>4. CASE row # NoRow /\ memory' = row /\ hydrated' = TRUE /\ UNCHANGED <<puts, turns>>
  <2>1. memory' \in SettingRecord /\ hydrated' \in BOOLEAN
    BY <1>1, <1>4 DEF PrefShape, PreferencesTypeOK
  <2>2. SameImport
    BY <1>2 DEF SameImport, Importing
  <2>3. other' \in Stamped' /\ vault' \in Stamped
    BY <1>1, <1>2, StampedLater DEF PrefShape, PreferencesTypeOK
  <2>4. dirty' \in BOOLEAN /\ due' \in BOOLEAN /\ known' \in BOOLEAN
    BY <1>1, <1>2 DEF PrefShape, PreferencesTypeOK
  <2> QED BY <1>1, <1>2, <1>4, <2>1, <2>2, <2>3, <2>4, QuietStepKeepsInv
<1> QED BY <1>3, <1>4 DEF Hydrate

\* Update: the memory with the patch is written.
LEMMA UpdateKeepsInv ==
    ASSUME PrefInv, NEW s \in Settings, Update(s)
    PROVE  PrefInv'
<1>1. PrefShape /\ memory \in SettingRecord /\ changes \in 0..MaxChanges
  BY DEF PrefInv, PrefShape, PreferencesTypeOK
<1>2. changes' \in 0..MaxChanges /\ changes' = changes + 1
  BY <1>1, PreferencesAssumption DEF Update
<1>3. memory' \in SettingRecord
  BY <1>1, <1>2 DEF Update, SettingRecord
<1>4. hydrated' \in BOOLEAN
  BY <1>1 DEF Update, PrefShape, PreferencesTypeOK
<1>5. /\ AddWrite(memory', s)
      /\ UNCHANGED <<row, stamp, dirty, due, lane, known, vault, other, now, own>>
  BY DEF Update
<1> QED BY <1>2, <1>3, <1>4, <1>5, AddKeepsInv

\* PutRow: the row of the oldest write that has not put it.
LEMMA PutRowKeepsInv ==
    ASSUME PrefInv, NEW i \in DOMAIN puts, PutRow(i)
    PROVE  PrefInv'
<1>1. PrefShape /\ now \in Nat /\ puts \in Seq(Write)
  BY DEF PrefInv, PrefShape, PreferencesTypeOK
<1>2. DOMAIN puts = 1..Len(puts) /\ Len(puts) \in Nat /\ \A j \in DOMAIN puts : puts[j] \in Write
  BY <1>1
<1>3. /\ puts' = [puts EXCEPT ![i].stage = "stamp"]
      /\ \A j \in 1..(i - 1) : puts[j].stage = "stamp"
      /\ row' = puts[i].prefs
      /\ UNCHANGED <<stamp, memory, hydrated, dirty, due, lane, known, vault, other, now,
                     changes, own>>
  BY DEF PutRow, used
<1> DEFINE w == [puts[i] EXCEPT !.stage = "stamp"]
<1>4. /\ w \in Write /\ w.stage = "stamp"
      /\ w.calm = puts[i].calm /\ w.prefs = puts[i].prefs
  BY <1>2 DEF Write
<1>5. puts' = [puts EXCEPT ![i] = w]
  BY <1>2, <1>3
<1> HIDE DEF w
<1>6. /\ puts' \in Seq(Write) /\ DOMAIN puts' = DOMAIN puts
      /\ puts'[i] = w /\ \A j \in DOMAIN puts \ {i} : puts'[j] = puts[j]
  <2>1. puts' \in [1..Len(puts) -> Write]
    BY <1>2, <1>4, <1>5
  <2>2. puts' \in Seq(Write)
    BY <1>2, <2>1, SeqDef
  <2> QED BY <1>2, <1>5, <2>1, <2>2
<1>7. PrefShape'
  <2>1. /\ stamp' \in 0..now' /\ memory' \in SettingRecord /\ hydrated' \in BOOLEAN
        /\ dirty' \in BOOLEAN /\ due' \in BOOLEAN /\ known' \in BOOLEAN
        /\ lane' \in [Lanes -> SyncCall] /\ vault' \in Stamped
        /\ now' \in {now, now + 1} /\ changes' \in 0..MaxChanges
    BY <1>1, <1>3 DEF PrefShape, PreferencesTypeOK
  <2>2. other' \in Stamped' /\ own' \in Stamped'
    BY <1>1, <1>3, StampedLater DEF PrefShape, PreferencesTypeOK
  <2>3. row' \in SettingRecord \cup {NoRow}
    BY <1>2, <1>3 DEF Write
  <2> QED BY <1>1, <1>6, <2>1, <2>2, <2>3, PrefShapeKept
<1>8. InOrder'
  <2> SUFFICES ASSUME NEW a \in DOMAIN puts, NEW b \in DOMAIN puts, a < b,
                      puts'[b].stage = "stamp"
               PROVE  puts'[a].stage = "stamp"
    BY <1>6 DEF InOrder
  <2>1. CASE b = i
    <3>1. a \in 1..(i - 1) /\ a # i
      BY <1>2, <2>1
    <3> QED BY <1>3, <1>6, <3>1
  <2>2. CASE b # i
    <3>1. puts[a].stage = "stamp"
      BY <1>6, <2>2 DEF PrefInv, InOrder
    <3> QED BY <1>4, <1>6, <3>1
  <2> QED BY <2>1, <2>2
<1>9. RowIsOfLast'
  <2> SUFFICES ASSUME NEW k \in DOMAIN puts, LastToPut(k)', puts'[k].calm
               PROVE  row' = puts'[k].prefs
    BY <1>6 DEF RowIsOfLast
  <2>1. ~(k < i)
    BY <1>4, <1>6 DEF LastToPut
  <2>2. ~(i < k)
    <3> SUFFICES ASSUME i < k PROVE FALSE
      OBVIOUS
    <3>1. k # i
      BY <1>2
    <3>2. puts[k].stage = "stamp"
      BY <1>6, <3>1 DEF LastToPut
    <3>3. puts[i].stage = "stamp"
      BY <3>2 DEF PrefInv, InOrder
    <3> QED BY <3>3 DEF PutRow
  <2>3. k = i
    BY <1>2, <2>1, <2>2
  <2> QED BY <1>3, <1>4, <1>6, <2>3
<1>10. OwnStands' /\ (own.ts <= stamp)'
  <2>1. puts'[i].stage # "row" /\ i \in DOMAIN puts'
    BY <1>4, <1>6
  <2>2. own' = own /\ stamp' = stamp
    BY <1>3
  <2> QED BY <2>1, <2>2 DEF PrefInv, OwnStands
<1>11. ImportIsNewer'
  <2>1. lane' = lane /\ own' = own
    BY <1>3
  <2>2. \A j \in DOMAIN puts' : j \in DOMAIN puts /\ puts'[j].calm = puts[j].calm
    BY <1>4, <1>6
  <2> QED BY <2>1, <2>2 DEF PrefInv, ImportIsNewer, Importing
<1> QED BY <1>7, <1>8, <1>9, <1>10, <1>11 DEF PrefInv

\* What remains when the first write has ended, and what its end does to the rest.
LEMMA FirstEnds ==
    ASSUME PrefInv, puts # <<>>, puts' = Tail(puts), row' = row, WriteReturns
    PROVE  /\ puts' \in Seq(Write)
           /\ \A i \in DOMAIN puts' : i \in Nat /\ i + 1 \in DOMAIN puts /\ puts'[i] = puts[i + 1]
           /\ \A j \in DOMAIN puts : j > 1 => j - 1 \in DOMAIN puts' /\ puts'[j - 1] = puts[j]
           /\ puts[1] \in Write /\ 1 \in DOMAIN puts /\ Head(puts) = puts[1]
           /\ \A j \in DOMAIN puts : j \in Nat /\ j >= 1
           /\ InOrder' /\ RowIsOfLast'
           /\ memory' \in SettingRecord /\ hydrated' \in BOOLEAN
           /\ dirty' \in BOOLEAN /\ due' \in BOOLEAN
<1>1. PrefShape /\ puts \in Seq(Write)
  BY DEF PrefInv, PrefShape, PreferencesTypeOK
<1>2. /\ puts' \in Seq(Write) /\ Len(puts') = Len(puts) - 1
      /\ \A i \in DOMAIN puts' : i + 1 \in DOMAIN puts /\ puts'[i] = puts[i + 1]
      /\ Head(puts) \in Write /\ Head(puts) = puts[1] /\ 1 \in DOMAIN puts
  BY <1>1, WriteEnds
<1>3. DOMAIN puts = 1..Len(puts) /\ Len(puts) \in Nat /\ DOMAIN puts' = 1..(Len(puts) - 1)
  BY <1>1, <1>2
<1>4. /\ \A i \in DOMAIN puts' : i \in Nat
      /\ \A j \in DOMAIN puts : j \in Nat /\ j >= 1
      /\ \A j \in DOMAIN puts : j > 1 => j - 1 \in DOMAIN puts' /\ (j - 1) + 1 = j
  BY <1>3
<1>5. \A j \in DOMAIN puts : j > 1 => puts'[j - 1] = puts[j]
  BY <1>2, <1>4
<1>6. InOrder'
  <2> SUFFICES ASSUME NEW i \in DOMAIN puts', NEW j \in DOMAIN puts', i < j,
                      puts'[j].stage = "stamp"
               PROVE  puts'[i].stage = "stamp"
    BY DEF InOrder
  <2>1. i + 1 \in DOMAIN puts /\ j + 1 \in DOMAIN puts /\ i + 1 < j + 1
    BY <1>2, <1>4
  <2>2. puts[j + 1].stage = "stamp"
    BY <1>2
  <2>3. puts[i + 1].stage = "stamp"
    BY <2>1, <2>2 DEF PrefInv, InOrder
  <2> QED BY <1>2, <2>3
<1>7. RowIsOfLast'
  <2> SUFFICES ASSUME NEW i \in DOMAIN puts', LastToPut(i)', puts'[i].calm
               PROVE  row' = puts'[i].prefs
    BY DEF RowIsOfLast
  <2>1. i \in Nat /\ i + 1 \in DOMAIN puts /\ puts'[i] = puts[i + 1]
    BY <1>2, <1>4
  <2>2. ASSUME NEW j \in DOMAIN puts, i + 1 < j PROVE puts[j].stage = "row"
    <3>1. j > 1 /\ j - 1 \in DOMAIN puts' /\ i < j - 1
      BY <1>4, <2>1, <2>2
    <3>2. puts'[j - 1].stage = "row"
      BY <3>1 DEF LastToPut
    <3> QED BY <1>5, <3>1, <3>2
  <2>3. LastToPut(i + 1) /\ puts[i + 1].calm
    BY <2>1, <2>2 DEF LastToPut
  <2> QED BY <2>1, <2>3 DEF PrefInv, RowIsOfLast
<1>8. /\ memory' \in SettingRecord /\ hydrated' \in BOOLEAN
      /\ dirty' \in BOOLEAN /\ due' \in BOOLEAN
  <2>1. Head(puts).prefs \in SettingRecord
    BY <1>2 DEF Write
  <2> QED BY <1>1, <2>1 DEF WriteReturns, PrefShape, PreferencesTypeOK
<1> QED BY <1>2, <1>4, <1>5, <1>6, <1>7, <1>8

\* PutStamp: the first write has stamped its row.
LEMMA PutStampKeepsInv ==
    ASSUME PrefInv, PutStamp
    PROVE  PrefInv'
<1>1. PrefShape /\ now \in Nat
  BY DEF PrefInv, PrefShape, PreferencesTypeOK
<1>2. /\ puts # <<>> /\ Head(puts).stage = "stamp"
      /\ now' = now + 1 /\ stamp' = now + 1
      /\ puts' = Tail(puts) /\ WriteReturns
      /\ own' = IF Head(puts).calm THEN [prefs |-> Head(puts).prefs, ts |-> now + 1] ELSE Nothing
      /\ UNCHANGED <<row, lane, known, vault, other, changes>>
  BY DEF PutStamp, used
<1>3. /\ puts' \in Seq(Write)
      /\ \A i \in DOMAIN puts' : i \in Nat /\ i + 1 \in DOMAIN puts /\ puts'[i] = puts[i + 1]
      /\ \A j \in DOMAIN puts : j > 1 => j - 1 \in DOMAIN puts' /\ puts'[j - 1] = puts[j]
      /\ puts[1] \in Write /\ 1 \in DOMAIN puts /\ Head(puts) = puts[1]
      /\ \A j \in DOMAIN puts : j \in Nat /\ j >= 1
      /\ InOrder' /\ RowIsOfLast'
      /\ memory' \in SettingRecord /\ hydrated' \in BOOLEAN
      /\ dirty' \in BOOLEAN /\ due' \in BOOLEAN
  BY <1>2, FirstEnds
<1>4. own' \in Stamped'
  <2>1. puts[1].prefs \in SettingRecord
    BY <1>3 DEF Write
  <2>2. now + 1 \in 0..now' /\ now' \in Nat
    BY <1>1, <1>2
  <2>3. [prefs |-> puts[1].prefs, ts |-> now + 1] \in Stamped'
    BY <2>1, <2>2 DEF Stamped
  <2>4. Nothing \in Stamped'
    BY <2>2 DEF Nothing, Stamped
  <2> QED BY <1>2, <1>3, <2>3, <2>4
<1>5. PrefShape'
  <2>1. /\ row' \in SettingRecord \cup {NoRow} /\ stamp' \in 0..now'
        /\ known' \in BOOLEAN /\ changes' \in 0..MaxChanges
        /\ lane' \in [Lanes -> SyncCall] /\ vault' \in Stamped
    BY <1>1, <1>2 DEF PrefShape, PreferencesTypeOK
  <2>2. other' \in Stamped'
    BY <1>1, <1>2, StampedLater DEF PrefShape, PreferencesTypeOK
  <2> QED BY <1>1, <1>2, <1>3, <1>4, <2>1, <2>2, PrefShapeKept
<1>6. own'.ts > 0 => puts[1].calm /\ own' = [prefs |-> puts[1].prefs, ts |-> now + 1]
  BY <1>2, <1>3 DEF Nothing
<1>7. OwnStands'
  <2> SUFFICES ASSUME own'.ts > 0, \A i \in DOMAIN puts' : puts'[i].stage = "row"
               PROVE  row' = own'.prefs /\ stamp' = own'.ts
    BY DEF OwnStands
  <2>1. \A j \in DOMAIN puts : 1 < j => puts[j].stage = "row"
    BY <1>3
  <2>2. LastToPut(1)
    BY <1>2, <1>3, <2>1 DEF LastToPut
  <2>3. row = puts[1].prefs
    BY <1>3, <1>6, <2>2 DEF PrefInv, RowIsOfLast
  <2> QED BY <1>2, <1>6, <2>3
<1>8. (own.ts <= stamp)'
  BY <1>1, <1>2 DEF Nothing
<1>9. ImportIsNewer'
  <2> SUFFICES ASSUME Importing
               PROVE  /\ \A i \in DOMAIN puts' : ~puts'[i].calm
                      /\ lane["pull"].carries.prefs # NoRow
                      /\ own'.ts = 0
    BY <1>2 DEF ImportIsNewer, Importing
  <2>1. ~puts[1].calm
    BY <1>3 DEF PrefInv, ImportIsNewer
  <2>2. own'.ts = 0
    BY <1>2, <1>3, <2>1 DEF Nothing
  <2> QED BY <1>3, <2>2 DEF PrefInv, ImportIsNewer
<1> QED BY <1>3, <1>5, <1>7, <1>8, <1>9 DEF PrefInv

\* WriteFails: the first write ends without its row or without its stamp.
LEMMA WriteFailsKeepsInv ==
    ASSUME PrefInv, WriteFails
    PROVE  PrefInv'
<1>1. PrefShape /\ now \in Nat
  BY DEF PrefInv, PrefShape, PreferencesTypeOK
<1>2. /\ puts # <<>> /\ puts' = Tail(puts) /\ WriteReturns
      /\ own' = IF Head(puts).stage = "row" THEN own ELSE Nothing
      /\ UNCHANGED <<row, stamp, lane, known, vault, other, now, changes>>
  BY DEF WriteFails
<1>3. /\ puts' \in Seq(Write)
      /\ \A i \in DOMAIN puts' : i \in Nat /\ i + 1 \in DOMAIN puts /\ puts'[i] = puts[i + 1]
      /\ \A j \in DOMAIN puts : j > 1 => j - 1 \in DOMAIN puts' /\ puts'[j - 1] = puts[j]
      /\ puts[1] \in Write /\ 1 \in DOMAIN puts /\ Head(puts) = puts[1]
      /\ \A j \in DOMAIN puts : j \in Nat /\ j >= 1
      /\ InOrder' /\ RowIsOfLast'
      /\ memory' \in SettingRecord /\ hydrated' \in BOOLEAN
      /\ dirty' \in BOOLEAN /\ due' \in BOOLEAN
  BY <1>2, FirstEnds
<1>4. own' \in Stamped'
  <2>1. Nothing \in Stamped' /\ own \in Stamped'
    BY <1>1, <1>2, NothingFits, StampedLater DEF PrefShape, PreferencesTypeOK
  <2> QED BY <1>2, <2>1
<1>5. PrefShape'
  <2>1. /\ row' \in SettingRecord \cup {NoRow} /\ stamp' \in 0..now'
        /\ known' \in BOOLEAN /\ changes' \in 0..MaxChanges
        /\ lane' \in [Lanes -> SyncCall] /\ vault' \in Stamped
    BY <1>1, <1>2 DEF PrefShape, PreferencesTypeOK
  <2>2. other' \in Stamped'
    BY <1>1, <1>2, StampedLater DEF PrefShape, PreferencesTypeOK
  <2> QED BY <1>1, <1>2, <1>3, <1>4, <2>1, <2>2, PrefShapeKept
<1>6. own'.ts = 0 \/ (own' = own /\ puts[1].stage = "row")
  BY <1>2, <1>3 DEF Nothing
<1>7. OwnStands'
  <2> SUFFICES ASSUME own'.ts > 0
               PROVE  stamp > own.ts \/ (row = own.prefs /\ stamp = own.ts)
    BY <1>2, <1>6 DEF OwnStands
  <2>1. own' = own /\ puts[1].stage = "row"
    BY <1>6
  <2>2. ASSUME NEW j \in DOMAIN puts PROVE puts[j].stage = "row"
    <3>1. puts[j].stage \in {"row", "stamp"}
      <4>1. puts \in Seq(Write)
        BY <1>1 DEF PrefShape, PreferencesTypeOK
      <4>2. puts[j] \in Write
        BY <4>1
      <4> QED BY <4>2 DEF Write
    <3>2. CASE j = 1
      BY <2>1, <3>2
    <3>3. CASE 1 < j
      BY <1>3, <2>1, <3>1, <3>3 DEF PrefInv, InOrder
    <3> QED BY <1>3, <3>2, <3>3
  <2> QED BY <2>1, <2>2 DEF PrefInv, OwnStands
<1>8. (own.ts <= stamp)'
  BY <1>1, <1>2, <1>6 DEF PrefInv, PrefShape, PreferencesTypeOK
<1>9. ImportIsNewer'
  <2> SUFFICES ASSUME Importing
               PROVE  /\ \A i \in DOMAIN puts' : ~puts'[i].calm
                      /\ lane["pull"].carries.prefs # NoRow
                      /\ own'.ts = 0 \/ own'.ts < lane["pull"].carries.ts
    BY <1>2 DEF ImportIsNewer, Importing
  <2> QED BY <1>3, <1>6 DEF PrefInv, ImportIsNewer
<1> QED BY <1>3, <1>5, <1>7, <1>8, <1>9 DEF PrefInv

\* ReloadTab: the writes and the calls are gone.
LEMMA ReloadKeepsInv ==
    ASSUME PrefInv, ReloadTab
    PROVE  PrefInv'
<1>1. PrefShape /\ now \in Nat /\ puts \in Seq(Write)
  BY DEF PrefInv, PrefShape, PreferencesTypeOK
<1>2. /\ memory' = Default /\ hydrated' = FALSE /\ puts' = <<>> /\ due' = FALSE
      /\ lane' = [l \in Lanes |-> NoCall] /\ known' = FALSE
      /\ own' = IF \E i \in DOMAIN puts : puts[i].stage = "stamp" THEN Nothing ELSE own
      /\ UNCHANGED <<row, stamp, dirty, vault, other, now, changes>>
  BY DEF ReloadTab
<1>3. puts' \in Seq(Write) /\ DOMAIN puts' = {}
  BY <1>2
<1>4. /\ lane' \in [Lanes -> SyncCall] /\ ~Importing'
      /\ Default \in SettingRecord /\ Nothing \in Stamped
  <2>1. "pull" \in Lanes
    BY DEF Lanes
  <2>2. /\ NoCall \in SyncCall /\ NoCall.stage = "idle"
        /\ Default \in SettingRecord /\ Nothing \in Stamped
    BY <1>1, NothingFits
  <2> QED BY <1>2, <2>1, <2>2 DEF Importing
<1>5. PrefShape'
  <2>1. /\ row' \in SettingRecord \cup {NoRow} /\ stamp' \in 0..now'
        /\ dirty' \in BOOLEAN /\ changes' \in 0..MaxChanges /\ vault' \in Stamped
    BY <1>1, <1>2 DEF PrefShape, PreferencesTypeOK
  <2>2. other' \in Stamped' /\ own' \in Stamped'
    BY <1>1, <1>2, <1>4, StampedLater DEF PrefShape, PreferencesTypeOK
  <2> QED BY <1>1, <1>2, <1>3, <1>4, <2>1, <2>2, PrefShapeKept
<1>6. InOrder' /\ RowIsOfLast'
  BY <1>3 DEF InOrder, RowIsOfLast
<1>7. own'.ts = 0 \/ (own' = own /\ \A i \in DOMAIN puts : puts[i].stage = "row")
  <2>1. \A i \in DOMAIN puts : puts[i] \in Write
    BY <1>1
  <2>2. \A i \in DOMAIN puts : puts[i].stage \in {"row", "stamp"}
    BY <2>1 DEF Write
  <2> QED BY <1>2, <2>2 DEF Nothing
<1>8. OwnStands'
  BY <1>2, <1>7 DEF PrefInv, OwnStands
<1>9. (own.ts <= stamp)'
  BY <1>1, <1>2, <1>7 DEF PrefInv, PrefShape, PreferencesTypeOK
<1>10. ImportIsNewer'
  BY <1>4 DEF ImportIsNewer
<1> QED BY <1>5, <1>6, <1>8, <1>9, <1>10 DEF PrefInv

-----------------------------------------------------------------------------
(* The gate and the import.                                                *)

\* Writes that are no longer calm keep their order.
LEMMA DisturbedKeep ==
    ASSUME PrefInv, puts' = Disturbed
    PROVE  /\ puts' \in Seq(Write) /\ DOMAIN puts' = DOMAIN puts
           /\ \A i \in DOMAIN puts : puts'[i].stage = puts[i].stage /\ ~puts'[i].calm
           /\ InOrder' /\ RowIsOfLast'
<1>1. puts \in Seq(Write)
  BY DEF PrefInv, PrefShape, PreferencesTypeOK
<1>2. /\ puts' \in Seq(Write) /\ DOMAIN puts' = DOMAIN puts
      /\ \A i \in DOMAIN puts : puts'[i].stage = puts[i].stage /\ puts'[i].calm = FALSE
  BY <1>1, DisturbedWrites
<1>3. InOrder'
  BY <1>2 DEF PrefInv, InOrder
<1>4. RowIsOfLast'
  BY <1>2 DEF RowIsOfLast
<1> QED BY <1>2, <1>3, <1>4

\* Gate: only a vault with a later stamp than the row's passes.
LEMMA GateKeepsInv ==
    ASSUME PrefInv, Gate
    PROVE  PrefInv'
<1>1. /\ PrefShape /\ now \in Nat /\ lane \in [Lanes -> SyncCall] /\ "pull" \in Lanes
      /\ stamp \in Nat /\ own \in Stamped
  BY DEF PrefInv, PrefShape, PreferencesTypeOK, Lanes
<1>2. UNCHANGED <<row, stamp, memory, hydrated, dirty, due, vault, other, now, changes, own>>
  BY DEF Gate, used
<1>3. /\ memory' \in SettingRecord /\ hydrated' \in BOOLEAN /\ dirty' \in BOOLEAN
      /\ due' \in BOOLEAN /\ vault' \in Stamped /\ now' \in {now, now + 1}
      /\ row' \in SettingRecord \cup {NoRow} /\ stamp' \in 0..now' /\ changes' \in 0..MaxChanges
  BY <1>1, <1>2 DEF PrefShape, PreferencesTypeOK
<1>4. other' \in Stamped' /\ own' \in Stamped'
  BY <1>1, <1>2, StampedLater DEF PrefShape, PreferencesTypeOK
<1>5. CASE Newer(lane["pull"].carries)
  <2>1. /\ lane' = [lane EXCEPT !["pull"].stage = "import"]
        /\ puts' = Disturbed /\ known' = known
    BY <1>5 DEF Gate
  <2> DEFINE c == [lane["pull"] EXCEPT !.stage = "import"]
  <2>2. c \in SyncCall /\ c.carries = lane["pull"].carries
    BY <1>1 DEF SyncCall
  <2>3. lane' = [lane EXCEPT !["pull"] = c]
    BY <1>1, <2>1
  <2> HIDE DEF c
  <2>4. lane' \in [Lanes -> SyncCall] /\ lane'["pull"].carries = lane["pull"].carries
    BY <1>1, <2>2, <2>3, LaneMoves
  <2>5. /\ puts' \in Seq(Write) /\ DOMAIN puts' = DOMAIN puts
        /\ \A i \in DOMAIN puts : puts'[i].stage = puts[i].stage /\ ~puts'[i].calm
        /\ InOrder' /\ RowIsOfLast'
    BY <2>1, DisturbedKeep
  <2>6. known' \in BOOLEAN
    BY <1>1, <2>1 DEF PrefShape, PreferencesTypeOK
  <2>7. PrefShape'
    BY <1>1, <1>3, <1>4, <2>4, <2>5, <2>6, PrefShapeKept
  <2>8. OwnStands' /\ (own.ts <= stamp)'
    BY <1>2, <2>5 DEF PrefInv, OwnStands
  <2>9. ImportIsNewer'
    <3>1. lane["pull"].carries \in Stamped
      BY <1>1, CallsCarry
    <3>2. own.ts \in Nat /\ lane["pull"].carries.ts \in Nat
      BY <1>1, <3>1 DEF Stamped
    <3>3. /\ lane["pull"].carries.prefs # NoRow
          /\ own.ts < lane["pull"].carries.ts
      BY <1>1, <1>5, <3>2 DEF Newer, PrefInv
    <3> QED BY <1>2, <2>4, <2>5, <3>3 DEF ImportIsNewer
  <2> QED BY <2>5, <2>7, <2>8, <2>9 DEF PrefInv
<1>6. CASE ~Newer(lane["pull"].carries)
  <2>1. Leave("pull") /\ known' = lane["pull"].current /\ puts' = puts
    BY <1>6 DEF Gate
  <2>2. NoCall \in SyncCall /\ NoCall.stage = "idle"
    BY <1>1, NothingFits
  <2>3. lane' \in [Lanes -> SyncCall] /\ SameImport
    BY <1>1, <2>1, <2>2, LaneMovesSafely DEF Leave
  <2>4. known' \in BOOLEAN
    BY <1>1, <2>1, CallsCarry
  <2> QED BY <1>2, <1>3, <1>4, <2>1, <2>3, <2>4, QuietStepKeepsInv
<1> QED BY <1>5, <1>6

\* Import: a vault takes the place of the row, one that passed the gate or the one of a
\* restore, which gives up what the device wrote.
LEMMA ImportKeepsInv ==
    ASSUME PrefInv, NEW l \in {"pull", "restore"}, Import(l)
    PROVE  PrefInv'
<1> DEFINE c == lane[l]
           replaces == c.carries.prefs # NoRow \/ c.op = "merge"
           unstamped == c.carries.prefs # NoRow /\ c.carries.ts = 0
<1>1. /\ PrefShape /\ now \in Nat /\ lane \in [Lanes -> SyncCall] /\ l \in Lanes
      /\ "pull" \in Lanes /\ stamp \in 0..now /\ row \in SettingRecord \cup {NoRow}
      /\ own \in Stamped
  BY DEF PrefInv, PrefShape, PreferencesTypeOK, Lanes
<1>2. /\ c.stage = "import"
      /\ row' = IF replaces THEN c.carries.prefs ELSE row
      /\ now' = IF unstamped THEN now + 1 ELSE now
      /\ stamp' = IF unstamped THEN now + 1 ELSE IF replaces THEN c.carries.ts ELSE stamp
      /\ puts' = Disturbed
      /\ UNCHANGED <<memory, hydrated, dirty, due, vault, other, changes>>
  BY DEF Import, used
<1>3. c.carries \in Stamped /\ c.current \in BOOLEAN /\ c \in SyncCall
  BY <1>1, CallsCarry
<1>4. c.carries.prefs \in SettingRecord \cup {NoRow} /\ c.carries.ts \in 0..now
  BY <1>3 DEF Stamped
<1>5. /\ puts' \in Seq(Write) /\ DOMAIN puts' = DOMAIN puts
      /\ \A i \in DOMAIN puts : puts'[i].stage = puts[i].stage /\ ~puts'[i].calm
      /\ InOrder' /\ RowIsOfLast'
  BY <1>2, DisturbedKeep
<1>6. /\ l = "pull" => Leave(l) /\ known' = c.current /\ own' = own
      /\ l # "pull" => /\ lane' = [lane EXCEPT ![l].stage = "reload"]
                       /\ own' = Nothing /\ known' = known
  BY DEF Import
<1>7. lane' \in [Lanes -> SyncCall] /\ SameImport
  <2>1. CASE l = "pull"
    <3>1. NoCall \in SyncCall /\ NoCall.stage = "idle"
      BY <1>1, NothingFits
    <3> QED BY <1>1, <1>6, <2>1, <3>1, LaneMovesSafely DEF Leave
  <2>2. CASE l # "pull"
    <3> DEFINE d == [c EXCEPT !.stage = "reload"]
    <3>1. d \in SyncCall
      BY <1>3 DEF SyncCall
    <3>2. lane' = [lane EXCEPT ![l] = d]
      BY <1>1, <1>6, <2>2
    <3> HIDE DEF d, c
    <3> QED BY <1>1, <2>2, <3>1, <3>2, LaneMovesSafely
  <2> QED BY <2>1, <2>2
<1> HIDE DEF c
<1>8. PrefShape'
  <2>1. row' \in SettingRecord \cup {NoRow}
    BY <1>1, <1>2, <1>4
  <2>2. now' \in {now, now + 1} /\ stamp' \in 0..now'
    BY <1>1, <1>2, <1>4
  <2>3. now' \in Nat /\ now <= now'
    BY <1>1, <2>2
  <2>4. other' \in Stamped' /\ own' \in Stamped'
    <3>1. other \in Stamped /\ own \in Stamped /\ Nothing \in Stamped
      BY <1>1, NothingFits DEF PrefShape, PreferencesTypeOK
    <3> QED BY <1>1, <1>2, <1>6, <2>3, <3>1, StampedLater
  <2>5. known' \in BOOLEAN
    BY <1>1, <1>3, <1>6 DEF PrefShape, PreferencesTypeOK
  <2>6. /\ memory' \in SettingRecord /\ hydrated' \in BOOLEAN /\ dirty' \in BOOLEAN
        /\ due' \in BOOLEAN /\ vault' \in Stamped /\ changes' \in 0..MaxChanges
    BY <1>1, <1>2 DEF PrefShape, PreferencesTypeOK
  <2> QED BY <1>1, <1>5, <1>7, <2>1, <2>2, <2>4, <2>5, <2>6, PrefShapeKept
<1>9. OwnStands' /\ (own.ts <= stamp)'
  <2>1. CASE l = "pull"
    <3>1. Importing
      BY <1>2, <2>1 DEF Importing, c
    <3>2. c.carries.prefs # NoRow /\ (own.ts = 0 \/ own.ts < c.carries.ts)
      BY <2>1, <3>1 DEF PrefInv, ImportIsNewer, c
    <3>3. own.ts \in Nat /\ own' = own
      BY <1>1, <1>6, <2>1 DEF Stamped
    <3>4. own.ts = 0 \/ stamp' > own.ts
      BY <1>1, <1>2, <1>4, <3>2, <3>3
    <3>5. stamp' \in Nat
      BY <1>1, <1>2, <1>4
    <3> QED BY <3>3, <3>4, <3>5 DEF OwnStands
  <2>2. CASE l # "pull"
    <3>1. own'.ts = 0 /\ stamp' \in Nat
      BY <1>1, <1>2, <1>4, <1>6, <2>2 DEF Nothing
    <3> QED BY <3>1 DEF OwnStands
  <2> QED BY <2>1, <2>2
<1>10. ImportIsNewer'
  <2> SUFFICES ASSUME Importing'
               PROVE  /\ \A i \in DOMAIN puts' : ~puts'[i].calm
                      /\ lane'["pull"].carries.prefs # NoRow
                      /\ own'.ts = 0 \/ own'.ts < lane'["pull"].carries.ts
    BY DEF ImportIsNewer
  <2>1. Importing /\ lane'["pull"].carries = lane["pull"].carries
    BY <1>7 DEF SameImport
  <2>2. own' = own \/ own'.ts = 0
    BY <1>6 DEF Nothing
  <2> QED BY <1>5, <2>1, <2>2 DEF PrefInv, ImportIsNewer
<1> QED BY <1>5, <1>8, <1>9, <1>10 DEF PrefInv

-----------------------------------------------------------------------------
(* The theorems.                                                           *)

\* The device may have a row and a stamp; nothing is under way.
LEMMA PrefInitInv ==
    PreferencesInit => PrefInv
<1> SUFFICES ASSUME PreferencesInit PROVE PrefInv
  OBVIOUS
<1>1. now = 1 /\ NoCall \in SyncCall /\ NoCall.stage = "idle" /\ Default \in SettingRecord
      /\ Nothing \in Stamped
  BY NothingFits DEF PreferencesInit
<1> DEFINE first(has) == IF has THEN [prefs |-> Default, ts |-> 1] ELSE Nothing
<1>2. \A has \in BOOLEAN : /\ first(has) \in Stamped
                           /\ first(has).prefs \in SettingRecord \cup {NoRow}
                           /\ first(has).ts \in 0..now
  <2>1. [prefs |-> Default, ts |-> 1] \in Stamped
    BY <1>1 DEF Stamped
  <2>2. \A has \in BOOLEAN : first(has) \in Stamped
    BY <1>1, <2>1
  <2> QED BY <2>2 DEF Stamped
<1>3. PICK here, there, shared \in BOOLEAN :
          /\ row = first(here).prefs /\ stamp = first(here).ts
          /\ vault = first(shared /\ (here \/ there))
          /\ other = first(there)
  BY DEF PreferencesInit
<1>4. vault \in Stamped /\ other \in Stamped
  <2>1. (shared /\ (here \/ there)) \in BOOLEAN
    OBVIOUS
  <2> HIDE DEF first
  <2> QED BY <1>2, <1>3, <2>1
<1> HIDE DEF first
<1>5. /\ memory = Default /\ hydrated = FALSE /\ puts = <<>> /\ dirty = FALSE /\ due = FALSE
      /\ lane = [l \in Lanes |-> NoCall] /\ known = FALSE /\ changes = 0 /\ own = Nothing
  BY DEF PreferencesInit
<1>6. puts \in Seq(Write) /\ DOMAIN puts = {}
  BY <1>5
<1>7. lane \in [Lanes -> SyncCall] /\ ~Importing
  BY <1>1, <1>5 DEF Importing, Lanes
<1>8. PrefShape
  <2>1. row \in SettingRecord \cup {NoRow} /\ stamp \in 0..now
    BY <1>2, <1>3
  <2>2. now \in Nat /\ changes \in 0..MaxChanges
    BY <1>1, <1>5, PreferencesAssumption
  <2>3. memory \in SettingRecord /\ own \in Stamped
    BY <1>1, <1>5
  <2> QED BY <1>4, <1>5, <1>6, <1>7, <2>1, <2>2, <2>3 DEF PrefShape, PreferencesTypeOK
<1>9. own.ts = 0 /\ stamp \in Nat
  BY <1>1, <1>2, <1>3, <1>5 DEF Nothing
<1> QED BY <1>6, <1>7, <1>8, <1>9
        DEF PrefInv, InOrder, RowIsOfLast, OwnStands, ImportIsNewer

\* Whatever the store, the vault, the other devices and failures do, the invariant holds.
THEOREM PreferencesInvariant == PreferencesSpec => []PrefInv
<1>1. PrefInv /\ [PreferencesNext]_prefVars => PrefInv'
  <2> SUFFICES ASSUME PrefInv, [PreferencesNext]_prefVars PROVE PrefInv'
    OBVIOUS
  <2>1. CASE PreferencesNext
    BY <2>1, HydrateKeepsInv, UpdateKeepsInv, PutRowKeepsInv, PutStampKeepsInv,
       WriteFailsKeepsInv, ReloadKeepsInv, BeginKeepsInv, RequestKeepsInv, OthersKeepInv,
       FetchedKeepsInv, ImportKeepsInv, GateKeepsInv, RestoredKeepsInv
    DEF PreferencesNext
  <2>2. CASE UNCHANGED prefVars
    BY <2>2 DEF prefVars, PrefInv, PrefShape, PreferencesTypeOK, InOrder, RowIsOfLast, LastToPut,
                OwnStands, ImportIsNewer, Importing, Stamped, SyncCall
  <2> QED BY <2>1, <2>2
<1> QED BY <1>1, PrefInitInv, PTL DEF PreferencesSpec

\* ADR 022: a change of the device that no import overlapped stands until a later stamp
\* takes its place, whatever the other devices push, whatever fails, and however often the
\* tab is reloaded (gatePreferencesByTimestamp, putPreferences).
THEOREM OwnChangesAreKept == PreferencesSpec => []OwnChangeStands
<1>1. PrefInv => OwnChangeStands
  <2> SUFFICES ASSUME PrefInv, own.ts > 0, puts = <<>>
               PROVE  stamp > own.ts \/ Export = own
    BY DEF OwnChangeStands
  <2>1. DOMAIN puts = {}
    OBVIOUS
  <2>2. stamp > own.ts \/ (row = own.prefs /\ stamp = own.ts)
    BY <2>1 DEF PrefInv, OwnStands
  <2>3. own = [prefs |-> own.prefs, ts |-> own.ts]
    BY DEF PrefInv, PrefShape, PreferencesTypeOK, Stamped
  <2> QED BY <2>2, <2>3 DEF Export
<1> QED BY <1>1, PreferencesInvariant, PTL

-----------------------------------------------------------------------------
(* The list of feeds: the invariant.                                       *)

\* What an operation holds at each of its stages.
Fits(w) ==
    /\ w.at \in {"check", "look", "clean", "fetch", "store"}
       => w.feed.url \in Urls /\ w.feed.id = 0
    /\ w.op = "remove" => w.feed \in Feed /\ w.at \in {"drop", "reload"}
    /\ w.at = "put" /\ w.op # "delete" => w.feed \in Feed
    /\ w.at = "shelve" => w.folder \in FolderIds

\* An operation holds no copy of a record that was removed.
Unremoved(w) == w.feed.id \notin removed /\ \A f \in w.todo : f.id \notin removed

CalmIsAlone ==
    \A t \in Tasks : ~Idle(t) /\ work[t].calm => \A s \in Tasks \ {t} : Idle(s)

\* A removal that has deleted the record, with nothing else in progress.
RemovalIsDone ==
    \A t \in Tasks : work[t].op = "remove" /\ work[t].at = "reload" /\ work[t].calm
                     => \A f \in feeds : f.id # work[t].feed.id

SubsInv ==
    /\ SubscriptionsTypeOK
    /\ \A t \in Tasks : Fits(work[t]) /\ Unremoved(work[t])
    /\ CalmIsAlone
    /\ RemovalIsDone
    /\ \A f \in feeds \cup shown : f.id \notin removed

-----------------------------------------------------------------------------
(* Operations and records.                                                 *)

OneEach(records) == \A f, g \in records : f.url = g.url \/ f.id = g.id => f = g

\* A record stays one when ids are given.
LEMMA FeedsLast ==
    ASSUME ids \in Nat, ids' \in {ids, ids + 1}
    PROVE  ids' \in Nat /\ Feed \subseteq Feed' /\ Work \subseteq Work' /\ 1..ids \subseteq 1..ids'
<1>1. ids' \in Nat /\ 1..ids \subseteq 1..ids'
  OBVIOUS
<1>2. Feed \subseteq Feed'
  BY <1>1 DEF Feed
<1>3. Work \subseteq Work'
  BY <1>2 DEF Work
<1> QED BY <1>1, <1>2, <1>3

\* An operation at rest.
LEMMA NoWorkFits ==
    ASSUME SubscriptionsTypeOK
    PROVE  NoWork \in Work /\ NoWork \in Work' /\ Fits(NoWork) /\ Fits(NoWork)' /\ Unremoved(NoWork)
           /\ NoWork.op = "none" /\ NoWork.at = "done"
           /\ NoFeed \in [url : Urls \cup {NoUrl}, id : {0}, folder : {0}] /\ NoFeed.id \notin removed
<1>1. NoFeed \in [url : Urls \cup {NoUrl}, id : {0}, folder : {0}] /\ NoFeed.id = 0
  BY DEF NoFeed
<1>2. 0 \notin removed
  BY DEF SubscriptionsTypeOK
<1>3. 0 \in 0..MaxFolders
  BY SubscriptionsAssumption
<1>4. /\ NoWork.op = "none" /\ NoWork.at = "done" /\ NoWork.feed = NoFeed
      /\ NoWork.todo = {} /\ NoWork.folder = 0
  BY DEF NoWork
<1>5. NoWork \in Work /\ NoWork \in Work'
  BY <1>1, <1>3 DEF NoWork, Work
<1> QED BY <1>1, <1>2, <1>4, <1>5 DEF Fits, Unremoved

\* An operation that is somewhere is under way.
LEMMA NotIdle ==
    ASSUME NEW t \in Tasks, work[t].at # "done"
    PROVE  ~Idle(t)
BY DEF Idle, NoWork

\* One operation takes a step that leaves the tables as they should be.
LEMMA TaskStepKeepsInv ==
    ASSUME SubsInv, NEW t \in Tasks, ~Idle(t), NEW w \in Work', work' = [work EXCEPT ![t] = w],
           Fits(w)', Unremoved(w), w = NoWork \/ w.calm = work[t].calm,
           w.op = "remove" /\ w.at = "reload" /\ w.calm => \A f \in feeds' : f.id # w.feed.id,
           ids' \in {ids, ids + 1}, made' \in FolderIds, removed' \subseteq removed,
           elsewhere' \subseteq Feed',
           feeds' \subseteq Feed', OneEach(feeds'), orphans' \subseteq Urls,
           shown' \subseteq Feed', folders' \subseteq FolderIds, shelves' \subseteq FolderIds,
           \A f \in feeds' \cup shown' : f.id \notin removed'
    PROVE  SubsInv'
<1>1. /\ ids \in Nat /\ work \in [Tasks -> Work] /\ removed \subseteq 1..ids
      /\ \A s \in Tasks : Fits(work[s]) /\ Unremoved(work[s])
  BY DEF SubsInv, SubscriptionsTypeOK
<1>2. ids' \in Nat /\ Feed \subseteq Feed' /\ Work \subseteq Work' /\ 1..ids \subseteq 1..ids'
  BY <1>1, FeedsLast
<1>3. work'[t] = w /\ \A s \in Tasks \ {t} : work'[s] = work[s]
  BY <1>1
<1>4. SubscriptionsTypeOK'
  <2>1. work' \in [Tasks -> Work']
    BY <1>1, <1>2
  <2>2. removed' \subseteq 1..ids'
    BY <1>1, <1>2
  <2> QED BY <1>2, <2>1, <2>2 DEF SubscriptionsTypeOK, OneEach, FolderIds
<1>5. ASSUME NEW s \in Tasks PROVE Fits(work[s])' /\ Unremoved(work[s])'
  <2>1. CASE s = t
    BY <1>3, <2>1 DEF Fits, Unremoved
  <2>2. CASE s # t
    <3>1. work'[s] = work[s] /\ Fits(work[s]) /\ Unremoved(work[s])
      BY <1>1, <1>3, <2>2
    <3> QED BY <1>2, <3>1 DEF Fits, Unremoved, FolderIds
  <2> QED BY <2>1, <2>2
<1>6. CalmIsAlone'
  <2> SUFFICES ASSUME NEW a \in Tasks, work'[a] # NoWork, work'[a].calm,
                      NEW b \in Tasks \ {a}
               PROVE  work'[b] = NoWork
    BY DEF CalmIsAlone, Idle
  <2>1. CASE a = t
    <3>1. ~Idle(t) /\ work[t].calm
      BY <1>3, <2>1
    <3>2. Idle(b)
      BY <2>1, <3>1 DEF SubsInv, CalmIsAlone
    <3> QED BY <1>3, <2>1, <3>2 DEF Idle
  <2>2. CASE a # t
    <3>1. ~Idle(a) /\ work[a].calm
      BY <1>3, <2>2 DEF Idle
    <3>2. Idle(t)
      BY <2>2, <3>1 DEF SubsInv, CalmIsAlone
    <3> QED BY <3>2
  <2> QED BY <2>1, <2>2
<1>7. RemovalIsDone'
  <2> SUFFICES ASSUME NEW s \in Tasks, work'[s].op = "remove", work'[s].at = "reload",
                      work'[s].calm, NEW f \in feeds'
               PROVE  f.id # work'[s].feed.id
    BY DEF RemovalIsDone
  <2>1. CASE s = t
    BY <1>3, <2>1
  <2>2. CASE s # t
    <3>1. ~Idle(s) /\ work[s].calm
      BY <1>3, <2>2 DEF Idle, NoWork
    <3>2. Idle(t)
      BY <2>2, <3>1 DEF SubsInv, CalmIsAlone
    <3> QED BY <3>2
  <2> QED BY <2>1, <2>2
<1> QED BY <1>4, <1>5, <1>6, <1>7 DEF SubsInv

\* The tables are as they should be; an operation moves on and leaves them alone.
LEMMA WorkMovesKeepInv ==
    ASSUME SubsInv, NEW t \in Tasks, ~Idle(t), NEW w \in Work, work' = [work EXCEPT ![t] = w],
           Fits(w), Unremoved(w), w = NoWork \/ w.calm = work[t].calm,
           w.op = "remove" => w.at # "reload",
           UNCHANGED <<feeds, orphans, folders, shown, shelves, ids, made, elsewhere, removed>>
    PROVE  SubsInv'
<1>1. /\ ids \in Nat /\ feeds \subseteq Feed /\ OneEach(feeds) /\ orphans \subseteq Urls
      /\ shown \subseteq Feed /\ folders \subseteq FolderIds /\ shelves \subseteq FolderIds
      /\ made \in FolderIds /\ elsewhere \subseteq Feed
      /\ \A f \in feeds \cup shown : f.id \notin removed
  BY DEF SubsInv, SubscriptionsTypeOK, OneEach
<1>2. Feed \subseteq Feed' /\ Work \subseteq Work' /\ ids' = ids
  BY <1>1, FeedsLast
<1>3. Fits(w)'
  BY <1>2 DEF Fits, FolderIds
<1> QED BY <1>1, <1>2, <1>3, TaskStepKeepsInv

\* An operation ends.
LEMMA EndKeepsInv ==
    ASSUME SubsInv, NEW t \in Tasks, ~Idle(t), End(t),
           UNCHANGED <<feeds, orphans, folders, shown, shelves, ids, made, elsewhere, removed>>
    PROVE  SubsInv'
<1>1. NoWork \in Work /\ Fits(NoWork) /\ Unremoved(NoWork) /\ NoWork.op = "none"
  BY NoWorkFits DEF SubsInv
<1> QED BY <1>1, WorkMovesKeepInv DEF End

Stages == {"done", "check", "look", "clean", "fetch", "store", "reload", "place", "put",
           "drop", "shelve", "import"}

Moved(t, at, feed, todo) == [work[t] EXCEPT !.at = at, !.feed = feed, !.todo = todo]

\* What an operation holds when it has moved on.
LEMMA MovedFits ==
    ASSUME SubsInv, NEW t \in Tasks, NEW at \in Stages,
           NEW feed \in Feed \cup [url : Urls \cup {NoUrl}, id : {0}, folder : {0}],
           NEW todo \in SUBSET Feed
    PROVE  /\ Moved(t, at, feed, todo) \in Work
           /\ Moved(t, at, feed, todo).op = work[t].op
           /\ Moved(t, at, feed, todo).at = at
           /\ Moved(t, at, feed, todo).feed = feed
           /\ Moved(t, at, feed, todo).todo = todo
           /\ Moved(t, at, feed, todo).folder = work[t].folder
           /\ Moved(t, at, feed, todo).calm = work[t].calm
           /\ Hold(t, at, feed, todo) => work' = [work EXCEPT ![t] = Moved(t, at, feed, todo)]
<1>1. work[t] \in Work /\ work \in [Tasks -> Work]
  BY DEF SubsInv, SubscriptionsTypeOK
<1>2. Hold(t, at, feed, todo) => work' = [work EXCEPT ![t] = Moved(t, at, feed, todo)]
  BY <1>1 DEF Hold, Moved
<1>3. /\ Moved(t, at, feed, todo) \in Work
      /\ Moved(t, at, feed, todo).op = work[t].op
      /\ Moved(t, at, feed, todo).at = at
      /\ Moved(t, at, feed, todo).feed = feed
      /\ Moved(t, at, feed, todo).todo = todo
      /\ Moved(t, at, feed, todo).folder = work[t].folder
      /\ Moved(t, at, feed, todo).calm = work[t].calm
  BY <1>1 DEF Work, Moved, Stages
<1> QED BY <1>2, <1>3

Went(t, at) == [work[t] EXCEPT !.at = at]

\* The same when only its stage has changed.
LEMMA WentFits ==
    ASSUME SubsInv, NEW t \in Tasks, NEW at \in Stages
    PROVE  /\ Went(t, at) \in Work
           /\ Went(t, at).op = work[t].op
           /\ Went(t, at).at = at
           /\ Went(t, at).feed = work[t].feed
           /\ Went(t, at).todo = work[t].todo
           /\ Went(t, at).folder = work[t].folder
           /\ Went(t, at).calm = work[t].calm
           /\ Unremoved(Went(t, at))
           /\ Go(t, at) => work' = [work EXCEPT ![t] = Went(t, at)]
<1>1. work[t] \in Work /\ work \in [Tasks -> Work] /\ Unremoved(work[t])
  BY DEF SubsInv, SubscriptionsTypeOK
<1>2. Go(t, at) => work' = [work EXCEPT ![t] = Went(t, at)]
  BY <1>1 DEF Go, Went
<1>3. /\ Went(t, at) \in Work
      /\ Went(t, at).op = work[t].op
      /\ Went(t, at).at = at
      /\ Went(t, at).feed = work[t].feed
      /\ Went(t, at).todo = work[t].todo
      /\ Went(t, at).folder = work[t].folder
      /\ Went(t, at).calm = work[t].calm
  BY <1>1 DEF Work, Went, Stages
<1> QED BY <1>1, <1>2, <1>3 DEF Unremoved

-----------------------------------------------------------------------------
(* Operations begin.                                                       *)

\* One that begins is calm only when all others are at rest, and those in progress are
\* calm no longer.
LEMMA StartKeepsInv ==
    ASSUME SubsInv, NEW t \in Tasks,
           NEW op \in {"add", "import", "remove", "create", "delete", "file", "pull"},
           NEW at \in {"check", "place", "put", "drop", "shelve", "import"},
           NEW feed \in Feed \cup [url : Urls \cup {NoUrl}, id : {0}, folder : {0}],
           NEW todo \in SUBSET Feed, NEW folder \in 0..MaxFolders,
           Start(t, op, at, feed, todo, folder),
           at = "check" => feed.url \in Urls /\ feed.id = 0,
           op = "remove" => feed \in Feed /\ at = "drop",
           at = "put" => op = "delete",
           at = "shelve" => folder \in FolderIds,
           feed.id \notin removed, \A f \in todo : f.id \notin removed,
           made' \in FolderIds,
           UNCHANGED <<feeds, orphans, folders, shown, shelves, ids, elsewhere, removed>>
    PROVE  SubsInv'
<1> DEFINE q == QuietStore
           w == [op |-> op, at |-> at, feed |-> feed, todo |-> todo, folder |-> folder, calm |-> q]
           busy(s) == [work[s] EXCEPT !.calm = FALSE]
<1>1. /\ ids \in Nat /\ work \in [Tasks -> Work]
      /\ \A s \in Tasks : Fits(work[s]) /\ Unremoved(work[s])
  BY DEF SubsInv, SubscriptionsTypeOK
<1>2. q \in BOOLEAN /\ (q <=> \A s \in Tasks : Idle(s))
  BY DEF QuietStore
<1> HIDE DEF q
<1>3. /\ Idle(t)
      /\ work' = [s \in Tasks |-> IF s = t THEN w ELSE IF Idle(s) THEN NoWork ELSE busy(s)]
  BY DEF Start, q
<1>4. /\ w \in Work /\ w.op = op /\ w.at = at /\ w.feed = feed /\ w.todo = todo
      /\ w.folder = folder /\ w.calm = q
  BY <1>2 DEF Work
<1>5. Fits(w) /\ Unremoved(w)
  BY <1>4 DEF Fits, Unremoved
<1> HIDE DEF w
<1>6. ASSUME NEW s \in Tasks
      PROVE  /\ busy(s) \in Work /\ busy(s).calm = FALSE
             /\ busy(s).op = work[s].op /\ busy(s).at = work[s].at /\ busy(s).feed = work[s].feed
             /\ busy(s).todo = work[s].todo /\ busy(s).folder = work[s].folder
  <2>1. work[s] \in Work
    BY <1>1
  <2> QED BY <2>1 DEF Work
<1>7. \A s \in Tasks : Fits(busy(s)) /\ Unremoved(busy(s))
  BY <1>1, <1>6 DEF Fits, Unremoved
<1> HIDE DEF busy
<1>8. ASSUME NEW s \in Tasks
      PROVE  /\ s = t => work'[s] = w
             /\ s # t /\ Idle(s) => work'[s] = NoWork
             /\ s # t /\ ~Idle(s) => work'[s] = busy(s)
  BY <1>3
<1>9. NoWork \in Work /\ Fits(NoWork) /\ Unremoved(NoWork) /\ NoWork.op = "none"
  BY NoWorkFits DEF SubsInv
<1>10. Feed' = Feed /\ Work' = Work
  BY DEF Feed, Work
<1>11. SubscriptionsTypeOK'
  <2>1. work' \in [Tasks -> Work']
    BY <1>3, <1>4, <1>6, <1>9, <1>10
  <2> QED BY <1>10, <2>1 DEF SubsInv, SubscriptionsTypeOK
<1>12. ASSUME NEW s \in Tasks PROVE Fits(work[s])' /\ Unremoved(work[s])'
  <2>1. Fits(work'[s]) /\ Unremoved(work'[s])
    BY <1>5, <1>7, <1>8, <1>9
  <2> QED BY <1>10, <2>1 DEF Fits, Unremoved
<1>13. CalmIsAlone'
  <2> SUFFICES ASSUME NEW a \in Tasks, work'[a] # NoWork, work'[a].calm,
                      NEW b \in Tasks \ {a}
               PROVE  work'[b] = NoWork
    BY DEF CalmIsAlone, Idle
  <2>1. a = t
    BY <1>6, <1>8
  <2>2. Idle(b)
    BY <1>2, <1>4, <1>8, <2>1
  <2> QED BY <1>8, <2>1, <2>2
<1>14. RemovalIsDone'
  <2> SUFFICES ASSUME NEW s \in Tasks, work'[s].op = "remove", work'[s].at = "reload",
                      work'[s].calm
               PROVE  FALSE
    BY DEF RemovalIsDone
  <2>1. s = t
    BY <1>6, <1>8, <1>9
  <2> QED BY <1>4, <1>8, <2>1
<1> QED BY <1>11, <1>12, <1>13, <1>14 DEF SubsInv

\* BeginAdd, BeginRemove, BeginCreate, BeginDelete, BeginFile, BeginPullRows.
LEMMA BeginsKeepInv ==
    ASSUME SubsInv, NEW t \in Tasks,
           \/ \E u \in Urls : \/ BeginAdd(t, u, "add", 0)
                              \/ \E n \in shelves \cup {0} : BeginAdd(t, u, "import", n)
           \/ \E f \in shown : BeginRemove(t, f)
           \/ BeginCreate(t)
           \/ \E n \in shelves : BeginDelete(t, n)
           \/ \E some \in SUBSET shown, n \in shelves \cup {0} : BeginFile(t, some, n)
           \/ BeginPullRows(t)
    PROVE  SubsInv'
<1>1. /\ shown \subseteq Feed /\ shelves \subseteq FolderIds /\ made \in FolderIds
      /\ removed \subseteq 1..ids /\ ids \in Nat
      /\ \A f \in shown : f.id \notin removed
      /\ 0 \notin removed
  BY DEF SubsInv, SubscriptionsTypeOK
<1>2. /\ NoFeed \in [url : Urls \cup {NoUrl}, id : {0}, folder : {0}]
      /\ NoFeed.id \notin removed
  BY NoWorkFits DEF SubsInv
<1>3. 0 \in 0..MaxFolders /\ FolderIds \subseteq 0..MaxFolders /\ MaxFolders \in Nat
  BY SubscriptionsAssumption DEF FolderIds
<1>4. ASSUME NEW u \in Urls, NEW op \in {"add", "import"}, NEW n \in shelves \cup {0},
             BeginAdd(t, u, op, n)
      PROVE  SubsInv'
  <2>1. /\ Asked(u) \in [url : Urls \cup {NoUrl}, id : {0}, folder : {0}]
        /\ Asked(u).url = u /\ Asked(u).id = 0
    BY DEF Asked
  <2>2. /\ Start(t, op, "check", Asked(u), {}, n)
        /\ UNCHANGED <<feeds, orphans, folders, shown, shelves, ids, made, elsewhere, removed>>
    BY <1>4 DEF BeginAdd
  <2>3. n \in 0..MaxFolders
    BY <1>1, <1>3
  <2> QED BY <1>1, <2>1, <2>2, <2>3, StartKeepsInv
<1>5. ASSUME NEW f \in shown, BeginRemove(t, f) PROVE SubsInv'
  <2>1. /\ Start(t, "remove", "drop", f, {}, 0)
        /\ UNCHANGED <<feeds, orphans, folders, shown, shelves, ids, made, elsewhere, removed>>
    BY <1>5 DEF BeginRemove
  <2> QED BY <1>1, <1>3, <2>1, StartKeepsInv
<1>6. ASSUME BeginCreate(t) PROVE SubsInv'
  <2>1. /\ made < MaxFolders /\ made' = made + 1
        /\ Start(t, "create", "shelve", NoFeed, {}, made + 1)
        /\ UNCHANGED <<feeds, orphans, folders, shown, shelves, ids, elsewhere, removed>>
    BY <1>6 DEF BeginCreate
  <2>2. made + 1 \in FolderIds /\ made + 1 \in 0..MaxFolders
    BY <1>1, <1>3, <2>1 DEF FolderIds
  <2> QED BY <1>1, <1>2, <2>1, <2>2, StartKeepsInv
<1>7. ASSUME NEW n \in shelves, BeginDelete(t, n) PROVE SubsInv'
  <2> DEFINE filed == {f \in shown : f.folder = n}
             at == IF filed = {} THEN "drop" ELSE "put"
  <2>1. /\ Start(t, "delete", at, NoFeed, filed, n)
        /\ UNCHANGED <<feeds, orphans, folders, shown, shelves, ids, made, elsewhere, removed>>
    BY <1>7 DEF BeginDelete
  <2>2. filed \in SUBSET Feed /\ \A f \in filed : f.id \notin removed
    BY <1>1
  <2> HIDE DEF filed
  <2>3. at \in {"drop", "put"} /\ n \in 0..MaxFolders
    BY <1>1, <1>3
  <2> HIDE DEF at
  <2> QED BY <1>1, <1>2, <2>1, <2>2, <2>3, StartKeepsInv
<1>8. ASSUME NEW some \in SUBSET shown, NEW n \in shelves \cup {0}, BeginFile(t, some, n)
      PROVE  SubsInv'
  <2>1. /\ Start(t, "file", "place", NoFeed, some, n)
        /\ UNCHANGED <<feeds, orphans, folders, shown, shelves, ids, made, elsewhere, removed>>
    BY <1>8 DEF BeginFile
  <2>2. some \in SUBSET Feed /\ \A f \in some : f.id \notin removed
    BY <1>1
  <2>3. n \in 0..MaxFolders
    BY <1>1, <1>3
  <2> QED BY <1>1, <1>2, <2>1, <2>2, <2>3, StartKeepsInv
<1>9. ASSUME BeginPullRows(t) PROVE SubsInv'
  <2>1. /\ Start(t, "pull", "import", NoFeed, {}, 0)
        /\ UNCHANGED <<feeds, orphans, folders, shown, shelves, ids, made, elsewhere, removed>>
    BY <1>9 DEF BeginPullRows
  <2> QED BY <1>1, <1>2, <1>3, <2>1, StartKeepsInv
<1> QED BY <1>4, <1>5, <1>6, <1>7, <1>8, <1>9

-----------------------------------------------------------------------------
(* Adding a feed.                                                          *)

\* An operation that only goes to another stage, where it holds what it should.
LEMMA GoKeepsInv ==
    ASSUME SubsInv, NEW t \in Tasks, work[t].at # "done", NEW at \in Stages, Go(t, at),
           at \in {"check", "look", "clean", "fetch", "store"}
              => work[t].feed.url \in Urls /\ work[t].feed.id = 0,
           work[t].op = "remove" => at = "drop",
           at # "put" /\ at # "shelve",
           UNCHANGED <<feeds, orphans, folders, shown, shelves, ids, made, elsewhere, removed>>
    PROVE  SubsInv'
<1> DEFINE w == Went(t, at)
<1>1. /\ w \in Work /\ w.op = work[t].op /\ w.at = at /\ w.feed = work[t].feed
      /\ w.calm = work[t].calm /\ Unremoved(w) /\ work' = [work EXCEPT ![t] = w]
  BY WentFits
<1> HIDE DEF w
<1>2. Fits(work[t])
  BY DEF SubsInv
<1>3. Fits(w)
  BY <1>1, <1>2 DEF Fits
<1> QED BY <1>1, <1>3, NotIdle, WorkMovesKeepInv

\* Checks and Looks ask the table; Fetches asks the publisher.
LEMMA AsksKeepInv ==
    ASSUME SubsInv, NEW t \in Tasks, Checks(t) \/ Looks(t) \/ Fetches(t)
    PROVE  SubsInv'
<1>1. /\ work[t].at \in {"check", "look", "fetch"} /\ work[t].at # "done"
      /\ UNCHANGED <<feeds, orphans, folders, shown, shelves, ids, made, elsewhere, removed>>
  BY DEF Checks, Looks, Fetches
<1>2. Fits(work[t]) /\ Unremoved(work[t]) /\ work \in [Tasks -> Work] /\ work[t] \in Work
  BY DEF SubsInv, SubscriptionsTypeOK
<1>3. work[t].feed.url \in Urls /\ work[t].feed.id = 0 /\ work[t].op # "remove"
  BY <1>1, <1>2 DEF Fits
<1>4. Unknown(t) \in {"store", "fetch"}
  BY DEF Unknown
<1>5. CASE \E at \in {"look", "clean", "store", "fetch"} : Go(t, at)
  BY <1>1, <1>3, <1>5, GoKeepsInv DEF Stages
<1>6. CASE End(t)
  BY <1>1, <1>6, NotIdle, EndKeepsInv
<1>7. ASSUME Fetches(t),
             \/ \E u \in Urls :
                   LET n == IF u = work[t].feed.url THEN work[t].folder ELSE 0
                   IN  work' = [work EXCEPT ![t] = [@ EXCEPT !.at = "store", !.feed = Asked(u),
                                                             !.folder = n]]
             \/ work[t].op = "import"
                /\ work' = [work EXCEPT ![t].op = "placeholder", ![t].at = "check"]
      PROVE  SubsInv'
  <2>1. ASSUME NEW u \in Urls, NEW n \in {work[t].folder, 0},
               work' = [work EXCEPT ![t] = [@ EXCEPT !.at = "store", !.feed = Asked(u),
                                                     !.folder = n]]
        PROVE  SubsInv'
    <3> DEFINE w == [work[t] EXCEPT !.at = "store", !.feed = Asked(u), !.folder = n]
    <3>1. work' = [work EXCEPT ![t] = w]
      BY <1>2, <2>1
    <3>2. n \in 0..MaxFolders
      BY <1>2, SubscriptionsAssumption DEF Work
    <3>3. /\ Asked(u) \in [url : Urls \cup {NoUrl}, id : {0}, folder : {0}]
          /\ Asked(u).url = u /\ Asked(u).id = 0
      BY DEF Asked
    <3>4. /\ w \in Work /\ w.op = work[t].op /\ w.at = "store" /\ w.feed = Asked(u)
          /\ w.todo = work[t].todo /\ w.calm = work[t].calm
      BY <1>2, <3>2, <3>3 DEF Work
    <3> HIDE DEF w
    <3>5. 0 \notin removed
      BY DEF SubsInv, SubscriptionsTypeOK
    <3>6. Fits(w) /\ Unremoved(w)
      BY <1>2, <1>3, <3>3, <3>4, <3>5 DEF Fits, Unremoved
    <3> QED BY <1>1, <3>1, <3>4, <3>6, NotIdle, WorkMovesKeepInv
  <2>2. ASSUME work' = [work EXCEPT ![t].op = "placeholder", ![t].at = "check"]
        PROVE  SubsInv'
    <3> DEFINE w == [work[t] EXCEPT !.op = "placeholder", !.at = "check"]
    <3>1. work' = [work EXCEPT ![t] = w]
      BY <1>2, <2>2
    <3>2. /\ w \in Work /\ w.op = "placeholder" /\ w.at = "check" /\ w.feed = work[t].feed
          /\ w.todo = work[t].todo /\ w.calm = work[t].calm
      BY <1>2 DEF Work
    <3> HIDE DEF w
    <3>3. Fits(w) /\ Unremoved(w)
      BY <1>2, <1>3, <3>2 DEF Fits, Unremoved
    <3> QED BY <1>1, <3>1, <3>2, <3>3, NotIdle, WorkMovesKeepInv
  <2> QED BY <1>7, <2>1, <2>2
<1> QED BY <1>4, <1>5, <1>6, <1>7 DEF Checks, Looks, Fetches

\* What is true of the tables.
LEMMA TablesFit ==
    ASSUME SubsInv
    PROVE  /\ ids \in Nat /\ feeds \subseteq Feed /\ OneEach(feeds) /\ orphans \subseteq Urls
           /\ shown \subseteq Feed /\ folders \subseteq FolderIds /\ shelves \subseteq FolderIds
           /\ made \in FolderIds /\ removed \subseteq 1..ids /\ elsewhere \subseteq Feed
           /\ \A f \in feeds \cup shown : f.id \notin removed
           /\ work \in [Tasks -> Work]
           /\ \A t \in Tasks : work[t] \in Work /\ Fits(work[t]) /\ Unremoved(work[t])
BY DEF SubsInv, SubscriptionsTypeOK, OneEach

\* An operation changes the feeds and goes on, without a new id.
LEMMA FeedsChangeKeepsInv ==
    ASSUME SubsInv, NEW t \in Tasks, ~Idle(t), NEW w \in Work, work' = [work EXCEPT ![t] = w],
           Fits(w), Unremoved(w), w.calm = work[t].calm,
           w.op = "remove" => \A f \in feeds' : f.id # w.feed.id,
           feeds' \subseteq Feed, OneEach(feeds'), \A f \in feeds' : f.id \notin removed,
           orphans' \subseteq Urls, folders' \subseteq FolderIds, made' \in FolderIds,
           UNCHANGED <<shown, shelves, ids, elsewhere, removed>>
    PROVE  SubsInv'
<1>1. /\ ids \in Nat /\ shown \subseteq Feed /\ shelves \subseteq FolderIds
      /\ elsewhere \subseteq Feed /\ \A f \in shown : f.id \notin removed
  BY TablesFit
<1>2. Feed \subseteq Feed' /\ Work \subseteq Work' /\ ids' = ids
  BY <1>1, FeedsLast
<1>3. Fits(w)'
  BY <1>2 DEF Fits, FolderIds
<1> QED BY <1>1, <1>2, <1>3, TaskStepKeepsInv

\* Some of the feeds are one each.
LEMMA FewerAreOneEach ==
    ASSUME NEW records, OneEach(records), NEW some \in SUBSET records
    PROVE  OneEach(some)
BY DEF OneEach

\* Cleans: the records of the address go.
LEMMA CleansKeepsInv ==
    ASSUME SubsInv, NEW t \in Tasks, Cleans(t)
    PROVE  SubsInv'
<1>1. /\ feeds \subseteq Feed /\ OneEach(feeds) /\ orphans \subseteq Urls
      /\ folders \subseteq FolderIds /\ made \in FolderIds
      /\ \A f \in feeds : f.id \notin removed
      /\ Fits(work[t])
  BY TablesFit
<1>2. /\ work[t].at = "clean"
      /\ feeds' = {f \in feeds : f.url # work[t].feed.url}
      /\ orphans' = orphans \ {work[t].feed.url}
      /\ Go(t, Unknown(t))
      /\ UNCHANGED <<folders, shown, shelves, ids, made, elsewhere, removed>>
  BY DEF Cleans
<1>3. Unknown(t) \in {"store", "fetch"} /\ Unknown(t) \in Stages
  BY DEF Unknown, Stages
<1> DEFINE w == Went(t, Unknown(t))
<1>4. /\ w \in Work /\ w.op = work[t].op /\ w.at = Unknown(t) /\ w.feed = work[t].feed
      /\ w.calm = work[t].calm /\ Unremoved(w) /\ work' = [work EXCEPT ![t] = w]
  BY <1>2, <1>3, WentFits
<1> HIDE DEF w
<1>5. Fits(w) /\ w.op # "remove"
  BY <1>1, <1>2, <1>3, <1>4 DEF Fits
<1>6. feeds' \in SUBSET feeds
  BY <1>2
<1>7. OneEach(feeds')
  BY <1>1, <1>6, FewerAreOneEach
<1>8. feeds' \subseteq Feed /\ orphans' \subseteq Urls /\ \A f \in feeds' : f.id \notin removed
  BY <1>1, <1>2, <1>6
<1>9. folders' \subseteq FolderIds /\ made' \in FolderIds
  BY <1>1, <1>2
<1>10. ~Idle(t)
  BY <1>2, NotIdle
<1> QED BY <1>2, <1>4, <1>5, <1>7, <1>8, <1>9, <1>10, FeedsChangeKeepsInv

\* A record with an address of its own, and with a fresh id or one no record has.
LEMMA NewRecordFits ==
    ASSUME SubsInv, ids' \in {ids, ids + 1}, NEW new \in Feed', NEW some \in SUBSET feeds,
           \A f \in some : f.url # new.url /\ f.id # new.id,
           feeds' = some \cup {new}, removed' \subseteq removed \ {new.id}
    PROVE  feeds' \subseteq Feed' /\ OneEach(feeds') /\ \A f \in feeds' : f.id \notin removed'
<1>1. /\ ids \in Nat /\ feeds \subseteq Feed /\ OneEach(feeds)
      /\ \A f \in feeds : f.id \notin removed
  BY TablesFit
<1>2. Feed \subseteq Feed'
  BY <1>1, FeedsLast
<1>3. OneEach(some)
  BY <1>1, FewerAreOneEach
<1> QED BY <1>1, <1>2, <1>3 DEF OneEach

\* The fresh record of an address.
LEMMA FreshRecordFits ==
    ASSUME SubsInv, ids' = ids + 1, NEW u \in Urls
    PROVE  /\ [Asked(u) EXCEPT !.id = ids + 1] \in Feed'
           /\ [Asked(u) EXCEPT !.id = ids + 1].url = u
           /\ [Asked(u) EXCEPT !.id = ids + 1].id = ids + 1
           /\ ids + 1 \notin removed /\ \A f \in feeds : f.id # ids + 1
<1>1. ids \in Nat /\ feeds \subseteq Feed /\ removed \subseteq 1..ids
  BY TablesFit
<1>2. \A f \in feeds : f.id \in 1..ids
  BY <1>1 DEF Feed
<1> QED BY <1>1, <1>2, SubscriptionsAssumption DEF Feed, Asked

\* Stores: the new record, or none when the index has the address.
LEMMA StoresKeepsInv ==
    ASSUME SubsInv, NEW t \in Tasks, Stores(t)
    PROVE  SubsInv'
<1>1. /\ ids \in Nat /\ shown \subseteq Feed /\ shelves \subseteq FolderIds
      /\ orphans \subseteq Urls /\ folders \subseteq FolderIds /\ made \in FolderIds
      /\ elsewhere \subseteq Feed /\ \A f \in shown : f.id \notin removed
      /\ Fits(work[t])
  BY TablesFit
<1>2. /\ work[t].at = "store"
      /\ UNCHANGED <<orphans, folders, shown, shelves, made, removed>>
  BY DEF Stores
<1>3. work[t].feed.url \in Urls /\ work[t].op # "remove" /\ ~Idle(t)
  BY <1>1, <1>2, NotIdle DEF Fits
<1>4. CASE End(t) /\ UNCHANGED <<ids, feeds, elsewhere>>
  BY <1>2, <1>3, <1>4, EndKeepsInv
<1>5. ASSUME NEW new, new = [Asked(work[t].feed.url) EXCEPT !.id = ids + 1],
             ~Subscribed(work[t].feed.url), ids' = ids + 1,
             feeds' = feeds \cup {new}, elsewhere' = elsewhere \cup {new}, Go(t, "reload")
      PROVE  SubsInv'
  <2>1. PICK w \in Work :
           /\ w.op = work[t].op /\ w.at = "reload" /\ w.feed = work[t].feed
           /\ w.calm = work[t].calm /\ Unremoved(w) /\ work' = [work EXCEPT ![t] = w]
    BY <1>5, WentFits DEF Stages
  <2>2. Feed \subseteq Feed' /\ Work \subseteq Work'
    BY <1>1, <1>5, FeedsLast
  <2>3. /\ new \in Feed' /\ new.url = work[t].feed.url /\ new.id = ids + 1
        /\ ids + 1 \notin removed /\ \A f \in feeds : f.id # ids + 1
    BY <1>3, <1>5, FreshRecordFits
  <2>4. \A f \in feeds : f.url # new.url /\ f.id # new.id
    BY <1>5, <2>3 DEF Subscribed
  <2>5. removed' \subseteq removed \ {new.id}
    BY <1>2, <2>3
  <2>6. feeds' \subseteq Feed' /\ OneEach(feeds') /\ \A f \in feeds' : f.id \notin removed'
    BY <1>5, <2>3, <2>4, <2>5, NewRecordFits
  <2>7. w \in Work' /\ Fits(w)' /\ w.op # "remove"
    BY <1>3, <2>1, <2>2 DEF Fits
  <2>8. /\ shown' \subseteq Feed' /\ \A f \in feeds' \cup shown' : f.id \notin removed'
        /\ elsewhere' \subseteq Feed'
    BY <1>1, <1>2, <1>5, <2>2, <2>3, <2>6
  <2> QED BY <1>1, <1>2, <1>3, <1>5, <2>1, <2>5, <2>6, <2>7, <2>8, TaskStepKeepsInv
<1> QED BY <1>4, <1>5 DEF Stores

-----------------------------------------------------------------------------
(* Filing, removing, folders.                                              *)

\* A record is put back where it was, or refused.
LEMMA PutFits ==
    ASSUME SubsInv, NEW f \in Feed, f.id \notin removed, PutFeed(f)
    PROVE  feeds' \subseteq Feed /\ OneEach(feeds') /\ \A g \in feeds' : g.id \notin removed
<1>1. feeds \subseteq Feed /\ OneEach(feeds) /\ \A g \in feeds : g.id \notin removed
  BY TablesFit
<1>2. CASE feeds' = feeds
  BY <1>1, <1>2
<1>3. CASE /\ \A g \in feeds : ~(g.url = f.url /\ g.id # f.id)
           /\ feeds' = {g \in feeds : g.id # f.id} \cup {f}
  <2>1. \A g \in feeds' : g = f \/ (g \in feeds /\ g.id # f.id /\ g.url # f.url)
    BY <1>3
  <2> QED BY <1>1, <2>1 DEF OneEach
<1> QED BY <1>2, <1>3 DEF PutFeed

\* An operation that is not a removal goes on with other copies.
LEMMA HoldKeepsInv ==
    ASSUME SubsInv, NEW t \in Tasks, work[t].at # "done", work[t].op # "remove",
           NEW at \in {"put", "place", "reload", "drop"},
           NEW feed \in Feed \cup [url : Urls \cup {NoUrl}, id : {0}, folder : {0}],
           NEW todo \in SUBSET Feed, Hold(t, at, feed, todo),
           at = "put" /\ work[t].op # "delete" => feed \in Feed,
           feed.id \notin removed, \A f \in todo : f.id \notin removed,
           feeds' \subseteq Feed, OneEach(feeds'), \A f \in feeds' : f.id \notin removed,
           UNCHANGED <<orphans, folders, shown, shelves, ids, made, elsewhere, removed>>
    PROVE  SubsInv'
<1> DEFINE w == Moved(t, at, feed, todo)
<1>1. /\ w \in Work /\ w.op = work[t].op /\ w.at = at /\ w.feed = feed /\ w.todo = todo
      /\ w.calm = work[t].calm /\ work' = [work EXCEPT ![t] = w]
  BY MovedFits DEF Stages
<1> HIDE DEF w
<1>2. Fits(w) /\ Unremoved(w)
  BY <1>1 DEF Fits, Unremoved
<1>3. orphans' \subseteq Urls /\ folders' \subseteq FolderIds /\ made' \in FolderIds
  BY TablesFit
<1> QED BY <1>1, <1>2, <1>3, NotIdle, FeedsChangeKeepsInv

\* What is left to do when one feed is done.
LEMMA RestFits ==
    ASSUME SubsInv, NEW t \in Tasks, NEW f
    PROVE  /\ work[t].todo \in SUBSET Feed /\ work[t].todo \ {f} \in SUBSET Feed
           /\ \A g \in work[t].todo : g.id \notin removed
           /\ work[t].feed.id \notin removed /\ work[t].folder \in 0..MaxFolders
           /\ work[t].feed \in Feed \cup [url : Urls \cup {NoUrl}, id : {0}, folder : {0}]
BY TablesFit DEF Work, Unremoved

\* Places: the record of the next feed is read.
LEMMA PlacesKeepsInv ==
    ASSUME SubsInv, NEW t \in Tasks, Places(t)
    PROVE  SubsInv'
<1>1. /\ feeds \subseteq Feed /\ OneEach(feeds) /\ \A g \in feeds : g.id \notin removed
      /\ Fits(work[t])
  BY TablesFit
<1>2. /\ work[t].at = "place"
      /\ UNCHANGED <<feeds, orphans, folders, shown, shelves, ids, made, elsewhere, removed>>
  BY DEF Places
<1>3. work[t].op # "remove" /\ work[t].at # "done"
  BY <1>1, <1>2 DEF Fits
<1>4. PICK f \in work[t].todo :
         LET rest  == work[t].todo \ {f}
             after == IF rest = {} THEN "reload" ELSE "place"
         IN  \/ \E g \in feeds : g.id = f.id /\ Hold(t, "put", g, rest)
             \/ End(t)
             \/ Hold(t, after, NoFeed, rest)
  BY DEF Places
<1> DEFINE rest == work[t].todo \ {f}
           after == IF rest = {} THEN "reload" ELSE "place"
<1>5. rest \in SUBSET Feed /\ \A g \in rest : g.id \notin removed
  BY RestFits
<1>6. after \in {"reload", "place"}
  OBVIOUS
<1>7. \/ \E g \in feeds : g.id = f.id /\ Hold(t, "put", g, rest)
      \/ End(t)
      \/ Hold(t, after, NoFeed, rest)
  BY <1>4
<1> HIDE DEF rest, after
<1>8. ASSUME NEW g \in feeds, Hold(t, "put", g, rest) PROVE SubsInv'
  <2>1. g \in Feed /\ g.id \notin removed
    BY <1>1
  <2> QED BY <1>1, <1>2, <1>3, <1>5, <1>8, <2>1, HoldKeepsInv
<1>9. CASE End(t)
  BY <1>2, <1>3, <1>9, NotIdle, EndKeepsInv
<1>10. CASE Hold(t, after, NoFeed, rest)
  <2>1. NoFeed \in [url : Urls \cup {NoUrl}, id : {0}, folder : {0}] /\ NoFeed.id \notin removed
    BY NoWorkFits DEF SubsInv
  <2> QED BY <1>1, <1>2, <1>3, <1>5, <1>6, <1>10, <2>1, HoldKeepsInv
<1> QED BY <1>7, <1>8, <1>9, <1>10

\* A record in another folder is a record.
LEMMA FiledFits ==
    ASSUME NEW f \in Feed, NEW n \in 0..MaxFolders
    PROVE  /\ [f EXCEPT !.folder = n] \in Feed
           /\ [f EXCEPT !.folder = n].id = f.id /\ [f EXCEPT !.folder = n].url = f.url
BY DEF Feed

\* Puts: the copy is put back.
LEMMA PutsKeepsInv ==
    ASSUME SubsInv, NEW t \in Tasks, Puts(t)
    PROVE  SubsInv'
<1>1. Fits(work[t])
  BY TablesFit
<1>2. /\ work[t].at = "put"
      /\ UNCHANGED <<orphans, folders, shown, shelves, ids, made, elsewhere, removed>>
  BY DEF Puts
<1>3. work[t].op # "remove" /\ work[t].at # "done"
  BY <1>1, <1>2 DEF Fits
<1>4. NoFeed \in [url : Urls \cup {NoUrl}, id : {0}, folder : {0}] /\ NoFeed.id \notin removed
  BY NoWorkFits DEF SubsInv
<1>5. CASE work[t].op = "delete"
  <2>1. PICK f \in work[t].todo :
           LET rest == work[t].todo \ {f}
           IN  /\ PutFeed([f EXCEPT !.folder = 0])
               /\ Hold(t, IF rest = {} THEN "drop" ELSE "put", NoFeed, rest)
    BY <1>5 DEF Puts
  <2> DEFINE rest == work[t].todo \ {f}
             at == IF rest = {} THEN "drop" ELSE "put"
             new == [f EXCEPT !.folder = 0]
  <2>2. rest \in SUBSET Feed /\ (\A g \in rest : g.id \notin removed) /\ f \in Feed
        /\ f.id \notin removed
    BY RestFits
  <2>3. at \in {"drop", "put"}
    OBVIOUS
  <2>4. PutFeed(new) /\ Hold(t, at, NoFeed, rest)
    BY <2>1
  <2>5. new \in Feed /\ new.id \notin removed
    BY <2>2, FiledFits, SubscriptionsAssumption
  <2> HIDE DEF rest, at, new
  <2>6. feeds' \subseteq Feed /\ OneEach(feeds') /\ \A g \in feeds' : g.id \notin removed
    BY <2>4, <2>5, PutFits
  <2> QED BY <1>2, <1>3, <1>4, <1>5, <2>2, <2>3, <2>4, <2>6, HoldKeepsInv
<1>6. CASE work[t].op # "delete"
  <2> DEFINE todo == work[t].todo
             at == IF todo = {} THEN "reload" ELSE "place"
             new == [work[t].feed EXCEPT !.folder = work[t].folder]
  <2>1. PutFeed(new) /\ Hold(t, at, NoFeed, todo)
    BY <1>6 DEF Puts
  <2>2. todo \in SUBSET Feed /\ \A g \in todo : g.id \notin removed
    BY RestFits
  <2>3. at \in {"reload", "place"}
    OBVIOUS
  <2>4. new \in Feed /\ new.id \notin removed
    <3>1. work[t].feed \in Feed
      BY <1>1, <1>2, <1>6 DEF Fits
    <3>2. work[t].folder \in 0..MaxFolders /\ work[t].feed.id \notin removed
      BY RestFits
    <3> QED BY <3>1, <3>2, FiledFits
  <2> HIDE DEF todo, at, new
  <2>5. feeds' \subseteq Feed /\ OneEach(feeds') /\ \A g \in feeds' : g.id \notin removed
    BY <2>1, <2>4, PutFits
  <2> QED BY <1>2, <1>3, <1>4, <2>1, <2>2, <2>3, <2>5, HoldKeepsInv
<1> QED BY <1>5, <1>6

\* Drops, Shelves: a record is deleted, a folder deleted or made.
LEMMA DropsKeepsInv ==
    ASSUME SubsInv, NEW t \in Tasks, Drops(t) \/ Shelves(t)
    PROVE  SubsInv'
<1>1. /\ feeds \subseteq Feed /\ OneEach(feeds) /\ orphans \subseteq Urls
      /\ folders \subseteq FolderIds /\ made \in FolderIds
      /\ \A f \in feeds : f.id \notin removed
      /\ Fits(work[t])
  BY TablesFit
<1>2. /\ work[t].at \in {"drop", "shelve"}
      /\ Go(t, "reload")
      /\ UNCHANGED <<orphans, shown, shelves, ids, made, elsewhere, removed>>
  BY DEF Drops, Shelves
<1> DEFINE w == Went(t, "reload")
<1>3. /\ w \in Work /\ w.op = work[t].op /\ w.at = "reload" /\ w.feed = work[t].feed
      /\ w.calm = work[t].calm /\ Unremoved(w) /\ work' = [work EXCEPT ![t] = w]
  BY <1>2, WentFits DEF Stages
<1> HIDE DEF w
<1>4. Fits(w)
  BY <1>1, <1>3 DEF Fits
<1>5. feeds' \in SUBSET feeds
  BY DEF Drops, Shelves
<1>6. OneEach(feeds') /\ feeds' \subseteq Feed /\ \A f \in feeds' : f.id \notin removed
  BY <1>1, <1>5, FewerAreOneEach
<1>7. w.op = "remove" => \A f \in feeds' : f.id # w.feed.id
  <2>1. work[t].op = "remove" => work[t].at # "shelve"
    BY <1>1 DEF Fits
  <2> QED BY <1>3, <2>1 DEF Drops, Shelves
<1>8. folders' \subseteq FolderIds
  <2>1. work[t].at = "shelve" => work[t].folder \in FolderIds
    BY <1>1 DEF Fits
  <2> QED BY <1>1, <2>1 DEF Drops, Shelves
<1>9. ~Idle(t) /\ orphans' \subseteq Urls /\ made' \in FolderIds
  BY <1>1, <1>2, NotIdle
<1> QED BY <1>2, <1>3, <1>4, <1>6, <1>7, <1>8, <1>9, FeedsChangeKeepsInv

\* WriteIsLost: all but a removal go on.
LEMMA LostKeepsInv ==
    ASSUME SubsInv, NEW t \in Tasks, WriteIsLost(t)
    PROVE  SubsInv'
<1>1. /\ feeds \subseteq Feed /\ OneEach(feeds) /\ \A f \in feeds : f.id \notin removed
      /\ Fits(work[t])
  BY TablesFit
<1>2. /\ work[t].at \in {"put", "drop", "shelve"} /\ work[t].at # "done"
      /\ UNCHANGED <<feeds, orphans, folders, shown, shelves, ids, made, elsewhere, removed>>
  BY DEF WriteIsLost
<1>3. NoFeed \in [url : Urls \cup {NoUrl}, id : {0}, folder : {0}] /\ NoFeed.id \notin removed
  BY NoWorkFits DEF SubsInv
<1>4. CASE work[t].op = "remove"
  <2>1. End(t)
    BY <1>4 DEF WriteIsLost
  <2> QED BY <1>2, <2>1, NotIdle, EndKeepsInv
<1>5. CASE work[t].op # "remove" /\ work[t].at = "put" /\ work[t].op = "delete"
  <2>1. PICK f \in work[t].todo :
           LET rest == work[t].todo \ {f}
           IN  Hold(t, IF rest = {} THEN "drop" ELSE "put", NoFeed, rest)
    BY <1>5 DEF WriteIsLost
  <2> DEFINE rest == work[t].todo \ {f}
             at == IF rest = {} THEN "drop" ELSE "put"
  <2>2. rest \in SUBSET Feed /\ \A g \in rest : g.id \notin removed
    BY RestFits
  <2>3. at \in {"drop", "put"} /\ Hold(t, at, NoFeed, rest)
    BY <2>1
  <2> HIDE DEF rest, at
  <2> QED BY <1>1, <1>2, <1>3, <1>5, <2>2, <2>3, HoldKeepsInv
<1>6. CASE work[t].op # "remove" /\ work[t].at = "put" /\ work[t].op # "delete"
  <2> DEFINE todo == work[t].todo
             at == IF todo = {} THEN "reload" ELSE "place"
  <2>1. todo \in SUBSET Feed /\ \A g \in todo : g.id \notin removed
    BY RestFits
  <2>2. at \in {"reload", "place"} /\ Hold(t, at, NoFeed, todo)
    BY <1>6 DEF WriteIsLost
  <2> HIDE DEF todo, at
  <2> QED BY <1>1, <1>2, <1>3, <1>6, <2>1, <2>2, HoldKeepsInv
<1>7. CASE work[t].op # "remove" /\ work[t].at # "put"
  <2>1. Go(t, "reload")
    BY <1>7 DEF WriteIsLost
  <2> QED BY <1>2, <1>7, <2>1, GoKeepsInv DEF Stages
<1> QED BY <1>4, <1>5, <1>6, <1>7

\* Records that are filed anew are as many as before.
LEMMA RefiledFit ==
    ASSUME SubsInv, NEW new \in [feeds -> Feed],
           \A f \in feeds : new[f].url = f.url /\ new[f].id = f.id,
           feeds' = {new[f] : f \in feeds}
    PROVE  feeds' \subseteq Feed /\ OneEach(feeds') /\ \A g \in feeds' : g.id \notin removed
<1>1. OneEach(feeds) /\ \A f \in feeds : f.id \notin removed
  BY TablesFit
<1>2. ASSUME NEW g \in feeds', NEW h \in feeds', g.url = h.url \/ g.id = h.id PROVE g = h
  <2>1. PICK f \in feeds : g = new[f]
    OBVIOUS
  <2>2. PICK e \in feeds : h = new[e]
    OBVIOUS
  <2>3. f = e
    BY <1>1, <1>2, <2>1, <2>2 DEF OneEach
  <2> QED BY <2>1, <2>2, <2>3
<1> QED BY <1>1, <1>2 DEF OneEach

\* Imports: what another device has done to the feeds and folders.
LEMMA ImportsKeepsInv ==
    ASSUME SubsInv, NEW t \in Tasks, Imports(t)
    PROVE  SubsInv'
<1>1. /\ feeds \subseteq Feed /\ OneEach(feeds) /\ orphans \subseteq Urls
      /\ folders \subseteq FolderIds /\ made \in FolderIds /\ ids \in Nat
      /\ shown \subseteq Feed /\ shelves \subseteq FolderIds /\ elsewhere \subseteq Feed
      /\ \A f \in feeds \cup shown : f.id \notin removed
      /\ Fits(work[t])
  BY TablesFit
<1>2. work[t].at = "import" /\ Go(t, "reload") /\ UNCHANGED <<shown, shelves>> /\ orphans' = {}
  BY DEF Imports
<1>3. work[t].op # "remove" /\ ~Idle(t)
  BY <1>1, <1>2, NotIdle DEF Fits
<1>4. PICK w \in Work :
         /\ w.op = work[t].op /\ w.at = "reload" /\ w.feed = work[t].feed
         /\ w.calm = work[t].calm /\ Unremoved(w) /\ work' = [work EXCEPT ![t] = w]
  BY <1>2, WentFits DEF Stages
<1>5. Fits(w) /\ w.op # "remove"
  BY <1>3, <1>4 DEF Fits
<1>6. ASSUME NEW new \in Feed', \A g \in feeds : g.id # new.id, ids' \in {ids, ids + 1},
             feeds' = {g \in feeds : g.url # new.url} \cup {new},
             elsewhere' \subseteq Feed', removed' = removed \ {new.id},
             UNCHANGED <<folders, made>>
      PROVE  SubsInv'
  <2>1. PICK some \in SUBSET feeds : some = {g \in feeds : g.url # new.url}
    OBVIOUS
  <2>2. \A f \in some : f.url # new.url /\ f.id # new.id
    BY <1>6, <2>1
  <2>3. feeds' \subseteq Feed' /\ OneEach(feeds') /\ \A f \in feeds' : f.id \notin removed'
    BY <1>6, <2>1, <2>2, NewRecordFits
  <2>4. Feed \subseteq Feed' /\ Work \subseteq Work'
    BY <1>1, <1>6, FeedsLast
  <2>5. w \in Work' /\ Fits(w)'
    BY <1>4, <1>5, <2>4 DEF Fits
  <2>6. /\ shown' \subseteq Feed' /\ \A f \in feeds' \cup shown' : f.id \notin removed'
        /\ shelves' \subseteq FolderIds /\ orphans' \subseteq Urls /\ folders' \subseteq FolderIds
        /\ made' \in FolderIds /\ removed' \subseteq removed /\ elsewhere' \subseteq Feed'
    BY <1>1, <1>2, <1>6, <2>3, <2>4
  <2> QED BY <1>3, <1>4, <1>5, <1>6, <2>3, <2>5, <2>6, TaskStepKeepsInv
<1>7. ASSUME feeds' \subseteq Feed, OneEach(feeds'), \A f \in feeds' : f.id \notin removed,
             folders' \subseteq FolderIds, made' \in FolderIds,
             UNCHANGED <<ids, elsewhere, removed>>
      PROVE  SubsInv'
  <2>1. orphans' \subseteq Urls
    BY <1>2
  <2> QED BY <1>2, <1>3, <1>4, <1>5, <1>7, <2>1, FeedsChangeKeepsInv
<1>8. ASSUME NEW f \in feeds, feeds' = feeds \ {f},
             UNCHANGED <<folders, made, ids, elsewhere, removed>>
      PROVE  SubsInv'
  <2>1. feeds' \in SUBSET feeds
    BY <1>8
  <2>2. OneEach(feeds') /\ feeds' \subseteq Feed /\ \A g \in feeds' : g.id \notin removed
    BY <1>1, <2>1, FewerAreOneEach
  <2> QED BY <1>1, <1>7, <1>8, <2>2
<1>9. ASSUME NEW n \in FolderIds, NEW some \in SUBSET feeds, made' \in {n, made},
             folders' = folders \cup {n},
             feeds' = (feeds \ some) \cup {[f EXCEPT !.folder = n] : f \in some},
             UNCHANGED <<ids, elsewhere, removed>>
      PROVE  SubsInv'
  <2> DEFINE new == [f \in feeds |-> IF f \in some THEN [f EXCEPT !.folder = n] ELSE f]
  <2>1. n \in 0..MaxFolders
    BY SubscriptionsAssumption DEF FolderIds
  <2>2. ASSUME NEW f \in feeds PROVE new[f] \in Feed /\ new[f].url = f.url /\ new[f].id = f.id
    <3>1. f \in Feed
      BY <1>1
    <3> QED BY <2>1, <3>1, FiledFits
  <2>3. feeds' = {new[f] : f \in feeds}
    BY <1>9
  <2>4. new \in [feeds -> Feed]
    BY <2>2
  <2> HIDE DEF new
  <2>5. feeds' \subseteq Feed /\ OneEach(feeds') /\ \A g \in feeds' : g.id \notin removed
    BY <2>2, <2>3, <2>4, RefiledFit
  <2>6. folders' \subseteq FolderIds /\ made' \in FolderIds
    BY <1>1, <1>9, <2>1
  <2> QED BY <1>7, <1>9, <2>5, <2>6
<1>10. ASSUME NEW n \in folders, folders' = folders \ {n},
              feeds' = {IF f.folder = n THEN [f EXCEPT !.folder = 0] ELSE f : f \in feeds},
              UNCHANGED <<made, ids, elsewhere, removed>>
       PROVE  SubsInv'
  <2> DEFINE new == [f \in feeds |-> IF f.folder = n THEN [f EXCEPT !.folder = 0] ELSE f]
  <2>1. 0 \in 0..MaxFolders
    BY SubscriptionsAssumption
  <2>2. ASSUME NEW f \in feeds PROVE new[f] \in Feed /\ new[f].url = f.url /\ new[f].id = f.id
    <3>1. f \in Feed
      BY <1>1
    <3> QED BY <2>1, <3>1, FiledFits
  <2>3. feeds' = {new[f] : f \in feeds}
    BY <1>10
  <2>4. new \in [feeds -> Feed]
    BY <2>2
  <2> HIDE DEF new
  <2>5. feeds' \subseteq Feed /\ OneEach(feeds') /\ \A g \in feeds' : g.id \notin removed
    BY <2>2, <2>3, <2>4, RefiledFit
  <2> QED BY <1>1, <1>7, <1>10, <2>5
<1>11. ASSUME NEW f \in elsewhere \cup {[Asked(u) EXCEPT !.id = ids + 1] : u \in Urls},
              NEW n \in folders \cup {0}, \A g \in feeds : g.id # f.id,
              feeds' = {g \in feeds : g.url # f.url} \cup {[f EXCEPT !.folder = n]},
              ids' = IF f.id > ids THEN f.id ELSE ids, elsewhere' = elsewhere \cup {f},
              removed' = removed \ {f.id}, UNCHANGED <<folders, made>>
       PROVE  SubsInv'
  <2>1. n \in 0..MaxFolders
    BY <1>1, SubscriptionsAssumption DEF FolderIds
  <2>2. f \in Feed' /\ ids' \in {ids, ids + 1}
    <3>1. CASE f \in elsewhere
      <4>1. f \in Feed /\ f.id \in 1..ids
        BY <1>1, <3>1 DEF Feed
      <4>2. ids' = ids
        BY <1>1, <1>11, <4>1
      <4> QED BY <1>1, <4>1, <4>2, FeedsLast
    <3>2. CASE f \in {[Asked(u) EXCEPT !.id = ids + 1] : u \in Urls}
      <4>1. PICK u \in Urls : f = [Asked(u) EXCEPT !.id = ids + 1]
        BY <3>2
      <4>2. f.id = ids + 1
        BY <4>1 DEF Asked
      <4>3. ids' = ids + 1
        BY <1>1, <1>11, <4>2
      <4> QED BY <4>1, <4>3, FreshRecordFits
    <3> QED BY <1>11, <3>1, <3>2
  <2>3. PICK new : new = [f EXCEPT !.folder = n]
    OBVIOUS
  <2>4. new \in Feed' /\ new.url = f.url /\ new.id = f.id
    BY <2>1, <2>2, <2>3 DEF Feed
  <2>5. Feed \subseteq Feed'
    BY <1>1, <2>2, FeedsLast
  <2>6. elsewhere' \subseteq Feed'
    BY <1>1, <1>11, <2>2, <2>5
  <2>7. /\ \A g \in feeds : g.id # new.id
        /\ feeds' = {g \in feeds : g.url # new.url} \cup {new}
        /\ removed' = removed \ {new.id}
    BY <1>11, <2>3, <2>4
  <2> QED BY <1>6, <1>11, <2>2, <2>4, <2>6, <2>7
<1> QED BY <1>8, <1>9, <1>10, <1>11 DEF Imports

-----------------------------------------------------------------------------
(* What the store shows afterwards.                                        *)

\* Reloads: the store shows the tables; a removal that was alone is over for good.
LEMMA ReloadsKeepsInv ==
    ASSUME SubsInv, NEW t \in Tasks, Reloads(t)
    PROVE  SubsInv'
<1>1. /\ feeds \subseteq Feed /\ OneEach(feeds) /\ orphans \subseteq Urls
      /\ folders \subseteq FolderIds /\ made \in FolderIds /\ ids \in Nat
      /\ shown \subseteq Feed /\ shelves \subseteq FolderIds /\ removed \subseteq 1..ids
      /\ elsewhere \subseteq Feed
      /\ \A f \in feeds \cup shown : f.id \notin removed
      /\ work \in [Tasks -> Work] /\ work[t] \in Work /\ Fits(work[t]) /\ Unremoved(work[t])
  BY TablesFit
<1>2. /\ work[t].at = "reload"
      /\ shown' \in {feeds, shown} /\ shelves' \in {folders, shelves}
      /\ UNCHANGED <<feeds, orphans, folders, ids, made, elsewhere>>
  BY DEF Reloads
<1>3. ~Idle(t)
  BY <1>2, NotIdle
<1>4. /\ NoWork \in Work /\ Fits(NoWork) /\ Unremoved(NoWork) /\ NoWork.op = "none"
      /\ NoWork.feed = NoFeed /\ NoWork.todo = {}
  BY NoWorkFits DEF SubsInv, NoWork
<1>5. /\ shown' \subseteq Feed /\ shelves' \subseteq FolderIds
      /\ \A f \in feeds' \cup shown' : f.id \notin removed
  BY <1>1, <1>2
<1>6. Feed' = Feed /\ Work' = Work
  BY <1>2 DEF Feed, Work
<1>7. CASE work[t].op = "remove" /\ work[t].calm
  <2> DEFINE id == work[t].feed.id
  <2>1. /\ shown' = feeds /\ work' = [work EXCEPT ![t] = NoWork]
        /\ removed' = removed \cup {id}
    BY <1>7 DEF Reloads, ShowsFeeds, End
  <2>2. \A f \in feeds : f.id # id
    BY <1>2, <1>7 DEF SubsInv, RemovalIsDone
  <2>3. \A s \in Tasks : work'[s] = NoWork
    <3>1. \A s \in Tasks \ {t} : work[s] = NoWork
      BY <1>3, <1>7 DEF SubsInv, CalmIsAlone, Idle
    <3> QED BY <1>1, <2>1, <3>1
  <2>4. id \in 1..ids
    BY <1>1, <1>7 DEF Fits, Feed
  <2> HIDE DEF id
  <2>5. SubscriptionsTypeOK'
    <3>1. work' \in [Tasks -> Work] /\ removed' \subseteq 1..ids
      BY <1>1, <1>4, <2>1, <2>4
    <3> QED BY <1>1, <1>2, <1>5, <1>6, <3>1 DEF SubscriptionsTypeOK, OneEach
  <2>6. \A s \in Tasks : Fits(work[s])' /\ Unremoved(work[s])'
    <3>1. NoFeed.id = 0 /\ 0 \notin removed'
      BY <1>1, <2>1, <2>4 DEF NoFeed
    <3>2. NoWork.at = "done"
      BY DEF NoWork
    <3> QED BY <1>4, <2>3, <3>1, <3>2 DEF Fits, Unremoved
  <2>7. CalmIsAlone' /\ RemovalIsDone'
    BY <1>4, <2>3 DEF CalmIsAlone, RemovalIsDone, Idle
  <2>8. \A f \in feeds' \cup shown' : f.id \notin removed'
    BY <1>1, <1>2, <2>1, <2>2
  <2> QED BY <2>5, <2>6, <2>7, <2>8 DEF SubsInv
<1>8. CASE ~(work[t].op = "remove" /\ work[t].calm)
  <2>1. removed' = removed
    BY <1>8 DEF Reloads
  <2>2. /\ ids' \in {ids, ids + 1} /\ made' \in FolderIds /\ feeds' \subseteq Feed'
        /\ OneEach(feeds') /\ orphans' \subseteq Urls /\ folders' \subseteq FolderIds
        /\ shown' \subseteq Feed' /\ elsewhere' \subseteq Feed'
    BY <1>1, <1>2, <1>5, <1>6
  <2>3. ASSUME NEW w \in Work, Fits(w), Unremoved(w), w.op # "remove",
               w = NoWork \/ w.calm = work[t].calm, work' = [work EXCEPT ![t] = w]
        PROVE  SubsInv'
    <3>1. w \in Work' /\ Fits(w)'
      BY <1>6, <2>3 DEF Fits
    <3> QED BY <1>3, <1>5, <2>1, <2>2, <2>3, <3>1, TaskStepKeepsInv
  <2>4. CASE End(t)
    BY <1>4, <2>3, <2>4 DEF End
  <2>5. CASE work' = [work EXCEPT ![t] = [@ EXCEPT !.op = "file", !.at = "place", !.todo = Added(t)]]
    <3> DEFINE w == [work[t] EXCEPT !.op = "file", !.at = "place", !.todo = Added(t)]
    <3>1. work' = [work EXCEPT ![t] = w]
      BY <1>1, <2>5
    <3>2. Added(t) \in SUBSET Feed /\ \A f \in Added(t) : f.id \notin removed
      BY <1>1 DEF Added
    <3>3. /\ w \in Work /\ w.op = "file" /\ w.at = "place" /\ w.todo = Added(t)
          /\ w.feed = work[t].feed /\ w.calm = work[t].calm
      BY <1>1, <3>2 DEF Work
    <3> HIDE DEF w
    <3>4. Fits(w) /\ Unremoved(w)
      BY <1>1, <3>2, <3>3 DEF Fits, Unremoved
    <3> QED BY <2>3, <3>1, <3>3, <3>4
  <2> QED BY <2>4, <2>5 DEF Reloads
<1> QED BY <1>7, <1>8

\* ReloadFails: the operation ends.
LEMMA ReloadFailsKeepsInv ==
    ASSUME SubsInv, NEW t \in Tasks, ReloadFails(t)
    PROVE  SubsInv'
<1>1. /\ work[t].at = "reload" /\ End(t)
      /\ UNCHANGED <<feeds, orphans, folders, shown, shelves, ids, made, elsewhere, removed>>
  BY DEF ReloadFails
<1> QED BY <1>1, NotIdle, EndKeepsInv

-----------------------------------------------------------------------------
(* The theorems.                                                           *)

\* Some feeds, each with an address and an id of its own, which the store shows.
LEMMA SubsInitInv ==
    SubscriptionsInit => SubsInv
<1> SUFFICES ASSUME SubscriptionsInit PROVE SubsInv
  OBVIOUS
<1>1. /\ folders = {1} /\ made = 1 /\ shown = feeds /\ shelves = folders
      /\ work = [t \in Tasks |-> NoWork] /\ removed = {}
  BY DEF SubscriptionsInit
<1>2. PICK some \in SUBSET Urls, filed \in SUBSET Urls :
         /\ \E number \in [some -> 1..Cardinality(some)] :
               /\ \A u, v \in some : number[u] = number[v] => u = v
               /\ feeds = {[url |-> u, id |-> number[u], folder |-> IF u \in filed THEN 1 ELSE 0] :
                             u \in some}
               /\ ids = Cardinality(some)
         /\ orphans \subseteq Urls
  BY DEF SubscriptionsInit
<1>3. PICK number \in [some -> 1..Cardinality(some)] :
         /\ \A u, v \in some : number[u] = number[v] => u = v
         /\ feeds = {[url |-> u, id |-> number[u], folder |-> IF u \in filed THEN 1 ELSE 0] :
                       u \in some}
         /\ ids = Cardinality(some)
  BY <1>2
<1>4. ids \in Nat
  <2>1. IsFiniteSet(some)
    BY SubscriptionsAssumption, FS_Subset
  <2> QED BY <1>3, <2>1, FS_CardinalityType
<1>5. 1 \in FolderIds /\ 1 \in 0..MaxFolders /\ 0 \in 0..MaxFolders
  BY SubscriptionsAssumption DEF FolderIds
<1>6. \A f \in feeds : \E u \in some :
         /\ f = [url |-> u, id |-> number[u], folder |-> IF u \in filed THEN 1 ELSE 0]
         /\ f.url = u /\ f.id = number[u]
  BY <1>3
<1>7. feeds \subseteq Feed
  BY <1>3, <1>5, <1>6 DEF Feed
<1>8. \A f, g \in feeds : f.url = g.url \/ f.id = g.id => f = g
  BY <1>3, <1>6
<1>9. elsewhere \subseteq Feed
  BY <1>5, <1>7 DEF SubscriptionsInit, Feed
<1>10. /\ work \in [Tasks -> Work] /\ \A t \in Tasks : work[t] = NoWork
  <2>1. NoWork \in Work
    BY <1>5 DEF NoWork, NoFeed, Work
  <2> QED BY <1>1, <2>1
<1>11. SubscriptionsTypeOK
  BY <1>1, <1>2, <1>4, <1>5, <1>7, <1>8, <1>9, <1>10 DEF SubscriptionsTypeOK
<1>12. \A t \in Tasks : Fits(work[t]) /\ Unremoved(work[t])
  BY <1>10, <1>11, NoWorkFits
<1>13. CalmIsAlone /\ RemovalIsDone
  BY <1>10 DEF CalmIsAlone, RemovalIsDone, Idle, NoWork
<1> QED BY <1>1, <1>11, <1>12, <1>13 DEF SubsInv

\* Whichever operations overlap, fail or are overtaken by an import, the invariant holds.
THEOREM SubscriptionsInvariant == SubscriptionsSpec => []SubsInv
<1>1. SubsInv /\ [SubscriptionsNext]_subsVars => SubsInv'
  <2> SUFFICES ASSUME SubsInv, [SubscriptionsNext]_subsVars PROVE SubsInv'
    OBVIOUS
  <2>1. CASE SubscriptionsNext
    BY <2>1, BeginsKeepInv, AsksKeepInv, CleansKeepsInv, StoresKeepsInv, PlacesKeepsInv,
       PutsKeepsInv, DropsKeepsInv, LostKeepsInv, ImportsKeepsInv, ReloadsKeepsInv,
       ReloadFailsKeepsInv
    DEF SubscriptionsNext
  <2>2. CASE UNCHANGED subsVars
    BY <2>2 DEF subsVars, SubsInv, SubscriptionsTypeOK, Fits, Unremoved, CalmIsAlone,
                RemovalIsDone, Idle, Feed, Work
  <2> QED BY <2>1, <2>2
<1> QED BY <1>1, SubsInitInv, PTL DEF SubscriptionsSpec

\* A feed that was removed while nothing else was in progress does not come back by this
\* device's doing: no operation that begins later holds a copy of its record, however the
\* operations overlap and fail, until an import brings the record from a vault that another
\* device has overwritten (removeFeed, deleteFolder, moveFeedToFolder, addFeedFlow).
THEOREM RemovedFeedsStayAway == SubscriptionsSpec => []NoCopyComesBack
<1>1. SubsInv => NoCopyComesBack
  BY DEF SubsInv, NoCopyComesBack
<1> QED BY <1>1, SubscriptionsInvariant, PTL

\* One record for each address, and ids that have been given out, in the table and in
\* every copy of it (the unique index of db.ts, addFeedFlow).
THEOREM OneRecordAnAddress == SubscriptionsSpec => []SubscriptionsTypeOK
<1>1. SubsInv => SubscriptionsTypeOK
  BY DEF SubsInv
<1> QED BY <1>1, SubscriptionsInvariant, PTL

-----------------------------------------------------------------------------
(* The parts of the browser application together.                          *)

\* Each part runs as it does alone: no step of one touches another's variables.
LEMMA PartsRunAlone ==
    Spec => KeySpec /\ ArticleSpec /\ PreferencesSpec /\ SubscriptionsSpec
<1>1. Init => KeyInit /\ ArticleInit /\ PreferencesInit /\ SubscriptionsInit
  BY DEF Init
<1>2. [Next]_browserVars => [KeyNext]_keyVars
  BY DEF Next, browserVars
<1>3. [Next]_browserVars => [ArticleNext]_rowVars
  BY DEF Next, browserVars
<1>4. [Next]_browserVars => [PreferencesNext]_prefVars
  BY DEF Next, browserVars
<1>5. [Next]_browserVars => [SubscriptionsNext]_subsVars
  BY DEF Next, browserVars
<1> QED BY <1>1, <1>2, <1>3, <1>4, <1>5, PTL
    DEF Spec, KeySpec, ArticleSpec, PreferencesSpec, SubscriptionsSpec

\* Every part keeps its variables in range: stored keys, rows, preferences and feeds
\* (key-manager.ts, article-store.ts, preferences-store.ts, feed-store.ts).
THEOREM BrowserTypeCorrect == Spec => []BrowserTypeOK
<1>1. KeyInv /\ ArticleTypeOK /\ PrefInv /\ SubscriptionsTypeOK => BrowserTypeOK
  BY DEF BrowserTypeOK, KeyInv, PrefInv, PrefShape
<1> QED BY <1>1, PartsRunAlone, KeyInvariant, RowsTypeCorrect, PreferencesInvariant,
           OneRecordAnAddress, PTL
=============================================================================
