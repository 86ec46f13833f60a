------------------------------- MODULE Pacing -------------------------------
(***************************************************************************)
(* When feeds are asked: the auto-refresh (hooks/use-auto-refresh.ts,       *)
(* use-stale-interval.ts), the backoff of feeds that answer 304             *)
(* (core/feeds/refresh-backoff.ts), batches by host (group-by-host.ts) and  *)
(* pauses of hosts that ask for one (host-pause.ts, parse-retry-after.ts).  *)
(* What a refresh stores is the subject of FeedRefresh.                     *)
(*                                                                         *)
(* A feed is its place in the table.  Answers come within a tick of the     *)
(* request, so that time passes in steps no shorter than the proxy's        *)
(* timeout.                                                                 *)
(***************************************************************************)
EXTENDS Naturals, Sequences, FiniteSetsExt

CONSTANTS
    FeedHosts,      \* the host of each feed, in the order of the table
    NoHost,         \* what an address that is not a URL has for a host
    Folder,         \* the feeds of a folder
    Concurrency,    \* REFRESH_CONCURRENCY
    Interval,       \* AUTO_REFRESH_INTERVAL_MS, in ticks
    MaxPause,       \* MAX_PAUSE_MS, in ticks
    Asks,           \* bound: the waits that hosts ask for
    MaxTicks,       \* bound
    MaxStreak,      \* bound: a longer streak of 304 counts as this one
    MaxPasses       \* bound: refreshes begun

ASSUME PacingAssumption ==
    /\ Len(FeedHosts) \in Nat \ {0} /\ DOMAIN FeedHosts = 1..Len(FeedHosts)
    /\ Folder \subseteq DOMAIN FeedHosts
    /\ Concurrency \in Nat \ {0} /\ Interval \in Nat \ {0} /\ MaxPause \in Nat
    /\ Asks \subseteq Nat
    /\ MaxTicks \in Nat \ {0} /\ MaxPasses \in Nat
    /\ MaxStreak \in Nat /\ MaxStreak >= 3

VARIABLES
    tick,       \* the time, 1 at the start
    feedRecord,     \* per feed: lastFetchedAt (0: none) and consecutive304Count
    pause,      \* hostPauseMap: per host, until when (0: no entry)
    pass,       \* the refresh that holds isRefreshingAll
    asked,      \* requests under way: per guard and feed
    passes,     \* refreshes begun
    attempted,  \* history: feeds the pass has come to
    waits       \* history: per host, the latest time any of its answers asked to wait for

pacingVars == <<tick, feedRecord, pause, pass, asked, passes, attempted, waits>>

FeedSet == DOMAIN FeedHosts
Hosts   == {FeedHosts[f] : f \in FeedSet} \ {NoHost}
Ticks   == 0..MaxTicks
FeedRecord  == [fetched : Ticks, streak : 0..MaxStreak]

NoPass    == [op |-> "none", held |-> <<>>, left |-> <<>>, read |-> 0]
NotAsked == [began |-> 0, streak |-> 0]

PacingTypeOK ==
    /\ tick \in Ticks \ {0}
    /\ feedRecord \in [FeedSet -> FeedRecord]
    /\ pause \in [Hosts -> 0..(tick + MaxPause)]
    /\ pass \in [op   : {"none", "auto", "all", "view"},
                 held : {<<>>} \cup [FeedSet -> FeedRecord],
                 left : Seq(SUBSET FeedSet),
                 read : 0..tick]
    /\ asked \in [{"pass", "single"} -> [FeedSet -> [began : 0..tick, streak : 0..MaxStreak]]]
    /\ passes \in 0..MaxPasses
    /\ attempted \subseteq FeedSet
    /\ waits \in [Hosts -> 0..(tick + MaxPause)]

PacingInit ==
    /\ tick = 1
    /\ feedRecord \in [FeedSet -> {[fetched |-> 0, streak |-> 0], [fetched |-> 1, streak |-> 3]}]
    /\ pause = [h \in Hosts |-> 0]
    /\ pass = NoPass
    /\ asked = [g \in {"pass", "single"} |-> [f \in FeedSet |-> NotAsked]]
    /\ passes = 0
    /\ attempted = {}
    /\ waits = [h \in Hosts |-> 0]

-----------------------------------------------------------------------------
(* Which feeds, and in which batches.                                      *)

\* Mutant of Multiplier: the powers of 2, one off.
MultiplierDoubled(streak) == IF streak < 3 THEN 1 ELSE 2 ^ (streak - 1)

\* effectiveRefreshIntervalMs: from the third 304 in a row on, 2 and then 4 intervals.
Multiplier(streak) == IF streak < 3 THEN 1 ELSE IF streak = 3 THEN 2 ELSE 4

\* isFeedDueForRefresh
Due(r) == r.fetched = 0 \/ tick - r.fetched >= Interval * Multiplier(r.streak)

\* Mutant of Place: any batch with room will do.
PlaceAnywhere(batches, f) ==
    LET open == {b \in DOMAIN batches :
                    Cardinality(batches[b]) < Concurrency /\ FeedHosts[f] # NoHost}
    IN  IF open = {} THEN Append(batches, {f})
        ELSE [batches EXCEPT ![Min(open)] = @ \cup {f}]

\* tryPlaceInExistingBatch: the first batch with room and without the host; a feed
\* without a host opens a new one.
Place(batches, f) ==
    LET open == {b \in DOMAIN batches :
                    /\ Cardinality(batches[b]) < Concurrency
                    /\ FeedHosts[f] # NoHost
                    /\ \A g \in batches[b] : FeedHosts[g] # FeedHosts[f]}
    IN  IF open = {} THEN Append(batches, {f})
        ELSE [batches EXCEPT ![Min(open)] = @ \cup {f}]

\* groupByHostForRefresh: the feeds are placed in the order of the table.
Batches(feeds) ==
    LET packed[n \in 0..Len(FeedHosts)] ==
            IF n = 0 THEN <<>>
            ELSE IF n \in feeds THEN Place(packed[n - 1], n) ELSE packed[n - 1]
    IN  packed[Len(FeedHosts)]

\* hostPausedUntil; a feed without a host is never paused.
Paused(f) == FeedHosts[f] # NoHost /\ pause[FeedHosts[f]] > tick

-----------------------------------------------------------------------------
(* The beginning of a refresh.                                             *)

BeginPass(op) ==
    /\ pass = NoPass
    /\ passes < MaxPasses
    /\ passes' = passes + 1
    /\ pass' = [NoPass EXCEPT !.op = op]

\* The interval timer, or the return to a tab whose last pass is older than the
\* interval.  The timer starts with the page and stops while the browser sleeps: it may
\* fire at any moment.
AutoRefresh ==
    /\ BeginPass("auto")
    /\ UNCHANGED <<tick, feedRecord, pause, asked, attempted, waits>>

\* "Refresh all", and refreshView of an aggregated view.
RefreshAll ==
    /\ BeginPass("all")
    /\ UNCHANGED <<tick, feedRecord, pause, asked, attempted, waits>>

\* refreshAllFeeds, after the pull: the records are read and the batches packed.
PassReads ==
    /\ pass.op \in {"auto", "all"} /\ pass.read = 0
    /\ LET due == IF pass.op = "all" THEN FeedSet ELSE {f \in FeedSet : Due(feedRecord[f])} IN
         pass' = [pass EXCEPT !.held = feedRecord, !.left = Batches(due), !.read = tick]
    /\ UNCHANGED <<tick, feedRecord, pause, asked, passes, attempted, waits>>

Asking(g) == {f \in FeedSet : asked[g][f] # NotAsked}

\* refreshFeed of a set of feeds: those of a paused host are stamped and not asked.
Ask(g, feeds, held) ==
    /\ asked' = [asked EXCEPT ![g] = [f \in FeedSet |->
                    IF f \in feeds /\ ~Paused(f)
                    THEN [began |-> tick, streak |-> held[f].streak] ELSE @[f]]]
    /\ feedRecord' = [f \in FeedSet |->
                    IF f \in feeds /\ Paused(f)
                    THEN [fetched |-> tick, streak |-> held[f].streak] ELSE feedRecord[f]]

\* The next batch, when all of the last one have settled.
NextBatch ==
    /\ pass.left # <<>> /\ Asking("pass") = {}
    /\ Ask("pass", Head(pass.left), pass.held)
    /\ pass' = [pass EXCEPT !.left = Tail(@)]
    /\ attempted' = attempted \cup Head(pass.left)
    /\ UNCHANGED <<tick, pause, passes, waits>>

\* refreshView of a folder: all its feeds at once, whatever their hosts.
RefreshFolder ==
    /\ BeginPass("view")
    /\ Ask("pass", Folder, feedRecord)
    /\ UNCHANGED <<tick, pause, attempted, waits>>

PassSettled ==
    /\ pass.op = "view" \/ pass.read > 0
    /\ pass.left = <<>> /\ Asking("pass") = {}

\* The guard is released.
PassEnds ==
    /\ PassSettled
    /\ pass' = NoPass
    /\ attempted' = {}
    /\ UNCHANGED <<tick, feedRecord, pause, asked, passes, waits>>

\* refreshSingleFeed, guarded by refreshingFeedIds.
RefreshSingle(f) ==
    /\ asked["single"][f] = NotAsked
    /\ passes < MaxPasses
    /\ passes' = passes + 1
    /\ Ask("single", {f}, feedRecord)
    /\ UNCHANGED <<tick, pause, pass, attempted, waits>>

-----------------------------------------------------------------------------
(* The answers.                                                            *)

\* persistFreshness writes the record in hand back.
Stamps(g, f, streak) ==
    /\ asked[g][f] # NotAsked
    /\ feedRecord' = [feedRecord EXCEPT ![f] = [fetched |-> asked[g][f].began, streak |-> streak]]
    /\ asked' = [asked EXCEPT ![g][f] = NotAsked]
    /\ UNCHANGED <<tick, pass, passes, attempted>>

\* 304: the streak grows.
NotModified(g, f) ==
    /\ Stamps(g, f, IF asked[g][f].streak < MaxStreak THEN asked[g][f].streak + 1
                                                      ELSE MaxStreak)
    /\ UNCHANGED <<pause, waits>>

\* Any other answer ends it; no answer leaves it.
Answered(g, f) ==
    /\ \E streak \in {0, asked[g][f].streak} : Stamps(g, f, streak)
    /\ UNCHANGED <<pause, waits>>

\* parseRetryAfter counts from the moment the refresh began.
Until(began, ask) == began + (IF ask > MaxPause THEN MaxPause ELSE ask)

\* Mutant of RegisterPause: the last answer decides.
RegisterLast(h, until) == pause' = [pause EXCEPT ![h] = until]

\* registerHostPause extends and never shortens.
RegisterPause(h, until) ==
    pause' = [pause EXCEPT ![h] = IF until > @ THEN until ELSE @]

\* 429 or 503 with a Retry-After.
AskedToWait(g, f, ask) ==
    LET h     == FeedHosts[f]
        until == Until(asked[g][f].began, ask)
    IN  /\ Stamps(g, f, 0)
        /\ IF h = NoHost THEN UNCHANGED <<pause, waits>>
           ELSE /\ RegisterPause(h, until)
                /\ waits' = [waits EXCEPT ![h] = IF until > @ THEN until ELSE @]

-----------------------------------------------------------------------------
(* Time.                                                                    *)

\* No request is older than a tick.
TimePasses ==
    /\ tick < MaxTicks
    /\ \A g \in {"pass", "single"}, f \in FeedSet :
          asked[g][f] = NotAsked \/ asked[g][f].began = tick
    /\ tick' = tick + 1
    /\ UNCHANGED <<feedRecord, pause, pass, asked, passes, attempted, waits>>

PacingNext ==
    \/ AutoRefresh \/ RefreshAll \/ PassReads \/ NextBatch \/ PassEnds
    \/ RefreshFolder
    \/ \E f \in FeedSet : RefreshSingle(f)
    \/ \E g \in {"pass", "single"}, f \in FeedSet :
          \/ NotModified(g, f) \/ Answered(g, f)
          \/ \E ask \in Asks : AskedToWait(g, f, ask)
    \/ TimePasses

PacingSpec == PacingInit /\ [][PacingNext]_pacingVars

-----------------------------------------------------------------------------
(* Properties.                                                             *)

\* However passes, folders and single refreshes overlap with answers, a pass over all
\* feeds has at most one request under way for a host, and no more than Concurrency.
BatchesSpareHosts ==
    pass.op \in {"auto", "all"} =>
        /\ Cardinality(Asking("pass")) <= Concurrency
        /\ \A f, g \in Asking("pass") :
              FeedHosts[f] = FeedHosts[g] => f = g \/ FeedHosts[f] = NoHost

\* No answer that comes later, for another feed of the host or with a shorter wait,
\* takes a wait back: no refresh asks a host before all its waits are over, though the
\* batches were packed before the host asked for it.
PausesAreHonoured ==
    [][\A g \in {"pass", "single"}, f \in FeedSet :
          asked[g][f] = NotAsked /\ asked'[g][f] # NotAsked /\ FeedHosts[f] # NoHost
             => waits[FeedHosts[f]] <= tick]_pacingVars

\* A pass comes to every feed: one the user starts to all of them, one in the
\* background to all that were left alone for four intervals, whatever their streak.
PassReachesFeeds ==
    pass.op # "view" /\ PassSettled =>
        \A f \in FeedSet \ attempted :
            /\ pass.op = "auto"
            /\ pass.held[f].fetched > 0
            /\ pass.read - pass.held[f].fetched < 4 * Interval

-----------------------------------------------------------------------------
(* A claim of the code's comments that the model violates; see README.md.  *)

\* "This serializes requests per upstream" (group-by-host.ts:4-6): a refresh of more
\* than one feed never has two requests of a host under way.
RefreshesSpareHosts ==
    \A f, g \in Asking("pass") :
        FeedHosts[f] = FeedHosts[g] => f = g \/ FeedHosts[f] = NoHost
=============================================================================
