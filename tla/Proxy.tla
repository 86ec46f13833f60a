--------------------------------- MODULE Proxy ---------------------------------
(***************************************************************************)
(* The feed proxy, as one client meets it: the limiters and the cache in    *)
(* front of handleProxyRequest (src/src/core/proxy/proxy-handler.ts).       *)
(*                                                                         *)
(* Hosted, requests are counted in Redis (core/proxy/rate-limiter.ts), by   *)
(* instances that run at once and may die.  Self-hosted (src/server.ts),     *)
(* the limiter and the cache (core/proxy/feed-cache.ts) are in memory.  One *)
(* feed is asked for; a version stands for what its publisher then serves.  *)
(***************************************************************************)
EXTENDS Integers, Sequences

CONSTANTS
    Requests,           \* requests in progress at once
    Limit,              \* requests a window lets pass
    Window,             \* length of a window (and of the life of a cache entry)
    MaxTime, MaxArrivals, MaxVersion, MaxLimiterFaults      \* bounds

ASSUME ProxyAssumption ==
    /\ Limit \in Nat \ {0} /\ Window \in Nat \ {0}
    /\ MaxTime \in Nat /\ MaxArrivals \in Nat
    /\ MaxVersion \in Nat /\ MaxLimiterFaults \in Nat

VARIABLES
    now,        \* the clock
    hosted,     \* which deployment this is
    version,    \* what the publisher serves
    window,     \* the client's counter: how many, and when it is reset
    cache,      \* the cached answer: none, or one with its time
    request,    \* the requests in progress
    answer,     \* what a request was last answered
    passed,     \* history: when requests passed the limiter, in order
    arrivals, limiterFaults     \* how much of the bounds is used

proxyVars == <<now, hosted, version, window, cache, request, answer, passed,
               arrivals, limiterFaults>>

Never == -1             \* a key without a time to live
NoWindow == [count |-> 0, reset |-> Never]
NoRequest == [stage |-> "idle", known |-> -1, got |-> -1]
NoAnswer  == [status |-> 0, got |-> -1, cleaned |-> FALSE]

Versions == 0..MaxVersion

ProxyTypeOK ==
    /\ now \in 0..MaxTime /\ hosted \in BOOLEAN /\ version \in Versions
    /\ window \in [count : Nat, reset : 0..(MaxTime + Window) \cup {Never}]
    /\ cache = {} \/ \E v \in Versions \cup {-1}, t \in 0..MaxTime : cache = {[got |-> v, at |-> t]}
    /\ request \in [Requests -> [stage : {"idle", "incr", "expire", "ttl", "lookup", "fetch", "body"},
                                 known : Versions \cup {-1}, got : Versions \cup {-1}]]
    /\ answer \in [Requests -> [status : {0, 200, 304, 429, 502}, got : Versions \cup {-1},
                                cleaned : BOOLEAN]]
    /\ passed \in Seq(0..MaxTime)
    /\ arrivals \in 0..MaxArrivals /\ limiterFaults \in 0..MaxLimiterFaults

ProxyInit ==
    /\ now = 0 /\ hosted \in BOOLEAN /\ version = 0
    /\ window = NoWindow /\ cache = {}
    /\ request = [r \in Requests |-> NoRequest]
    /\ answer = [r \in Requests |-> NoAnswer]
    /\ passed = <<>>
    /\ arrivals = 0 /\ limiterFaults = 0

-----------------------------------------------------------------------------
Goto(r, stage) == request' = [request EXCEPT ![r].stage = stage]

Respond(r, response) ==
    /\ request' = [request EXCEPT ![r] = NoRequest]
    /\ answer' = [answer EXCEPT ![r] = response]

TooMany == [status |-> 429, got |-> -1, cleaned |-> FALSE]

Pass == passed' = Append(passed, now)

\* Mutant of CountInMemory: the window starts anew when it is full.
CountInMemoryAnew(r, v) ==
    LET anew == window.count = 0 \/ window.count = Limit
    IN  /\ window' = [count |-> IF anew THEN 1 ELSE window.count + 1, reset |-> now + Window]
        /\ Pass
        /\ request' = [request EXCEPT ![r] = [stage |-> "lookup", known |-> v, got |-> -1]]
        /\ answer' = [answer EXCEPT ![r] = NoAnswer]

\* isAllowed of createRateLimiter.
CountInMemory(r, v) ==
    LET anew == window.count = 0 \/ now > window.reset
    IN  IF anew \/ window.count < Limit
        THEN /\ window' = IF anew THEN [count |-> 1, reset |-> now + Window]
                          ELSE [window EXCEPT !.count = @ + 1]
             /\ Pass
             /\ request' = [request EXCEPT ![r] = [stage |-> "lookup", known |-> v, got |-> -1]]
             /\ answer' = [answer EXCEPT ![r] = NoAnswer]
        ELSE /\ answer' = [answer EXCEPT ![r] = TooMany]
             /\ UNCHANGED <<window, passed, request>>

\* A request, with the validators of the version the client knows or with none.
Arrive(r) ==
    /\ request[r] = NoRequest
    /\ arrivals < MaxArrivals
    /\ arrivals' = arrivals + 1
    /\ \E v \in 0..version \cup {-1} :
          IF hosted
          THEN /\ request' = [request EXCEPT ![r] = [stage |-> "incr", known |-> v, got |-> -1]]
               /\ answer' = [answer EXCEPT ![r] = NoAnswer]
               /\ UNCHANGED <<window, passed>>
          ELSE CountInMemory(r, v)
    /\ UNCHANGED <<now, hosted, version, cache, limiterFaults>>

\* UpstashRateLimiter.check: INCR, which creates a key without a time to live.
Incr(r) ==
    /\ request[r].stage = "incr"
    /\ window' = [window EXCEPT !.count = @ + 1]
    /\ IF window.count >= Limit
       THEN Goto(r, "ttl") /\ UNCHANGED passed
       ELSE Goto(r, IF window.count = 0 THEN "expire" ELSE "lookup") /\ Pass
    /\ UNCHANGED <<now, hosted, version, cache, answer, arrivals, limiterFaults>>

\* Mutant of Expire: the request is let through before EXPIRE has been sent.
ExpireForgotten(r) ==
    /\ request[r].stage = "expire"
    /\ Goto(r, "lookup")
    /\ UNCHANGED <<now, hosted, version, window, cache, answer, passed, arrivals, limiterFaults>>

\* EXPIRE, by the request that counted 1.
Expire(r) ==
    /\ request[r].stage = "expire"
    /\ window' = [window EXCEPT !.reset = now + Window]
    /\ Goto(r, "lookup")
    /\ UNCHANGED <<now, hosted, version, cache, answer, passed, arrivals, limiterFaults>>

\* TTL, and the answer 429.
Ttl(r) ==
    /\ request[r].stage = "ttl"
    /\ Respond(r, TooMany)
    /\ UNCHANGED <<now, hosted, version, window, cache, passed, arrivals, limiterFaults>>

\* Redis fails: the limiter lets the request pass.
LimiterFails(r) ==
    /\ request[r].stage \in {"incr", "expire", "ttl"}
    /\ limiterFaults < MaxLimiterFaults
    /\ limiterFaults' = limiterFaults + 1
    /\ Goto(r, "lookup")
    /\ IF request[r].stage = "expire" THEN UNCHANGED passed ELSE Pass
    /\ UNCHANGED <<now, hosted, version, window, cache, answer, arrivals>>

\* cache.get: an answer from the cache is the raw body, without validators.
LookUp(r) ==
    /\ request[r].stage = "lookup"
    /\ LET fresh == {entry \in cache : now - entry.at <= Window}
       IN  /\ cache' = fresh
           /\ IF fresh = {}
              THEN Goto(r, "fetch") /\ UNCHANGED answer
              ELSE \E entry \in fresh :
                      Respond(r, [status |-> 200, got |-> entry.got, cleaned |-> FALSE])
    /\ UNCHANGED <<now, hosted, version, window, passed, arrivals, limiterFaults>>

\* Mutant of UpstreamAnswers: what is not an error is cached, a 304 too.
UpstreamAnswersCached(r) ==
    /\ request[r].stage = "fetch"
    /\ request' = [request EXCEPT ![r].stage = "body",
                                  ![r].got = IF request[r].known = version THEN -1 ELSE version]
    /\ UNCHANGED <<now, hosted, version, window, cache, answer, passed, arrivals, limiterFaults>>

\* The headers arrive.  A 304 is passed on.
UpstreamAnswers(r) ==
    /\ request[r].stage = "fetch"
    /\ IF request[r].known = version
       THEN Respond(r, [status |-> 304, got |-> -1, cleaned |-> FALSE])
       ELSE /\ request' = [request EXCEPT ![r].stage = "body", ![r].got = version]
            /\ UNCHANGED answer
    /\ UNCHANGED <<now, hosted, version, window, cache, passed, arrivals, limiterFaults>>

\* The body is complete: cached raw, answered cleaned.
BodyArrives(r) ==
    /\ request[r].stage = "body"
    /\ cache' = IF hosted THEN cache ELSE {[got |-> request[r].got, at |-> now]}
    /\ Respond(r, [status |-> 200, got |-> request[r].got, cleaned |-> TRUE])
    /\ UNCHANGED <<now, hosted, version, window, passed, arrivals, limiterFaults>>

\* The publisher fails, is aborted after 15 s, or answers with an error: not cached.
UpstreamFails(r) ==
    /\ request[r].stage \in {"fetch", "body"}
    /\ Respond(r, [status |-> 502, got |-> -1, cleaned |-> FALSE])
    /\ UNCHANGED <<now, hosted, version, window, cache, passed, arrivals, limiterFaults>>

\* Time passes.  Redis drops a key whose time has come.
Pace ==
    /\ now < MaxTime
    /\ now' = now + 1
    /\ window' = IF hosted /\ window.reset = now + 1 THEN NoWindow ELSE window
    /\ UNCHANGED <<hosted, version, cache, request, answer, passed, arrivals, limiterFaults>>

PublishVersion ==
    /\ version < MaxVersion
    /\ version' = version + 1
    /\ UNCHANGED <<now, hosted, window, cache, request, answer, passed, arrivals, limiterFaults>>

ProxyNext ==
    \/ Pace \/ PublishVersion
    \/ \E r \in Requests :
          \/ Arrive(r) \/ Incr(r) \/ Expire(r) \/ Ttl(r) \/ LimiterFails(r)
          \/ LookUp(r) \/ UpstreamAnswers(r) \/ BodyArrives(r) \/ UpstreamFails(r)

ProxySpec == ProxyInit /\ [][ProxyNext]_proxyVars

-----------------------------------------------------------------------------
(* Properties.                                                             *)

\* Of any n + 1 requests that pass in a row, the last is a window later than the first:
\* in a time as long as a window at most n pass.
AtMost(n) == \A i \in 1..(Len(passed) - n) : passed[i + n] - passed[i] >= Window

\* A fixed window lets a burst at its end meet one at the start of the next: in a time
\* as long as a window at most twice the limit pass, as long as Redis works
\* (rate-limiter.ts, createRateLimiter of server.ts).
TwiceTheLimit ==
    limiterFaults = 0 => AtMost(2 * Limit)

\* A counter that will not be reset has a request about to send its EXPIRE, unless
\* Redis has failed.
CounterWillReset ==
    hosted /\ limiterFaults = 0 /\ window.count > 0 /\ window.reset = Never
    => \E r \in Requests : request[r].stage = "expire"

\* The 304 that one client's validators earned does not become the empty body of
\* another client's answer: what is cached or answered as a body is one.
BodiesAreWhole ==
    /\ \A r \in Requests : answer[r].status = 200 => answer[r].got \in Versions
    /\ \A entry \in cache : entry.got \in Versions

\* server.ts:97: the limiter uses "a sliding window per IP".
SlidingWindow == AtMost(Limit)

\* rate-limiter.ts:7-8: "the first hit also EXPIRE-s the key so the counter
\* auto-resets at window boundary".
CounterAutoResets ==
    hosted /\ window.count > 0 /\ window.reset = Never
    => \E r \in Requests : request[r].stage = "expire"

\* proxy-handler.ts:41: content is stripped of trackers "before returning".
AnswersAreCleaned ==
    \A r \in Requests : answer[r].status = 200 => answer[r].cleaned
=============================================================================
