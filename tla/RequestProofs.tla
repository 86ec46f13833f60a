----------------------------- MODULE RequestProofs -----------------------------
(***************************************************************************)
(* Proofs about the requests for feeds: Proxy, the server's limiter and     *)
(* cache, for every number of requests, every limit and window, and Pacing, *)
(* the browser's batches and backoff, for every table of feeds and every    *)
(* number of batches.  The two share no state; Pacing begins at `Spares`.   *)
(***************************************************************************)
EXTENDS Proxy, Pacing, SequenceTheorems, FiniteSetTheorems, WellFoundedInduction, TLAPS

\* How many of the requests that passed are counted in the window of now; the counter in
\* Redis also counts those that did not.
Used == IF window.count < Limit THEN window.count ELSE Limit

PassesInOrder ==
    /\ \A i \in 1..Len(passed) : passed[i] <= now
    /\ \A i, j \in 1..Len(passed) : i <= j => passed[i] <= passed[j]

\* The window is not over before it has lasted from its first request; a window without a
\* time to live is still empty, or its first request is about to send the EXPIRE.
WindowLasts ==
    /\ Used <= Len(passed)
    /\ window.count = 0 => window.reset = Never
    /\ Used > 0 /\ window.reset # Never => window.reset >= passed[Len(passed) - Used + 1] + Window
    /\ ~hosted => (window.reset = Never => window.count = 0)
    /\ hosted => (window.reset # Never => window.reset > now)

\* What passed before the last two windows is a window's length older than the window of now.
WindowsApart ==
    \A k \in 1..(Len(passed) - Used - Limit) :
        passed[k] + Window <= IF Used = 0 THEN now ELSE passed[Len(passed) - Used + 1]

\* One request at a time is about to send EXPIRE, for a counter that needs it.
OneExpire ==
    /\ \A r \in Requests : request[r].stage \in {"incr", "expire", "ttl"} => hosted
    /\ \A r \in Requests :
          request[r].stage = "expire" => window.reset = Never /\ window.count > 0
    /\ \A r, s \in Requests :
          request[r].stage = "expire" /\ request[s].stage = "expire" => r = s

FetchedIsWhole == \A r \in Requests : request[r].stage = "body" => request[r].got \in Versions

LimiterInv == WindowLasts /\ WindowsApart /\ OneExpire /\ CounterWillReset /\ TwiceTheLimit

ProxyInv ==
    /\ ProxyTypeOK
    /\ PassesInOrder
    /\ limiterFaults = 0 => LimiterInv
    /\ FetchedIsWhole
    /\ BodiesAreWhole
-----------------------------------------------------------------------------
(* The arithmetic of windows.                                              *)

\* What the windows are made of.
LEMMA LimiterTypes ==
    ASSUME ProxyTypeOK
    PROVE  /\ now \in Nat /\ hosted \in BOOLEAN
           /\ Limit \in Nat \ {0} /\ Window \in Nat \ {0}
           /\ window = [count |-> window.count, reset |-> window.reset]
           /\ window.count \in Nat /\ window.reset \in Nat \cup {Never}
           /\ Len(passed) \in Nat
           /\ \A i \in 1..Len(passed) : passed[i] \in Nat
<1>1. MaxTime \in Nat /\ Window \in Nat /\ 0..MaxTime \subseteq Nat
  BY ProxyAssumption
<1>2. passed \in Seq(0..MaxTime)
  BY DEF ProxyTypeOK
<1>3. Len(passed) \in Nat /\ \A i \in 1..Len(passed) : passed[i] \in Nat
  BY <1>1, <1>2, LenProperties, ElementOfSeq
<1>4. window \in [count : Nat, reset : 0..(MaxTime + Window) \cup {Never}]
  BY DEF ProxyTypeOK
<1>5. window.reset \in Nat \cup {Never}
  BY <1>1, <1>4
<1> QED BY <1>1, <1>3, <1>4, <1>5, ProxyAssumption DEF ProxyTypeOK

\* Appending the time of a request to those that passed.
LEMMA PassAppends ==
    ASSUME ProxyTypeOK, Pass
    PROVE  /\ passed' \in Seq(0..MaxTime)
           /\ Len(passed') = Len(passed) + 1
           /\ \A i \in 1..Len(passed) : passed'[i] = passed[i]
           /\ passed'[Len(passed) + 1] = now
<1>1. passed \in Seq(0..MaxTime) /\ now \in 0..MaxTime /\ passed' = Append(passed, now)
  BY DEF ProxyTypeOK, Pass
<1> QED BY <1>1, AppendProperties

\* Times stay in order when a request passes now.
LEMMA PassKeepsOrder ==
    ASSUME ProxyTypeOK, PassesInOrder, Pass, now' = now
    PROVE  PassesInOrder'
<1> DEFINE n == Len(passed)
<1>1. n \in Nat /\ now \in Nat /\ \A i \in 1..n : passed[i] \in Nat
  BY LimiterTypes
<1>2. Len(passed') = n + 1 /\ passed'[n + 1] = now /\ \A i \in 1..n : passed'[i] = passed[i]
  BY PassAppends
<1>3. /\ \A i \in 1..n : passed[i] <= now
      /\ \A i, j \in 1..n : i <= j => passed[i] <= passed[j]
  BY DEF PassesInOrder
<1> HIDE DEF n
<1>4. \A i \in 1..(n + 1) : i \in 1..n \/ i = n + 1
  BY <1>1
<1>5. \A i \in 1..(n + 1) : passed'[i] <= now'
  BY <1>1, <1>2, <1>3, <1>4
<1>6. ASSUME NEW i \in 1..(n + 1), NEW j \in 1..(n + 1), i <= j
      PROVE  passed'[i] <= passed'[j]
  <2>1. CASE j \in 1..n
    <3>1. i \in 1..n
      BY <1>1, <1>6, <2>1
    <3> QED BY <1>2, <1>3, <1>6, <2>1, <3>1
  <2>2. CASE j = n + 1
    BY <1>2, <1>5, <2>2
  <2> QED BY <1>4, <2>1, <2>2
<1> QED BY <1>2, <1>5, <1>6 DEF PassesInOrder

\* A window that begins when the last one is over is apart from the one before.
LEMMA AnewKeepsApart ==
    ASSUME NEW L \in Nat \ {0}, NEW W \in Nat, NEW n \in Nat, NEW u \in 0..L, u <= n,
           NEW p, NEW q, NEW t \in Nat,
           \A i \in 1..n : p[i] \in Nat /\ q[i] = p[i],
           \A i, j \in 1..n : i <= j => p[i] <= p[j],
           \A k \in 1..(n - u - L) : p[k] + W <= IF u = 0 THEN t ELSE p[n - u + 1],
           u > 0 => p[n - u + 1] + W <= t
    PROVE  \A k \in 1..(n - L) : q[k] + W <= t
<1> TAKE k \in 1..(n - L)
<1>1. k \in 1..n /\ q[k] = p[k] /\ p[k] \in Nat
  OBVIOUS
<1>2. CASE u = 0
  BY <1>1, <1>2
<1>3. CASE u # 0
  <2>1. n - u + 1 \in 1..n /\ k <= n - u + 1
    BY <1>3
  <2>2. p[k] <= p[n - u + 1] /\ p[n - u + 1] \in Nat
    BY <1>1, <2>1
  <2> QED BY <1>1, <1>3, <2>2
<1> QED BY <1>2, <1>3

-----------------------------------------------------------------------------
(* What a step does to a request.                                          *)

\* A request of the right type.
RequestType == [stage : {"idle", "incr", "expire", "ttl", "lookup", "fetch", "body"},
                known : Versions \cup {-1}, got : Versions \cup {-1}]

\* An answer of the right type.
AnswerType == [status : {0, 200, 304, 429, 502}, got : Versions \cup {-1},
               cleaned : BOOLEAN]

\* A step to another stage.
LEMMA GotoStage ==
    ASSUME ProxyTypeOK, NEW r \in Requests,
           NEW stage \in {"idle", "incr", "expire", "ttl", "lookup", "fetch", "body"},
           Goto(r, stage)
    PROVE  /\ request' \in [Requests -> RequestType]
           /\ request'[r].stage = stage
           /\ request'[r].got = request[r].got
           /\ \A q \in Requests \ {r} : request'[q] = request[q]
<1>1. request \in [Requests -> RequestType]
  BY DEF ProxyTypeOK, RequestType
<1>2. request' = [request EXCEPT ![r] = [request[r] EXCEPT !.stage = stage]]
  BY DEF Goto
<1>3. [request[r] EXCEPT !.stage = stage] \in RequestType
  BY <1>1 DEF RequestType
<1>4. /\ [request[r] EXCEPT !.stage = stage].stage = stage
      /\ [request[r] EXCEPT !.stage = stage].got = request[r].got
  BY <1>1 DEF RequestType
<1> QED BY <1>1, <1>2, <1>3, <1>4

\* A request that is replaced as a whole.
LEMMA ReplaceRequest ==
    ASSUME ProxyTypeOK, NEW r \in Requests, NEW new \in RequestType,
           request' = [request EXCEPT ![r] = new]
    PROVE  /\ request' \in [Requests -> RequestType]
           /\ request'[r] = new
           /\ \A q \in Requests \ {r} : request'[q] = request[q]
BY DEF ProxyTypeOK, RequestType

\* The end of a request.
LEMMA RespondEnds ==
    ASSUME ProxyTypeOK, NEW r \in Requests,
           NEW response \in AnswerType,
           Respond(r, response)
    PROVE  /\ request' \in [Requests -> RequestType]
           /\ request'[r] = NoRequest
           /\ \A q \in Requests \ {r} : request'[q] = request[q]
           /\ answer' \in [Requests -> AnswerType]
           /\ answer'[r] = response
           /\ \A q \in Requests \ {r} : answer'[q] = answer[q]
<1>1. NoRequest \in RequestType
  BY DEF NoRequest, RequestType
<1>2. request' = [request EXCEPT ![r] = NoRequest]
  BY DEF Respond
<1>3. answer' = [answer EXCEPT ![r] = response]
  BY DEF Respond
<1>4. answer \in [Requests -> AnswerType]
  BY DEF ProxyTypeOK, AnswerType
<1>5. /\ request' \in [Requests -> RequestType]
      /\ request'[r] = NoRequest
      /\ \A q \in Requests \ {r} : request'[q] = request[q]
  BY <1>1, <1>2, ReplaceRequest
<1> QED BY <1>3, <1>4, <1>5

\* A request that counts itself in memory arrives at the cache or is answered 429.
LEMMA CountInMemoryMoves ==
    ASSUME ProxyTypeOK, NEW r \in Requests, NEW v \in Versions \cup {-1},
           CountInMemory(r, v), request[r] = NoRequest
    PROVE  /\ request' \in [Requests -> RequestType]
           /\ request'[r].stage \in {"idle", "lookup"}
           /\ \A q \in Requests \ {r} : request'[q] = request[q]
           /\ answer' \in [Requests -> AnswerType]
           /\ answer'[r].status # 200
           /\ \A q \in Requests \ {r} : answer'[q] = answer[q]
<1> DEFINE new == [stage |-> "lookup", known |-> v, got |-> -1]
<1>1. /\ new \in RequestType /\ new.stage = "lookup" /\ NoRequest.stage = "idle"
      /\ request \in [Requests -> RequestType]
  BY DEF RequestType, NoRequest, ProxyTypeOK
<1>2. /\ NoAnswer \in AnswerType
      /\ TooMany \in AnswerType
      /\ NoAnswer.status # 200 /\ TooMany.status # 200
      /\ answer \in [Requests -> AnswerType]
  BY DEF NoAnswer, TooMany, ProxyTypeOK, AnswerType
<1>3. /\ \/ request' = [request EXCEPT ![r] = new]
         \/ request' = request
      /\ \/ answer' = [answer EXCEPT ![r] = NoAnswer]
         \/ answer' = [answer EXCEPT ![r] = TooMany]
  BY DEF CountInMemory
<1> HIDE DEF new
<1> QED BY <1>1, <1>2, <1>3
-----------------------------------------------------------------------------
(* The type.                                                               *)

\* Every step keeps the type.
LEMMA ProxyTypeKept ==
    ASSUME ProxyTypeOK, [ProxyNext]_proxyVars
    PROVE  ProxyTypeOK'
<1>1. /\ now \in 0..MaxTime /\ now \in Nat /\ MaxTime \in Nat /\ Window \in Nat \ {0}
      /\ Limit \in Nat \ {0} /\ MaxVersion \in Nat /\ version \in Nat /\ version \in Versions
      /\ window \in [count : Nat, reset : 0..(MaxTime + Window) \cup {Never}]
      /\ request \in [Requests -> RequestType]
      /\ answer \in [Requests -> AnswerType]
      /\ arrivals \in Nat /\ MaxArrivals \in Nat
      /\ limiterFaults \in Nat /\ MaxLimiterFaults \in Nat
      /\ now + Window \in 0..(MaxTime + Window)
  BY ProxyAssumption DEF ProxyTypeOK, RequestType, AnswerType, Versions
<1>3. TooMany \in AnswerType /\ NoAnswer \in AnswerType
  BY DEF TooMany, NoAnswer, AnswerType
<1>4. Pass => passed' \in Seq(0..MaxTime)
  BY PassAppends
<1>5. [window EXCEPT !.count = @ + 1] \in
         [count : Nat, reset : 0..(MaxTime + Window) \cup {Never}]
  BY <1>1
<1>6. CASE UNCHANGED proxyVars
  BY <1>6 DEF ProxyTypeOK, proxyVars, Versions
<1>7. CASE Pace
  <2>1. window' \in [count : Nat, reset : 0..(MaxTime + Window) \cup {Never}]
    BY <1>1, <1>7 DEF Pace, NoWindow
  <2>2. now' \in 0..MaxTime
    BY <1>1, <1>7 DEF Pace
  <2> QED BY <1>7, <2>1, <2>2 DEF ProxyTypeOK, Pace, Versions
<1>8. CASE PublishVersion
  <2>1. version' \in Versions
    BY <1>1, <1>8 DEF PublishVersion, Versions
  <2> QED BY <1>8, <2>1 DEF ProxyTypeOK, PublishVersion, Versions
<1>9. ASSUME NEW r \in Requests, Arrive(r) PROVE ProxyTypeOK'
  <2>1. PICK v \in 0..version \cup {-1} :
           IF hosted
           THEN /\ request' = [request EXCEPT ![r] = [stage |-> "incr", known |-> v, got |-> -1]]
                /\ answer' = [answer EXCEPT ![r] = NoAnswer]
                /\ UNCHANGED <<window, passed>>
           ELSE CountInMemory(r, v)
    BY <1>9 DEF Arrive
  <2>2. v \in Versions \cup {-1} /\ request[r] = NoRequest
    BY <1>1, <1>9 DEF Versions, Arrive
  <2>3. arrivals' \in 0..MaxArrivals
    BY <1>1, <1>9 DEF Arrive
  <2>4. CASE hosted
    <3>1. request' \in [Requests -> RequestType]
      BY <1>1, <2>1, <2>2, <2>4 DEF RequestType
    <3>2. answer' \in [Requests -> AnswerType]
      BY <1>1, <1>3, <2>1, <2>4
    <3> QED BY <1>9, <2>1, <2>3, <2>4, <3>1, <3>2
            DEF ProxyTypeOK, Arrive, Versions, RequestType, AnswerType
  <2>5. CASE ~hosted
    <3>1. request' \in [Requests -> RequestType] /\ answer' \in [Requests -> AnswerType]
      BY <2>1, <2>2, <2>5, CountInMemoryMoves
    <3>2. /\ window' \in [count : Nat, reset : 0..(MaxTime + Window) \cup {Never}]
          /\ passed' \in Seq(0..MaxTime)
      <4>1. \/ window' = [count |-> 1, reset |-> now + Window] /\ Pass
            \/ window' = [window EXCEPT !.count = @ + 1] /\ Pass
            \/ window' = window /\ passed' = passed
        BY <2>1, <2>5 DEF CountInMemory
      <4>2. passed' \in Seq(0..MaxTime)
        BY <1>4, <4>1 DEF ProxyTypeOK
      <4>3. \/ window' = [count |-> 1, reset |-> now + Window]
            \/ window' = [window EXCEPT !.count = @ + 1]
            \/ window' = window
        BY <4>1
      <4>4. [count |-> 1, reset |-> now + Window] \in
               [count : Nat, reset : 0..(MaxTime + Window) \cup {Never}]
        BY <1>1
      <4> QED BY <1>1, <1>5, <4>2, <4>3, <4>4
    <3> QED BY <1>9, <2>3, <3>1, <3>2
            DEF ProxyTypeOK, Arrive, Versions, RequestType, AnswerType
  <2> QED BY <2>4, <2>5
<1>10. ASSUME NEW r \in Requests, Incr(r) PROVE ProxyTypeOK'
  <2>1. request' \in [Requests -> RequestType]
    <3>1. \E stage \in {"ttl", "expire", "lookup"} : Goto(r, stage)
      BY <1>10 DEF Incr
    <3> QED BY <3>1, GotoStage
  <2>2. passed' \in Seq(0..MaxTime)
    BY <1>4, <1>10 DEF Incr, ProxyTypeOK
  <2>3. window' \in [count : Nat, reset : 0..(MaxTime + Window) \cup {Never}]
    BY <1>5, <1>10 DEF Incr
  <2> QED BY ZenonT(40), <1>10, <2>1, <2>2, <2>3 DEF ProxyTypeOK, Incr, Versions, RequestType
<1>11. ASSUME NEW r \in Requests, Expire(r) PROVE ProxyTypeOK'
  <2>1. request' \in [Requests -> RequestType]
    BY <1>11, GotoStage DEF Expire
  <2>2. window' \in [count : Nat, reset : 0..(MaxTime + Window) \cup {Never}]
    BY <1>1, <1>11 DEF Expire
  <2> QED BY ZenonT(40), <1>11, <2>1, <2>2 DEF ProxyTypeOK, Expire, Versions, RequestType
<1>12. ASSUME NEW r \in Requests, Ttl(r) PROVE ProxyTypeOK'
  <2>1. request' \in [Requests -> RequestType] /\ answer' \in [Requests -> AnswerType]
    BY <1>3, <1>12, RespondEnds DEF Ttl
  <2> QED BY <1>12, <2>1 DEF ProxyTypeOK, Ttl, Versions, RequestType, AnswerType
<1>13. ASSUME NEW r \in Requests, LimiterFails(r) PROVE ProxyTypeOK'
  <2>1. request' \in [Requests -> RequestType]
    BY <1>13, GotoStage DEF LimiterFails
  <2>2. passed' \in Seq(0..MaxTime)
    BY <1>4, <1>13 DEF LimiterFails, ProxyTypeOK
  <2>3. limiterFaults' \in 0..MaxLimiterFaults
    BY <1>1, <1>13 DEF LimiterFails
  <2> QED BY <1>13, <2>1, <2>2, <2>3 DEF ProxyTypeOK, LimiterFails, Versions, RequestType
<1>14. ASSUME NEW r \in Requests, LookUp(r) PROVE ProxyTypeOK'
  <2> DEFINE fresh == {entry \in cache : now - entry.at <= Window}
  <2>1. cache' = {} \/ cache' = cache
    <3>1. cache' = fresh
      BY <1>14 DEF LookUp
    <3>2. cache = {} \/ \E entry : cache = {entry}
      BY DEF ProxyTypeOK
    <3> QED BY <3>1, <3>2
  <2>2. request' \in [Requests -> RequestType] /\ answer' \in [Requests -> AnswerType]
    <3>1. CASE fresh = {}
      <4>1. Goto(r, "fetch") /\ answer' = answer
        BY <1>14, <3>1 DEF LookUp
      <4> QED BY <1>1, <4>1, GotoStage
    <3>2. CASE fresh # {}
      <4>1. PICK entry \in fresh :
               Respond(r, [status |-> 200, got |-> entry.got, cleaned |-> FALSE])
        BY <1>14, <3>2 DEF LookUp
      <4>2. entry.got \in Versions \cup {-1}
        BY DEF ProxyTypeOK
      <4>3. [status |-> 200, got |-> entry.got, cleaned |-> FALSE] \in AnswerType
        BY <4>2 DEF AnswerType
      <4> QED BY <4>1, <4>3, RespondEnds
    <3> QED BY <3>1, <3>2
  <2> QED BY ZenonT(40), <1>14, <2>1, <2>2 DEF ProxyTypeOK, LookUp, Versions, RequestType, AnswerType
<1>15. ASSUME NEW r \in Requests, UpstreamAnswers(r) PROVE ProxyTypeOK'
  <2>1. request' \in [Requests -> RequestType] /\ answer' \in [Requests -> AnswerType]
    <3>1. CASE request[r].known = version
      <4>1. Respond(r, [status |-> 304, got |-> -1, cleaned |-> FALSE])
        BY <1>15, <3>1 DEF UpstreamAnswers
      <4>2. [status |-> 304, got |-> -1, cleaned |-> FALSE] \in AnswerType
        BY DEF AnswerType
      <4> QED BY <4>1, <4>2, RespondEnds
    <3>2. CASE request[r].known # version
      <4>1. request' = [request EXCEPT ![r].stage = "body", ![r].got = version]
            /\ answer' = answer
        BY <1>15, <3>2 DEF UpstreamAnswers
      <4> QED BY ZenonT(40), <1>1, <4>1 DEF RequestType
    <3> QED BY <3>1, <3>2
  <2> QED BY <1>15, <2>1 DEF ProxyTypeOK, UpstreamAnswers, Versions, RequestType, AnswerType
<1>16. ASSUME NEW r \in Requests, BodyArrives(r) PROVE ProxyTypeOK'
  <2>1. request[r].got \in Versions \cup {-1}
    BY <1>1 DEF RequestType
  <2>2. [status |-> 200, got |-> request[r].got, cleaned |-> TRUE] \in AnswerType
    BY <2>1 DEF AnswerType
  <2>3. request' \in [Requests -> RequestType] /\ answer' \in [Requests -> AnswerType]
    BY <1>16, <2>2, RespondEnds DEF BodyArrives
  <2>4. cache' = {} \/ \E v \in Versions \cup {-1}, t \in 0..MaxTime : cache' = {[got |-> v, at |-> t]}
    BY <1>1, <1>16, <2>1 DEF BodyArrives, ProxyTypeOK
  <2> QED BY <1>16, <2>3, <2>4 DEF ProxyTypeOK, BodyArrives, Versions, RequestType, AnswerType
<1>17. ASSUME NEW r \in Requests, UpstreamFails(r) PROVE ProxyTypeOK'
  <2>1. [status |-> 502, got |-> -1, cleaned |-> FALSE] \in AnswerType
    BY DEF AnswerType
  <2>2. request' \in [Requests -> RequestType] /\ answer' \in [Requests -> AnswerType]
    BY <1>17, <2>1, RespondEnds DEF UpstreamFails
  <2> QED BY <1>17, <2>2 DEF ProxyTypeOK, UpstreamFails, Versions, RequestType, AnswerType
<1> QED BY <1>6, <1>7, <1>8, <1>9, <1>10, <1>11, <1>12, <1>13, <1>14, <1>15, <1>16, <1>17
        DEF ProxyNext

-----------------------------------------------------------------------------
(* The order of times, and the bodies.                                     *)

\* Every step keeps the times in order.
LEMMA PassesKeptInOrder ==
    ASSUME ProxyTypeOK, PassesInOrder, [ProxyNext]_proxyVars
    PROVE  PassesInOrder'
<1>1. CASE Pass /\ now' = now
  BY <1>1, PassKeepsOrder
<1>2. CASE passed' = passed /\ now' \in {now, now + 1}
  <2>1. now \in Nat /\ \A i \in 1..Len(passed) : passed[i] \in Nat
    BY LimiterTypes
  <2>2. \A i \in 1..Len(passed) : passed[i] <= now'
    BY <1>2, <2>1 DEF PassesInOrder
  <2> QED BY <1>2, <2>2 DEF PassesInOrder
<1>3. (Pass /\ now' = now) \/ (passed' = passed /\ now' \in {now, now + 1})
  <2>1. CASE UNCHANGED proxyVars
    BY <2>1 DEF proxyVars
  <2>2. CASE Pace \/ PublishVersion
    BY <2>2 DEF Pace, PublishVersion
  <2>3. ASSUME NEW r \in Requests, Arrive(r)
        PROVE  (Pass /\ now' = now) \/ (passed' = passed /\ now' \in {now, now + 1})
    BY <2>3 DEF Arrive, CountInMemory
  <2>4. ASSUME NEW r \in Requests,
               Incr(r) \/ Expire(r) \/ Ttl(r) \/ LimiterFails(r)
        PROVE  (Pass /\ now' = now) \/ (passed' = passed /\ now' \in {now, now + 1})
    BY <2>4 DEF Incr, Expire, Ttl, LimiterFails
  <2>5. ASSUME NEW r \in Requests,
               LookUp(r) \/ UpstreamAnswers(r) \/ BodyArrives(r) \/ UpstreamFails(r)
        PROVE  (Pass /\ now' = now) \/ (passed' = passed /\ now' \in {now, now + 1})
    BY <2>5 DEF LookUp, UpstreamAnswers, BodyArrives, UpstreamFails
  <2> QED BY <2>1, <2>2, <2>3, <2>4, <2>5 DEF ProxyNext
<1> QED BY <1>1, <1>2, <1>3

\* Every step keeps the bodies whole: what is in memory while a body arrives is a
\* version, and so is what is cached or answered from it.
LEMMA BodiesKeptWhole ==
    ASSUME ProxyTypeOK, FetchedIsWhole, BodiesAreWhole, [ProxyNext]_proxyVars
    PROVE  FetchedIsWhole' /\ BodiesAreWhole'
<1>1. /\ request \in [Requests -> RequestType] /\ answer \in [Requests -> AnswerType]
      /\ version \in Versions /\ Versions' = Versions
      /\ NoRequest.stage = "idle" /\ NoAnswer.status # 200 /\ TooMany.status # 200
  BY DEF ProxyTypeOK, RequestType, AnswerType, Versions, NoRequest, NoAnswer, TooMany
<1>2. /\ \A r \in Requests : request[r].stage = "body" => request[r].got \in Versions
      /\ \A r \in Requests : answer[r].status = 200 => answer[r].got \in Versions
      /\ \A entry \in cache : entry.got \in Versions
  BY DEF FetchedIsWhole, BodiesAreWhole
<1>3. SUFFICES
        /\ \A r \in Requests : request'[r].stage = "body" => request'[r].got \in Versions
        /\ \A r \in Requests : answer'[r].status = 200 => answer'[r].got \in Versions
        /\ \A entry \in cache' : entry.got \in Versions
  BY <1>1 DEF FetchedIsWhole, BodiesAreWhole
<1>4. CASE UNCHANGED proxyVars \/ Pace \/ PublishVersion
  <2>1. request' = request /\ answer' = answer /\ cache' = cache
    BY <1>4 DEF proxyVars, Pace, PublishVersion
  <2> QED BY <1>2, <2>1
<1>5. ASSUME NEW r \in Requests, Arrive(r) PROVE <1>3!1
  <2>1. cache' = cache /\ request[r] = NoRequest
    BY <1>5 DEF Arrive
  <2>2. PICK v \in 0..version \cup {-1} :
           IF hosted
           THEN /\ request' = [request EXCEPT ![r] = [stage |-> "incr", known |-> v, got |-> -1]]
                /\ answer' = [answer EXCEPT ![r] = NoAnswer]
                /\ UNCHANGED <<window, passed>>
           ELSE CountInMemory(r, v)
    BY <1>5 DEF Arrive
  <2>3. CASE hosted
    BY <1>1, <1>2, <2>1, <2>2, <2>3
  <2>4. CASE ~hosted
    <3>1. v \in Versions \cup {-1}
      BY ProxyAssumption DEF Versions, ProxyTypeOK
    <3>2. /\ request'[r].stage # "body" /\ answer'[r].status # 200
          /\ \A q \in Requests \ {r} : request'[q] = request[q] /\ answer'[q] = answer[q]
      BY <2>1, <2>2, <2>4, <3>1, CountInMemoryMoves
    <3> QED BY <1>2, <2>1, <3>2
  <2> QED BY <2>3, <2>4
<1>6. ASSUME NEW r \in Requests, Incr(r) \/ Expire(r) \/ LimiterFails(r) PROVE <1>3!1
  <2>1. /\ cache' = cache /\ answer' = answer
        /\ \E stage \in {"ttl", "expire", "lookup"} : Goto(r, stage)
    BY <1>6 DEF Incr, Expire, LimiterFails
  <2>2. request'[r].stage # "body" /\ \A q \in Requests \ {r} : request'[q] = request[q]
    BY <2>1, GotoStage
  <2> QED BY <1>2, <2>1, <2>2
<1>7. ASSUME NEW r \in Requests, NEW response \in AnswerType, Respond(r, response),
             response.status = 200 => response.got \in Versions,
             \A entry \in cache' : entry.got \in Versions
      PROVE  <1>3!1
  <2>1. /\ request'[r] = NoRequest /\ answer'[r] = response
        /\ \A q \in Requests \ {r} : request'[q] = request[q] /\ answer'[q] = answer[q]
    BY <1>7, RespondEnds
  <2> QED BY <1>1, <1>2, <1>7, <2>1
<1>8. ASSUME NEW r \in Requests, Ttl(r) PROVE <1>3!1
  <2>1. TooMany \in AnswerType
    BY DEF TooMany, AnswerType
  <2>2. cache' = cache /\ Respond(r, TooMany)
    BY <1>8 DEF Ttl
  <2> QED BY <1>1, <1>2, <1>7, <2>1, <2>2
<1>9. ASSUME NEW r \in Requests, LookUp(r) PROVE <1>3!1
  <2> DEFINE fresh == {entry \in cache : now - entry.at <= Window}
  <2>1. \A entry \in cache' : entry.got \in Versions
    BY <1>2, <1>9 DEF LookUp
  <2>2. CASE fresh = {}
    <3>1. Goto(r, "fetch") /\ answer' = answer
      BY <1>9, <2>2 DEF LookUp
    <3>2. request'[r].stage # "body" /\ \A q \in Requests \ {r} : request'[q] = request[q]
      BY <3>1, GotoStage
    <3> QED BY <1>2, <2>1, <3>1, <3>2
  <2>3. CASE fresh # {}
    <3>1. PICK entry \in fresh :
             Respond(r, [status |-> 200, got |-> entry.got, cleaned |-> FALSE])
      BY <1>9, <2>3 DEF LookUp
    <3> DEFINE response == [status |-> 200, got |-> entry.got, cleaned |-> FALSE]
    <3>2. response \in AnswerType /\ response.got \in Versions
      BY <1>2 DEF AnswerType
    <3> HIDE DEF response
    <3> QED BY <1>7, <2>1, <3>1, <3>2 DEF response
  <2> QED BY <2>2, <2>3
<1>10. ASSUME NEW r \in Requests, UpstreamAnswers(r) PROVE <1>3!1
  <2>1. cache' = cache
    BY <1>10 DEF UpstreamAnswers
  <2>2. CASE request[r].known = version
    <3> DEFINE response == [status |-> 304, got |-> -1, cleaned |-> FALSE]
    <3>1. response \in AnswerType /\ response.status # 200
      BY DEF AnswerType
    <3>2. Respond(r, response)
      BY <1>10, <2>2 DEF UpstreamAnswers
    <3> HIDE DEF response
    <3> QED BY <1>2, <1>7, <2>1, <3>1, <3>2
  <2>3. CASE request[r].known # version
    <3>1. request' = [request EXCEPT ![r].stage = "body", ![r].got = version]
          /\ answer' = answer
      BY <1>10, <2>3 DEF UpstreamAnswers
    <3>2. request'[r].got = version /\ \A q \in Requests \ {r} : request'[q] = request[q]
      BY <1>1, <3>1 DEF RequestType
    <3> QED BY <1>1, <1>2, <2>1, <3>1, <3>2
  <2> QED BY <2>2, <2>3
<1>11. ASSUME NEW r \in Requests, BodyArrives(r) PROVE <1>3!1
  <2> DEFINE response == [status |-> 200, got |-> request[r].got, cleaned |-> TRUE]
  <2>1. request[r].got \in Versions
    BY <1>2, <1>11 DEF BodyArrives
  <2>2. \A entry \in cache' : entry.got \in Versions
    BY <1>2, <1>11, <2>1 DEF BodyArrives
  <2>3. response \in AnswerType /\ response.got \in Versions
    BY <2>1 DEF AnswerType
  <2>4. Respond(r, response)
    BY <1>11 DEF BodyArrives
  <2> HIDE DEF response
  <2> QED BY <1>7, <2>2, <2>3, <2>4
<1>12. ASSUME NEW r \in Requests, UpstreamFails(r) PROVE <1>3!1
  <2> DEFINE response == [status |-> 502, got |-> -1, cleaned |-> FALSE]
  <2>1. response \in AnswerType /\ response.status # 200
    BY DEF AnswerType
  <2>2. Respond(r, response) /\ cache' = cache
    BY <1>12 DEF UpstreamFails
  <2> HIDE DEF response
  <2> QED BY <1>2, <1>7, <2>1, <2>2
<1> QED BY <1>4, <1>5, <1>6, <1>8, <1>9, <1>10, <1>11, <1>12 DEF ProxyNext

-----------------------------------------------------------------------------
(* The windows.                                                            *)

\* What is counted in a window has passed.
LEMMA UsedTypes ==
    ASSUME ProxyTypeOK, WindowLasts
    PROVE  Used \in 0..Limit /\ Used <= Len(passed)
BY LimiterTypes DEF Used, WindowLasts

\* A step that leaves the counter alone, and the set of those about to send EXPIRE.
LEMMA LimiterLeftAlone ==
    ASSUME ProxyTypeOK, LimiterInv, UNCHANGED <<window, passed, now, hosted, limiterFaults>>,
           \A q \in Requests : request'[q].stage \in {"incr", "expire", "ttl"} => hosted,
           \A q \in Requests : request'[q].stage = "expire" <=> request[q].stage = "expire"
    PROVE  LimiterInv'
<1>1. Used' = Used
  BY DEF Used
<1>2. WindowLasts'
  BY <1>1 DEF LimiterInv, WindowLasts
<1>3. WindowsApart'
  BY <1>1 DEF LimiterInv, WindowsApart
<1>4. OneExpire'
  BY DEF LimiterInv, OneExpire
<1>5. CounterWillReset'
  BY DEF LimiterInv, CounterWillReset
<1>6. TwiceTheLimit'
  BY DEF LimiterInv, TwiceTheLimit, AtMost
<1> QED BY <1>2, <1>3, <1>4, <1>5, <1>6 DEF LimiterInv

\* The facts about a request that passes now.
LEMMA PassedNow ==
    ASSUME ProxyTypeOK, PassesInOrder, Pass, now' = now
    PROVE  /\ Len(passed) \in Nat /\ Len(passed') = Len(passed) + 1
           /\ passed'[Len(passed) + 1] = now
           /\ \A i \in 1..Len(passed) : passed[i] \in Nat /\ passed'[i] = passed[i]
           /\ \A i \in 1..(Len(passed) + 1) :
                 passed'[i] \in Nat /\ passed'[i] <= passed'[Len(passed) + 1]
<1> DEFINE n == Len(passed)
<1>1. n \in Nat /\ now \in Nat
  BY LimiterTypes
<1>2. /\ Len(passed') = n + 1 /\ passed'[n + 1] = now
      /\ \A i \in 1..n : passed[i] \in Nat /\ passed'[i] = passed[i]
  BY LimiterTypes, PassAppends
<1>3. \A i \in 1..Len(passed') : passed'[i] <= now
  BY PassKeepsOrder DEF PassesInOrder
<1> HIDE DEF n
<1>4. \A i \in 1..(n + 1) : passed'[i] \in Nat /\ passed'[i] <= passed'[n + 1]
  <2> TAKE i \in 1..(n + 1)
  <2>1. i \in 1..n \/ i = n + 1
    BY <1>1
  <2> QED BY <1>1, <1>2, <1>3, <2>1
<1> QED BY <1>1, <1>2, <1>4 DEF n

\* A request that passes in a window apart from those before the last one.
LEMMA PassBoundsBursts ==
    ASSUME ProxyTypeOK, PassesInOrder, AtMost(2 * Limit), Pass, now' = now,
           WindowsApart', Used' \in 1..Limit, Used' <= Len(passed) + 1
    PROVE  AtMost(2 * Limit)'
<1> DEFINE n == Len(passed)
           u == Used'
<1>1. /\ n \in Nat /\ Len(passed') = n + 1
      /\ \A i \in 1..n : passed'[i] = passed[i]
      /\ \A i \in 1..(n + 1) : passed'[i] \in Nat /\ passed'[i] <= passed'[n + 1]
  BY PassedNow
<1>2. Limit \in Nat \ {0} /\ Window \in Nat
  BY LimiterTypes
<1>3. \A i \in 1..(n - 2 * Limit) : passed[i + 2 * Limit] - passed[i] >= Window
  BY DEF AtMost
<1>4. u \in 1..Limit /\ u <= n + 1
  OBVIOUS
<1>5. \A k \in 1..(Len(passed') - u - Limit) :
         passed'[k] + Window <= IF u = 0 THEN now' ELSE passed'[Len(passed') - u + 1]
  BY DEF WindowsApart
<1> HIDE DEF n, u
<1>6. Len(passed') - u + 1 = n + 2 - u /\ u # 0 /\ Len(passed') - u - Limit = n + 1 - u - Limit
  BY <1>1, <1>2, <1>4
<1>7. \A k \in 1..(n + 1 - u - Limit) : passed'[k] + Window <= passed'[n + 2 - u]
  BY <1>5, <1>6
<1>8. ASSUME NEW i \in 1..(n + 1 - 2 * Limit)
      PROVE  passed'[i + 2 * Limit] - passed'[i] >= Window
  <2>1. CASE i + 2 * Limit <= n
    <3>1. i \in 1..(n - 2 * Limit) /\ i \in 1..n /\ i + 2 * Limit \in 1..n
      BY <1>1, <1>2, <2>1
    <3> QED BY <1>1, <1>3, <3>1
  <2>2. CASE i + 2 * Limit = n + 1
    <3>1. i \in 1..(n + 1 - u - Limit) /\ i \in 1..(n + 1) /\ n + 2 - u \in 1..(n + 1)
      BY <1>1, <1>2, <1>4, <2>2
    <3>2. passed'[i] + Window <= passed'[n + 2 - u] /\ passed'[n + 2 - u] <= passed'[n + 1]
      BY <1>1, <1>7, <3>1
    <3>3. passed'[i] \in Nat /\ passed'[n + 2 - u] \in Nat /\ passed'[n + 1] \in Nat
      BY <1>1, <3>1
    <3>4. passed'[n + 1] - passed'[i] >= Window
      BY <1>2, <3>2, <3>3
    <3> QED BY <2>2, <3>4
  <2> QED BY <1>1, <1>2, <2>1, <2>2
<1> QED BY <1>1, <1>2, <1>8 DEF AtMost

\* A request that passes and is counted in the window there is.
LEMMA CountedInWindow ==
    ASSUME ProxyTypeOK, PassesInOrder, WindowLasts, WindowsApart, AtMost(2 * Limit),
           Pass, window.count < Limit, window' = [window EXCEPT !.count = @ + 1],
           now' = now
    PROVE  /\ WindowsApart' /\ AtMost(2 * Limit)'
           /\ Used' <= Len(passed')
           /\ Used' > 0 /\ window'.reset # Never
              => window'.reset >= passed'[Len(passed') - Used' + 1] + Window
<1> DEFINE n == Len(passed)
           u == Used
<1>1. /\ now \in Nat /\ window.count \in Nat
      /\ Limit \in Nat \ {0} /\ Window \in Nat
      /\ window = [count |-> window.count, reset |-> window.reset]
  BY LimiterTypes
<1>2. window'.count = window.count + 1 /\ window'.reset = window.reset
  BY <1>1
<1>3. u \in Nat /\ u < Limit /\ u = window.count /\ Used' = u + 1 /\ u <= n
  BY <1>1, <1>2, UsedTypes DEF Used
<1>4. /\ n \in Nat /\ Len(passed') = n + 1 /\ passed'[n + 1] = now
      /\ \A i \in 1..n : passed[i] \in Nat /\ passed'[i] = passed[i]
  BY PassedNow
<1>5. \A k \in 1..(n - u - Limit) :
         passed[k] + Window <= IF u = 0 THEN now ELSE passed[n - u + 1]
  BY DEF WindowsApart
<1>6. window.reset # Never => u > 0 /\ window.reset >= passed[n - u + 1] + Window
  BY <1>1, <1>3 DEF WindowLasts
<1> HIDE DEF n, u
<1>7. /\ Len(passed') - Used' - Limit = n - u - Limit
      /\ Len(passed') - Used' + 1 = n - u + 1
      /\ Used' \in 1..Limit /\ Used' <= n + 1 /\ Used' # 0
  BY <1>1, <1>3, <1>4
<1>8. ASSUME NEW k \in 1..(n - u - Limit)
      PROVE  passed'[k] + Window <= passed'[n - u + 1]
  <2>1. k \in 1..n
    BY <1>1, <1>3, <1>4
  <2>2. CASE u = 0
    <3>1. n - u + 1 = n + 1
      BY <1>4, <2>2
    <3> QED BY <1>4, <1>5, <2>1, <2>2, <3>1
  <2>3. CASE u # 0
    <3>1. n - u + 1 \in 1..n
      BY <1>3, <1>4, <2>3
    <3> QED BY <1>4, <1>5, <2>1, <2>3, <3>1
  <2> QED BY <2>2, <2>3
<1>9. WindowsApart'
  BY <1>7, <1>8 DEF WindowsApart
<1>10. AtMost(2 * Limit)'
  BY <1>7, <1>9, PassBoundsBursts DEF n
<1>11. window'.reset # Never => window'.reset >= passed'[n - u + 1] + Window
  <2> SUFFICES ASSUME window.reset # Never
               PROVE  window.reset >= passed'[n - u + 1] + Window
    BY <1>2
  <2>1. n - u + 1 \in 1..n
    BY <1>3, <1>4, <1>6
  <2> QED BY <1>4, <1>6, <2>1
<1> QED BY <1>4, <1>7, <1>9, <1>10, <1>11

\* In memory, a request that begins a window because the last one is over.
LEMMA CountedAnew ==
    ASSUME ProxyTypeOK, PassesInOrder, WindowLasts, WindowsApart, AtMost(2 * Limit), ~hosted,
           window.count = 0 \/ now > window.reset,
           Pass, window' = [count |-> 1, reset |-> now + Window], now' = now
    PROVE  /\ WindowsApart' /\ AtMost(2 * Limit)'
           /\ Used' <= Len(passed')
           /\ window'.reset >= passed'[Len(passed') - Used' + 1] + Window
<1> DEFINE n == Len(passed)
           u == Used
<1>1. /\ n \in Nat /\ now \in Nat /\ window.count \in Nat
      /\ window.reset \in Nat \cup {Never}
      /\ Limit \in Nat \ {0} /\ Window \in Nat
  BY LimiterTypes
<1>2. window'.count = 1 /\ window'.reset = now + Window
  OBVIOUS
<1>3. u \in 0..Limit /\ Used' = 1 /\ u <= n
  BY <1>1, <1>2, UsedTypes DEF Used
<1>4. /\ Len(passed') = n + 1 /\ passed'[n + 1] = now
      /\ \A i \in 1..n : passed[i] \in Nat /\ passed'[i] = passed[i]
  BY PassedNow
<1>5. \A k \in 1..(n - u - Limit) :
         passed[k] + Window <= IF u = 0 THEN now ELSE passed[n - u + 1]
  BY DEF WindowsApart
<1>6. u > 0 => passed[n - u + 1] + Window <= now
  <2> SUFFICES ASSUME u > 0 PROVE passed[n - u + 1] + Window <= now
    OBVIOUS
  <2>1. window.count > 0
    BY <1>1 DEF Used
  <2>2. window.reset # Never /\ window.reset < now
    BY <1>1, <2>1 DEF WindowLasts
  <2>3. window.reset >= passed[n - u + 1] + Window
    BY <2>2 DEF WindowLasts
  <2>4. n - u + 1 \in 1..n
    BY <1>1, <1>3
  <2> QED BY <1>1, <1>4, <2>2, <2>3, <2>4
<1>7. \A i, j \in 1..n : i <= j => passed[i] <= passed[j]
  BY DEF PassesInOrder
<1> HIDE DEF n, u
<1>8. \A k \in 1..(n - Limit) : passed'[k] + Window <= now
  BY <1>1, <1>3, <1>4, <1>5, <1>6, <1>7, AnewKeepsApart
<1>9. /\ Len(passed') - Used' - Limit = n - Limit /\ Len(passed') - Used' + 1 = n + 1
      /\ Used' \in 1..Limit /\ Used' <= n + 1 /\ Used' # 0
  BY <1>1, <1>3, <1>4
<1>10. WindowsApart'
  BY <1>4, <1>8, <1>9 DEF WindowsApart
<1>11. AtMost(2 * Limit)'
  BY <1>9, <1>10, PassBoundsBursts DEF n
<1>12. passed'[Len(passed') - Used' + 1] = now /\ Used' <= Len(passed')
  BY <1>1, <1>3, <1>4, <1>9
<1>13. window'.reset >= passed'[Len(passed') - Used' + 1] + Window
  BY <1>1, <1>2, <1>12
<1> QED BY <1>10, <1>11, <1>12, <1>13

-----------------------------------------------------------------------------
(* The actions of the limiters.                                            *)

\* A request arrives; in memory it is counted at once.
LEMMA ArriveKeepsLimiter ==
    ASSUME ProxyTypeOK, PassesInOrder, LimiterInv, limiterFaults = 0,
           NEW r \in Requests, Arrive(r)
    PROVE  LimiterInv'
<1>1. PICK v \in 0..version \cup {-1} :
         IF hosted
         THEN /\ request' = [request EXCEPT ![r] = [stage |-> "incr", known |-> v, got |-> -1]]
              /\ answer' = [answer EXCEPT ![r] = NoAnswer]
              /\ UNCHANGED <<window, passed>>
         ELSE CountInMemory(r, v)
  BY DEF Arrive
<1>2. /\ request[r] = NoRequest /\ request \in [Requests -> RequestType]
      /\ NoRequest.stage = "idle" /\ UNCHANGED <<now, hosted, limiterFaults>>
      /\ v \in Versions \cup {-1}
  BY ProxyAssumption DEF Arrive, ProxyTypeOK, RequestType, NoRequest, Versions
<1>3. CASE hosted
  <2>1. /\ request'[r].stage = "incr"
        /\ \A q \in Requests \ {r} : request'[q] = request[q]
    BY <1>1, <1>2, <1>3
  <2>2. UNCHANGED <<window, passed>>
    BY <1>1, <1>3
  <2> QED BY <1>2, <1>3, <2>1, <2>2, LimiterLeftAlone
<1>4. CASE ~hosted
  <2>1. CountInMemory(r, v)
    BY <1>1, <1>4
  <2>2. /\ request'[r].stage \in {"idle", "lookup"}
        /\ \A q \in Requests \ {r} : request'[q] = request[q]
    BY <1>2, <2>1, CountInMemoryMoves
  <2>3. \A q \in Requests : request[q].stage \notin {"incr", "expire", "ttl"}
    BY <1>4 DEF LimiterInv, OneExpire
  <2>4. \A q \in Requests : request'[q].stage \notin {"incr", "expire", "ttl"}
    BY <2>2, <2>3
  <2>5. OneExpire' /\ CounterWillReset'
    BY <1>2, <1>4, <2>4 DEF OneExpire, CounterWillReset
  <2>6. /\ WindowLasts /\ WindowsApart /\ AtMost(2 * Limit)
        /\ now \in Nat /\ Limit \in Nat \ {0} /\ Window \in Nat \ {0}
        /\ window.count \in Nat /\ window.reset \in Nat \cup {Never}
        /\ window = [count |-> window.count, reset |-> window.reset]
    BY LimiterTypes DEF LimiterInv, TwiceTheLimit
  <2>7. CASE UNCHANGED <<window, passed>>
    BY <1>2, <1>4, <2>3, <2>4, <2>7, LimiterLeftAlone
  <2>8. CASE /\ window.count = 0 \/ now > window.reset
             /\ window' = [count |-> 1, reset |-> now + Window] /\ Pass
    <3>1. /\ WindowsApart' /\ AtMost(2 * Limit)' /\ Used' <= Len(passed')
          /\ window'.reset >= passed'[Len(passed') - Used' + 1] + Window
      BY <1>2, <1>4, <2>6, <2>8, CountedAnew
    <3>2. window'.count = 1 /\ window'.reset = now + Window /\ now + Window # Never
      BY <2>6, <2>8 DEF Never
    <3>3. WindowLasts'
      BY <1>2, <1>4, <3>1, <3>2 DEF WindowLasts
    <3> QED BY <2>5, <3>1, <3>3 DEF LimiterInv, TwiceTheLimit
  <2>9. CASE /\ window.count # 0 /\ window.count < Limit
             /\ window' = [window EXCEPT !.count = @ + 1] /\ Pass
    <3>1. /\ WindowsApart' /\ AtMost(2 * Limit)' /\ Used' <= Len(passed')
          /\ Used' > 0 /\ window'.reset # Never
             => window'.reset >= passed'[Len(passed') - Used' + 1] + Window
      BY <1>2, <2>6, <2>9, CountedInWindow
    <3>2. window'.count = window.count + 1 /\ window'.reset = window.reset
      BY <2>6, <2>9
    <3>3. window.reset # Never /\ window'.count # 0
      BY <1>4, <2>6, <2>9, <3>2 DEF WindowLasts
    <3>4. WindowLasts'
      BY <1>2, <1>4, <3>1, <3>2, <3>3 DEF WindowLasts
    <3> QED BY <2>5, <3>1, <3>4 DEF LimiterInv, TwiceTheLimit
  <2> QED BY <2>1, <2>7, <2>8, <2>9 DEF CountInMemory
<1> QED BY <1>3, <1>4

\* INCR: the first request of a window is to send its EXPIRE, and those over the limit
\* do not pass.
LEMMA IncrKeepsLimiter ==
    ASSUME ProxyTypeOK, PassesInOrder, LimiterInv, limiterFaults = 0,
           NEW r \in Requests, Incr(r)
    PROVE  LimiterInv'
<1>1. /\ WindowLasts /\ WindowsApart /\ AtMost(2 * Limit) /\ OneExpire /\ CounterWillReset
      /\ now \in Nat /\ Limit \in Nat \ {0}
      /\ window.count \in Nat /\ window.reset \in Nat \cup {Never}
      /\ window = [count |-> window.count, reset |-> window.reset]
  BY LimiterTypes DEF LimiterInv, TwiceTheLimit
<1>2. /\ request[r].stage = "incr" /\ hosted
      /\ window' = [window EXCEPT !.count = @ + 1]
      /\ UNCHANGED <<now, hosted, limiterFaults>>
  BY <1>1 DEF Incr, OneExpire
<1>3. /\ window'.count = window.count + 1 /\ window'.count # 0
      /\ window'.reset = window.reset
  BY <1>1, <1>2
<1>4. /\ \A q \in Requests \ {r} : request'[q] = request[q]
      /\ request'[r].stage = IF window.count >= Limit THEN "ttl"
                             ELSE IF window.count = 0 THEN "expire" ELSE "lookup"
  <2> DEFINE stage == IF window.count >= Limit THEN "ttl"
                      ELSE IF window.count = 0 THEN "expire" ELSE "lookup"
  <2>1. Goto(r, stage) /\ stage \in {"ttl", "expire", "lookup"}
    BY DEF Incr
  <2> HIDE DEF stage
  <2>2. /\ \A q \in Requests \ {r} : request'[q] = request[q]
        /\ request'[r].stage = stage
    BY <2>1, GotoStage
  <2> QED BY <2>2 DEF stage
<1>5. OneExpire'
  <2>1. \A q \in Requests \ {r} :
           request[q].stage = "expire" => window.reset = Never /\ window.count > 0
    BY <1>1 DEF OneExpire
  <2>2. request'[r].stage = "expire" => window.count = 0 /\ window.reset = Never
    BY <1>1, <1>4 DEF WindowLasts
  <2>3. \A q \in Requests : request'[q].stage = "expire" => window'.reset = Never /\ window'.count > 0
    BY <1>1, <1>3, <1>4, <2>1, <2>2
  <2>4. \A p, q \in Requests : request'[p].stage = "expire" /\ request'[q].stage = "expire" => p = q
    BY <1>1, <1>4, <2>1, <2>2 DEF OneExpire
  <2> QED BY <1>2, <2>3, <2>4 DEF OneExpire
<1>6. CounterWillReset'
  <2> SUFFICES ASSUME window.reset = Never
               PROVE  \E q \in Requests : request'[q].stage = "expire"
    BY <1>3 DEF CounterWillReset
  <2>1. CASE window.count = 0
    BY <1>1, <1>4, <2>1
  <2>2. CASE window.count # 0
    <3>1. PICK q \in Requests : request[q].stage = "expire"
      BY <1>1, <1>2, <2>2 DEF CounterWillReset
    <3>2. q # r
      BY <1>2, <3>1
    <3> QED BY <1>4, <3>1, <3>2
  <2> QED BY <2>1, <2>2
<1>7. CASE window.count < Limit
  <2>1. Pass
    BY <1>1, <1>7 DEF Incr
  <2>2. /\ WindowsApart' /\ AtMost(2 * Limit)' /\ Used' <= Len(passed')
        /\ Used' > 0 /\ window'.reset # Never
           => window'.reset >= passed'[Len(passed') - Used' + 1] + Window
    BY <1>1, <1>2, <1>7, <2>1, CountedInWindow
  <2>3. WindowLasts'
    BY <1>1, <1>2, <1>3, <2>2 DEF WindowLasts
  <2> QED BY <1>5, <1>6, <2>2, <2>3 DEF LimiterInv, TwiceTheLimit
<1>8. CASE window.count >= Limit
  <2>1. passed' = passed
    BY <1>8 DEF Incr
  <2>2. Used = Limit /\ Used' = Limit
    BY <1>1, <1>3, <1>8 DEF Used
  <2>3. WindowLasts'
    BY <1>1, <1>2, <1>3, <2>1, <2>2 DEF WindowLasts
  <2>4. WindowsApart'
    BY <1>1, <1>2, <2>1, <2>2 DEF WindowsApart
  <2>5. AtMost(2 * Limit)'
    BY <1>1, <2>1 DEF AtMost
  <2> QED BY <1>5, <1>6, <2>3, <2>4, <2>5 DEF LimiterInv, TwiceTheLimit
<1> QED BY <1>1, <1>7, <1>8

\* EXPIRE: from now on the counter has a time to live, no shorter than a window from its
\* first request.
LEMMA ExpireKeepsLimiter ==
    ASSUME ProxyTypeOK, PassesInOrder, LimiterInv, limiterFaults = 0,
           NEW r \in Requests, Expire(r)
    PROVE  LimiterInv'
<1>1. /\ WindowLasts /\ WindowsApart /\ AtMost(2 * Limit) /\ OneExpire
      /\ now \in Nat /\ Limit \in Nat \ {0} /\ Window \in Nat \ {0}
      /\ window.count \in Nat /\ Len(passed) \in Nat
      /\ \A i \in 1..Len(passed) : passed[i] \in Nat
      /\ window = [count |-> window.count, reset |-> window.reset]
  BY LimiterTypes DEF LimiterInv, TwiceTheLimit
<1>2. /\ request[r].stage = "expire" /\ hosted /\ window.count > 0
      /\ window' = [window EXCEPT !.reset = now + Window]
      /\ UNCHANGED <<now, hosted, limiterFaults, passed>>
  BY <1>1 DEF Expire, OneExpire
<1>3. /\ window'.count = window.count /\ window'.reset = now + Window
      /\ now + Window # Never /\ now + Window > now
  BY <1>1, <1>2 DEF Never
<1>4. Used' = Used /\ Used \in 0..Limit /\ Used <= Len(passed) /\ Used > 0
  BY <1>1, <1>2, <1>3, UsedTypes DEF Used
<1>5. request'[r].stage = "lookup" /\ \A q \in Requests \ {r} : request'[q] = request[q]
  BY GotoStage DEF Expire
<1>6. \A q \in Requests : request'[q].stage # "expire"
  BY <1>1, <1>2, <1>5 DEF OneExpire
<1>7. OneExpire' /\ CounterWillReset'
  BY <1>2, <1>3, <1>6 DEF OneExpire, CounterWillReset
<1>8. now + Window >= passed[Len(passed) - Used + 1] + Window
  <2>1. Len(passed) - Used + 1 \in 1..Len(passed)
    BY <1>1, <1>4
  <2>2. passed[Len(passed) - Used + 1] <= now /\ passed[Len(passed) - Used + 1] \in Nat
    BY <1>1, <2>1 DEF PassesInOrder
  <2> QED BY <1>1, <2>2
<1>9. WindowLasts'
  BY <1>2, <1>3, <1>4, <1>8 DEF WindowLasts
<1>10. WindowsApart'
  BY <1>1, <1>2, <1>4 DEF WindowsApart
<1>11. AtMost(2 * Limit)'
  BY <1>1, <1>2 DEF AtMost
<1> QED BY <1>7, <1>9, <1>10, <1>11 DEF LimiterInv, TwiceTheLimit

\* Time passes, and Redis drops a counter whose time has come.
LEMMA PaceKeepsLimiter ==
    ASSUME ProxyTypeOK, PassesInOrder, LimiterInv, limiterFaults = 0, Pace
    PROVE  LimiterInv'
<1> DEFINE n == Len(passed)
<1>1. /\ WindowLasts /\ WindowsApart /\ AtMost(2 * Limit) /\ OneExpire /\ CounterWillReset
      /\ now \in Nat /\ Limit \in Nat \ {0} /\ Window \in Nat \ {0}
      /\ window.count \in Nat /\ window.reset \in Nat \cup {Never} /\ n \in Nat
      /\ \A i \in 1..n : passed[i] \in Nat
  BY LimiterTypes DEF LimiterInv, TwiceTheLimit
<1>2. /\ now' = now + 1 /\ UNCHANGED <<hosted, request, passed, limiterFaults>>
      /\ window' = IF hosted /\ window.reset = now + 1 THEN NoWindow ELSE window
  BY DEF Pace
<1>3. Used \in 0..Limit /\ Used <= n
  BY <1>1, UsedTypes
<1>4. AtMost(2 * Limit)'
  BY <1>1, <1>2 DEF AtMost
<1>5. \A k \in 1..(n - Used - Limit) :
         passed[k] + Window <= IF Used = 0 THEN now ELSE passed[n - Used + 1]
  BY <1>1 DEF WindowsApart
<1>6. CASE hosted /\ window.reset = now + 1
  <2>1. window' = NoWindow /\ NoWindow.count = 0 /\ NoWindow.reset = Never
    BY <1>2, <1>6 DEF NoWindow
  <2>2. Used' = 0
    BY <1>1, <2>1 DEF Used
  <2>3. window.reset # Never
    BY <1>1, <1>6 DEF Never
  <2>4. \A q \in Requests : request[q].stage # "expire"
    BY <1>1, <2>3 DEF OneExpire
  <2>5. OneExpire' /\ CounterWillReset'
    BY <1>1, <1>2, <2>1, <2>4 DEF OneExpire, CounterWillReset
  <2>6. WindowLasts'
    BY <1>1, <1>2, <1>6, <2>1, <2>2 DEF WindowLasts
  <2>7. Used > 0 => passed[n - Used + 1] + Window <= now + 1
    BY <1>1, <1>6, <2>3 DEF WindowLasts
  <2>8. \A k \in 1..(n - Used - Limit) :
           passed[k] + Window <= IF Used = 0 THEN now + 1 ELSE passed[n - Used + 1]
    <3> TAKE k \in 1..(n - Used - Limit)
    <3>1. k \in 1..n
      BY <1>1, <1>3
    <3> QED BY <1>1, <1>5, <3>1
  <2>9. \A k \in 1..(n - Limit) : passed[k] + Window <= now + 1
    <3>1. \A i, j \in 1..n : i <= j => passed[i] <= passed[j]
      BY DEF PassesInOrder
    <3>2. now + 1 \in Nat /\ Window \in Nat
      BY <1>1
    <3> HIDE DEF n
    <3> QED BY <1>1, <1>3, <2>7, <2>8, <3>1, <3>2, AnewKeepsApart
  <2>10. WindowsApart'
    BY <1>1, <1>2, <2>2, <2>9 DEF WindowsApart
  <2> QED BY <1>4, <2>5, <2>6, <2>10 DEF LimiterInv, TwiceTheLimit
<1>7. CASE ~(hosted /\ window.reset = now + 1)
  <2>1. window' = window
    BY <1>2, <1>7
  <2>2. Used' = Used
    BY <2>1 DEF Used
  <2>3. OneExpire' /\ CounterWillReset'
    BY <1>1, <1>2, <2>1 DEF OneExpire, CounterWillReset
  <2>4. hosted => (window.reset # Never => window.reset > now + 1)
    BY <1>1, <1>7 DEF WindowLasts
  <2>5. WindowLasts'
    BY <1>1, <1>2, <2>1, <2>2, <2>4 DEF WindowLasts
  <2>6. \A k \in 1..(n - Used - Limit) :
           passed[k] + Window <= IF Used = 0 THEN now + 1 ELSE passed[n - Used + 1]
    <3> TAKE k \in 1..(n - Used - Limit)
    <3>1. k \in 1..n
      BY <1>1, <1>3
    <3> QED BY <1>1, <1>5, <3>1
  <2>7. WindowsApart'
    BY <1>2, <2>2, <2>6 DEF WindowsApart
  <2> QED BY <1>4, <2>3, <2>5, <2>7 DEF LimiterInv, TwiceTheLimit
<1> QED BY <1>6, <1>7

\* Every step keeps what holds of the limiters while Redis does not fail.
LEMMA LimiterKept ==
    ASSUME ProxyTypeOK, PassesInOrder, limiterFaults = 0 => LimiterInv,
           [ProxyNext]_proxyVars, limiterFaults' = 0
    PROVE  LimiterInv'
<1>1. limiterFaults \in Nat
  BY ProxyAssumption DEF ProxyTypeOK
<1>2. limiterFaults = 0
  <2>1. limiterFaults' = limiterFaults \/ limiterFaults' = limiterFaults + 1
    <3>1. CASE UNCHANGED proxyVars \/ Pace \/ PublishVersion
      BY <3>1 DEF proxyVars, Pace, PublishVersion
    <3>2. ASSUME NEW r \in Requests,
                 Arrive(r) \/ Incr(r) \/ Expire(r) \/ Ttl(r) \/ LimiterFails(r)
          PROVE  limiterFaults' = limiterFaults \/ limiterFaults' = limiterFaults + 1
      BY <3>2 DEF Arrive, Incr, Expire, Ttl, LimiterFails
    <3>3. ASSUME NEW r \in Requests,
                 LookUp(r) \/ UpstreamAnswers(r) \/ BodyArrives(r) \/ UpstreamFails(r)
          PROVE  limiterFaults' = limiterFaults
      BY <3>3 DEF LookUp, UpstreamAnswers, BodyArrives, UpstreamFails
    <3> QED BY <3>1, <3>2, <3>3 DEF ProxyNext
  <2> QED BY <1>1, <2>1
<1>3. LimiterInv /\ OneExpire
  BY <1>2 DEF LimiterInv
<1>4. CASE UNCHANGED proxyVars \/ PublishVersion
  BY <1>3, <1>4, LimiterLeftAlone DEF proxyVars, PublishVersion, OneExpire
<1>5. ASSUME NEW r \in Requests, request[r].stage # "expire",
             UNCHANGED <<window, passed, now, hosted, limiterFaults>>,
             request'[r].stage \notin {"incr", "expire", "ttl"},
             \A q \in Requests \ {r} : request'[q] = request[q]
      PROVE  LimiterInv'
  <2>1. \A q \in Requests : request'[q].stage \in {"incr", "expire", "ttl"} => hosted
    BY <1>3, <1>5 DEF OneExpire
  <2>2. \A q \in Requests : request'[q].stage = "expire" <=> request[q].stage = "expire"
    BY <1>5
  <2> QED BY <1>3, <1>5, <2>1, <2>2, LimiterLeftAlone
<1>6. ASSUME NEW r \in Requests, NEW response \in AnswerType, Respond(r, response),
             request[r].stage # "expire",
             UNCHANGED <<window, passed, now, hosted, limiterFaults>>
      PROVE  LimiterInv'
  <2>1. request'[r] = NoRequest /\ \A q \in Requests \ {r} : request'[q] = request[q]
    BY <1>6, RespondEnds
  <2>2. NoRequest.stage = "idle"
    BY DEF NoRequest
  <2> QED BY <1>5, <1>6, <2>1, <2>2
<1>7. ASSUME NEW r \in Requests, Ttl(r) PROVE LimiterInv'
  <2>1. TooMany \in AnswerType
    BY DEF TooMany, AnswerType
  <2> QED BY <1>6, <1>7, <2>1 DEF Ttl
<1>8. ASSUME NEW r \in Requests, LookUp(r) PROVE LimiterInv'
  <2> DEFINE fresh == {entry \in cache : now - entry.at <= Window}
  <2>1. request[r].stage # "expire" /\ UNCHANGED <<window, passed, now, hosted, limiterFaults>>
    BY <1>8 DEF LookUp
  <2>2. CASE fresh = {}
    <3>1. Goto(r, "fetch")
      BY <1>8, <2>2 DEF LookUp
    <3> QED BY <1>5, <2>1, <3>1, GotoStage
  <2>3. CASE fresh # {}
    <3>1. PICK entry \in fresh :
             Respond(r, [status |-> 200, got |-> entry.got, cleaned |-> FALSE])
      BY <1>8, <2>3 DEF LookUp
    <3> DEFINE response == [status |-> 200, got |-> entry.got, cleaned |-> FALSE]
    <3>2. entry.got \in Versions \cup {-1}
      BY DEF ProxyTypeOK
    <3>3. response \in AnswerType
      BY <3>2 DEF AnswerType
    <3> HIDE DEF response
    <3> QED BY <1>6, <2>1, <3>1, <3>3 DEF response
  <2> QED BY <2>2, <2>3
<1>9. ASSUME NEW r \in Requests, UpstreamAnswers(r) PROVE LimiterInv'
  <2>1. request[r].stage # "expire" /\ UNCHANGED <<window, passed, now, hosted, limiterFaults>>
    BY <1>9 DEF UpstreamAnswers
  <2>2. CASE request[r].known = version
    <3> DEFINE response == [status |-> 304, got |-> -1, cleaned |-> FALSE]
    <3>1. response \in AnswerType
      BY DEF AnswerType
    <3>2. Respond(r, response)
      BY <1>9, <2>2 DEF UpstreamAnswers
    <3> HIDE DEF response
    <3> QED BY <1>6, <2>1, <3>1, <3>2
  <2>3. CASE request[r].known # version
    <3>1. request' = [request EXCEPT ![r].stage = "body", ![r].got = version]
      BY <1>9, <2>3 DEF UpstreamAnswers
    <3>2. request \in [Requests -> RequestType]
      BY DEF ProxyTypeOK, RequestType
    <3>3. request'[r].stage = "body" /\ \A q \in Requests \ {r} : request'[q] = request[q]
      BY <3>1, <3>2 DEF RequestType
    <3> QED BY <1>5, <2>1, <3>3
  <2> QED BY <2>2, <2>3
<1>10. ASSUME NEW r \in Requests, BodyArrives(r) PROVE LimiterInv'
  <2> DEFINE response == [status |-> 200, got |-> request[r].got, cleaned |-> TRUE]
  <2>1. response \in AnswerType
    BY DEF AnswerType, ProxyTypeOK
  <2>2. /\ Respond(r, response) /\ request[r].stage # "expire"
        /\ UNCHANGED <<window, passed, now, hosted, limiterFaults>>
    BY <1>10 DEF BodyArrives
  <2> HIDE DEF response
  <2> QED BY <1>6, <2>1, <2>2
<1>11. ASSUME NEW r \in Requests, UpstreamFails(r) PROVE LimiterInv'
  <2> DEFINE response == [status |-> 502, got |-> -1, cleaned |-> FALSE]
  <2>1. response \in AnswerType
    BY DEF AnswerType
  <2>2. /\ Respond(r, response) /\ request[r].stage # "expire"
        /\ UNCHANGED <<window, passed, now, hosted, limiterFaults>>
    BY <1>11 DEF UpstreamFails
  <2> HIDE DEF response
  <2> QED BY <1>6, <2>1, <2>2
<1>12. ASSUME NEW r \in Requests, LimiterFails(r) PROVE LimiterInv'
  BY <1>1, <1>12 DEF LimiterFails
<1>13. CASE Pace
  BY <1>2, <1>3, <1>13, PaceKeepsLimiter
<1>14. ASSUME NEW r \in Requests, Arrive(r) \/ Incr(r) \/ Expire(r) PROVE LimiterInv'
  BY <1>2, <1>3, <1>14, ArriveKeepsLimiter, IncrKeepsLimiter, ExpireKeepsLimiter
<1> QED BY <1>4, <1>7, <1>8, <1>9, <1>10, <1>11, <1>12, <1>13, <1>14 DEF ProxyNext
-----------------------------------------------------------------------------
(* The theorems.                                                           *)

\* The invariant holds initially.
LEMMA ProxyInitInv == ProxyInit => ProxyInv
<1> SUFFICES ASSUME ProxyInit PROVE ProxyInv
  OBVIOUS
<1>1. /\ now = 0 /\ version = 0 /\ window = NoWindow /\ cache = {} /\ passed = <<>>
      /\ request = [r \in Requests |-> NoRequest] /\ answer = [r \in Requests |-> NoAnswer]
      /\ hosted \in BOOLEAN /\ arrivals = 0 /\ limiterFaults = 0
  BY DEF ProxyInit
<1>2. /\ MaxTime \in Nat /\ MaxArrivals \in Nat /\ MaxVersion \in Nat
      /\ MaxLimiterFaults \in Nat /\ Limit \in Nat \ {0}
  BY ProxyAssumption
<1>3. passed \in Seq(0..MaxTime) /\ Len(passed) = 0
  BY <1>1
<1>4. /\ NoWindow \in [count : Nat, reset : 0..(MaxTime + Window) \cup {Never}]
      /\ NoWindow.count = 0 /\ NoWindow.reset = Never
  BY DEF NoWindow
<1>5. /\ NoRequest \in RequestType /\ NoRequest.stage = "idle"
      /\ NoAnswer \in AnswerType /\ NoAnswer.status = 0
  BY DEF NoRequest, RequestType, NoAnswer, AnswerType
<1>6. ProxyTypeOK
  BY <1>1, <1>2, <1>3, <1>4, <1>5 DEF ProxyTypeOK, Versions, RequestType, AnswerType
<1>7. PassesInOrder
  BY <1>3 DEF PassesInOrder
<1>8. Used = 0
  BY <1>1, <1>2, <1>4 DEF Used
<1>9. WindowLasts
  BY <1>1, <1>3, <1>4, <1>8 DEF WindowLasts
<1>10. WindowsApart /\ TwiceTheLimit
  BY <1>2, <1>3, <1>8 DEF WindowsApart, TwiceTheLimit, AtMost
<1>11. OneExpire /\ CounterWillReset /\ FetchedIsWhole /\ BodiesAreWhole
  BY <1>1, <1>4, <1>5 DEF OneExpire, CounterWillReset, FetchedIsWhole, BodiesAreWhole
<1> QED BY <1>6, <1>7, <1>9, <1>10, <1>11 DEF ProxyInv, LimiterInv

\* Every step keeps it.
LEMMA ProxyNextInv == ProxyInv /\ [ProxyNext]_proxyVars => ProxyInv'
<1> SUFFICES ASSUME ProxyInv, [ProxyNext]_proxyVars PROVE ProxyInv'
  OBVIOUS
<1>1. /\ ProxyTypeOK /\ PassesInOrder /\ FetchedIsWhole /\ BodiesAreWhole
      /\ limiterFaults = 0 => LimiterInv
  BY DEF ProxyInv
<1> QED BY <1>1, ProxyTypeKept, PassesKeptInOrder, BodiesKeptWhole, LimiterKept DEF ProxyInv

\* The inductive invariant of the proxy.
THEOREM ProxyInvariant == ProxySpec => []ProxyInv
BY ProxyInitInv, ProxyNextInv, PTL DEF ProxySpec

\* As long as Redis works, at most twice the limit passes in a time as long as a window,
\* for every limit, window and number of requests at once (rate-limiter.ts,
\* createRateLimiter of server.ts).
THEOREM BurstsAreBounded == ProxySpec => []TwiceTheLimit
<1>1. ProxyInv => TwiceTheLimit
  BY DEF ProxyInv, LimiterInv, TwiceTheLimit
<1> QED BY <1>1, ProxyInvariant, PTL

\* As long as Redis works, a counter without a time to live has a request that is about
\* to give it one (UpstashRateLimiter.check).
THEOREM CountersWillReset == ProxySpec => []CounterWillReset
<1>1. ProxyInv => CounterWillReset
  BY DEF ProxyInv, LimiterInv, CounterWillReset
<1> QED BY <1>1, ProxyInvariant, PTL

\* What is cached or answered as a body is a version of the feed and never the empty
\* body of a 304 (handleProxyRequest).
THEOREM ProxyBodiesAreWhole == ProxySpec => []BodiesAreWhole
<1>1. ProxyInv => BodiesAreWhole
  BY DEF ProxyInv
<1> QED BY <1>1, ProxyInvariant, PTL

-----------------------------------------------------------------------------
(* Pacing.                                                                 *)

\* What a batch promises: no more than Concurrency feeds, and no two of one host.
Spares(feeds) ==
    /\ Cardinality(feeds) <= Concurrency
    /\ \A f, g \in feeds : FeedHosts[f] = FeedHosts[g] => f = g \/ FeedHosts[f] = NoHost

\* The batches keep that promise, and none of the feeds is left out.
Packed(batches, feeds) ==
    /\ batches \in Seq(SUBSET FeedSet)
    /\ \A b \in DOMAIN batches : Spares(batches[b])
    /\ \A f \in feeds : \E b \in DOMAIN batches : f \in batches[b]

-----------------------------------------------------------------------------
(* Numbers, and the packing of the batches.                                *)

\* A set of numbers that is not empty has a least one.
LEMMA LeastNatural ==
    ASSUME NEW T \in SUBSET Nat, T # {}
    PROVE  \E m \in T : \A k \in T : m <= k
<1> DEFINE R == OpToRel(<,Nat)
<1>1. IsWellFoundedOn(R, Nat)
  BY NatLessThanWellFounded
<1>2. \A x, y \in Nat : y < x => <<y, x>> \in R
  BY DEF OpToRel
<1> HIDE DEF R
<1>3. \E x \in T : \A y \in T : ~ (<<y, x>> \in R)
  BY <1>1, WFMin
<1>4. PICK x \in T : \A y \in T : ~ (<<y, x>> \in R)
  BY <1>3
<1>5. ASSUME NEW y \in T PROVE x <= y
  <2>1. x \in Nat /\ y \in Nat
    OBVIOUS
  <2>2. ~(y < x)
    BY <1>2, <1>4, <2>1
  <2> QED BY <2>1, <2>2
<1> QED BY <1>5

\* Induction: a set of numbers with 0 and the successor of each of its members below a
\* limit holds every number up to the limit.
LEMMA InductionToLimit ==
    ASSUME NEW limit \in Nat, NEW S, 0 \in S, \A n \in 0..limit : n \in S /\ n < limit => n + 1 \in S
    PROVE  0..limit \subseteq S
<1>1. SUFFICES ASSUME (0..limit) \ S # {} PROVE FALSE
  OBVIOUS
<1>2. PICK m \in (0..limit) \ S : \A k \in (0..limit) \ S : m <= k
  <2> DEFINE rest == (0..limit) \ S
  <2>1. rest \in SUBSET Nat /\ rest # {}
    BY <1>1
  <2> HIDE DEF rest
  <2>2. \E m \in rest : \A k \in rest : m <= k
    BY <2>1, LeastNatural
  <2> QED BY <2>2 DEF rest
<1>3. m - 1 \in 0..limit /\ m - 1 < limit /\ m - 1 + 1 = m
  BY <1>2
<1>4. m - 1 \in S
  BY <1>2, <1>3
<1> QED BY <1>2, <1>3, <1>4

\* The first of some numbers is one of them.
LEMMA MinIsMember ==
    ASSUME NEW S \in SUBSET Nat, S # {}
    PROVE  Min(S) \in S
BY LeastNatural DEF Min

\* The table is finite, and a feed is a number.
LEMMA FeedsAreFinite ==
    /\ FeedSet = 1..Len(FeedHosts)
    /\ IsFiniteSet(FeedSet)
<1>1. FeedSet = 1..Len(FeedHosts)
  BY PacingAssumption DEF FeedSet
<1> QED BY <1>1, FS_Interval, PacingAssumption

\* Feeds that keep the promise keep it when some are taken away.
LEMMA FewerFeedsSpare ==
    ASSUME NEW feeds \in SUBSET FeedSet, Spares(feeds), NEW fewer \in SUBSET feeds
    PROVE  Spares(fewer)
<1>1. IsFiniteSet(feeds)
  BY FeedsAreFinite, FS_Subset
<1>2. Cardinality(fewer) \in Nat /\ Cardinality(feeds) \in Nat /\ Cardinality(fewer) <= Cardinality(feeds)
  BY <1>1, FS_Subset, FS_CardinalityType
<1> QED BY <1>2, PacingAssumption DEF Spares

\* tryPlaceInExistingBatch keeps the promise of every batch and loses no feed.
LEMMA PlacePacks ==
    ASSUME NEW batches, NEW feeds, Packed(batches, feeds), NEW f \in FeedSet
    PROVE  Packed(Place(batches, f), feeds \cup {f})
<1> DEFINE open == {b \in DOMAIN batches :
                    /\ Cardinality(batches[b]) < Concurrency
                    /\ FeedHosts[f] # NoHost
                    /\ \A g \in batches[b] : FeedHosts[g] # FeedHosts[f]}
<1>1. Place(batches, f) = IF open = {} THEN Append(batches, {f})
                          ELSE [batches EXCEPT ![Min(open)] = @ \cup {f}]
  BY DEF Place
<1>2. batches \in Seq(SUBSET FeedSet)
  BY DEF Packed
<1>3. DOMAIN batches = 1..Len(batches) /\ Len(batches) \in Nat
  BY <1>2
<1>4. CASE open = {}
  <2> DEFINE longer == Append(batches, {f})
  <2>1. /\ longer \in Seq(SUBSET FeedSet)
        /\ DOMAIN longer = 1..(Len(batches) + 1)
        /\ \A b \in 1..Len(batches) : longer[b] = batches[b]
        /\ longer[Len(batches) + 1] = {f}
    BY <1>2, <1>3
  <2>2. Spares({f})
    <3>1. Cardinality({f}) = 1
      BY FS_Singleton
    <3> QED BY <3>1, PacingAssumption DEF Spares
  <2> HIDE DEF longer
  <2>3. \A b \in DOMAIN longer : Spares(longer[b])
    <3>1. \A b \in 1..(Len(batches) + 1) : b \in 1..Len(batches) \/ b = Len(batches) + 1
      BY <1>3
    <3>2. \A b \in 1..Len(batches) : Spares(batches[b])
      BY <1>3 DEF Packed
    <3> QED BY <2>1, <2>2, <3>1, <3>2
  <2>4. ASSUME NEW g \in feeds \cup {f} PROVE \E b \in DOMAIN longer : g \in longer[b]
    <3>1. CASE g = f
      BY <1>3, <2>1, <3>1
    <3>2. CASE g \in feeds
      BY <1>3, <2>1, <3>2 DEF Packed
    <3> QED BY <3>1, <3>2
  <2>5. Packed(longer, feeds \cup {f})
    BY <2>1, <2>3, <2>4 DEF Packed
  <2> QED BY <1>1, <1>4, <2>5 DEF longer
<1>5. CASE open # {}
  <2> DEFINE first == Min(open)
             fuller == [batches EXCEPT ![first] = @ \cup {f}]
  <2>1. first \in open
    BY <1>3, <1>5, MinIsMember
  <2>2. /\ first \in DOMAIN batches
        /\ Cardinality(batches[first]) < Concurrency
        /\ FeedHosts[f] # NoHost
        /\ \A g \in batches[first] : FeedHosts[g] # FeedHosts[f]
    BY <2>1
  <2> HIDE DEF first, open
  <2>3. batches[first] \in SUBSET FeedSet /\ IsFiniteSet(batches[first])
    BY <1>2, <2>2, FeedsAreFinite, FS_Subset
  <2>4. /\ Cardinality(batches[first]) \in Nat
        /\ Cardinality(batches[first] \cup {f}) \in {Cardinality(batches[first]), Cardinality(batches[first]) + 1}
    BY <2>3, FS_AddElement, FS_CardinalityType
  <2>5. Cardinality(batches[first] \cup {f}) <= Concurrency
    BY <2>2, <2>4, PacingAssumption
  <2>6. Spares(batches[first])
    BY <2>2 DEF Packed
  <2>7. Spares(batches[first] \cup {f})
    BY <2>2, <2>5, <2>6 DEF Spares
  <2>8. /\ fuller \in Seq(SUBSET FeedSet)
        /\ DOMAIN fuller = DOMAIN batches
        /\ \A b \in DOMAIN batches : fuller[b] = IF b = first THEN batches[first] \cup {f} ELSE batches[b]
    BY <1>2, <2>2, <2>3
  <2> HIDE DEF fuller
  <2>9. \A b \in DOMAIN fuller : Spares(fuller[b])
    BY <2>7, <2>8 DEF Packed
  <2>10. ASSUME NEW g \in feeds \cup {f} PROVE \E b \in DOMAIN fuller : g \in fuller[b]
    <3>1. CASE g = f
      BY <2>2, <2>8, <3>1
    <3>2. CASE g \in feeds
      BY <2>8, <3>2 DEF Packed
    <3> QED BY <3>1, <3>2
  <2>11. Packed(fuller, feeds \cup {f})
    BY <2>8, <2>9, <2>10 DEF Packed
  <2> QED BY <1>1, <1>5, <2>11 DEF first, fuller
<1> QED BY <1>4, <1>5

\* groupByHostForRefresh: every feed is in a batch, and every batch keeps its promise.
LEMMA BatchesPack ==
    ASSUME NEW feeds \in SUBSET FeedSet
    PROVE  Packed(Batches(feeds), feeds)
<1> DEFINE L == Len(FeedHosts)
           Step(g, n) == IF n = 0 THEN <<>>
                         ELSE IF n \in feeds THEN Place(g[n - 1], n) ELSE g[n - 1]
           Upto(g, k) == DOMAIN g = 0..k /\ \A n \in 0..k : g[n] = Step(g, n)
           Built == {k \in 0..L : \E g : Upto(g, k)}
<1>1. L \in Nat \ {0} /\ FeedSet = 1..L
  BY FeedsAreFinite, PacingAssumption
<1> HIDE DEF L
<1>2. 0 \in Built
  <2> DEFINE g == [n \in 0..0 |-> <<>>]
  <2>1. Upto(g, 0)
    OBVIOUS
  <2>2. 0 \in 0..L
    BY <1>1
  <2> HIDE DEF g, Upto
  <2> QED BY <2>1, <2>2
<1>3. ASSUME NEW k \in 0..L, k \in Built, k < L PROVE k + 1 \in Built
  <2>1. PICK g : Upto(g, k)
    BY <1>3
  <2> DEFINE h == [n \in 0..(k + 1) |->
                     IF n <= k THEN g[n]
                     ELSE IF n \in feeds THEN Place(g[k], n) ELSE g[k]]
  <2>2. \A n \in 0..k : h[n] = g[n]
    BY <1>1
  <2>3. h[k + 1] = Step(h, k + 1)
    BY <1>1, <2>2
  <2>4. ASSUME NEW n \in 0..k PROVE h[n] = Step(h, n)
    <3>1. CASE n = 0
      BY <2>1, <2>2, <3>1
    <3>2. CASE n > 0
      <4>1. n - 1 \in 0..k
        BY <1>1, <3>2
      <4>2. h[n - 1] = g[n - 1] /\ h[n] = g[n]
        BY <2>2, <4>1
      <4> HIDE DEF h
      <4> QED BY <2>1, <4>2, <3>2
    <3> QED BY <1>1, <3>1, <3>2
  <2>5. DOMAIN h = 0..(k + 1) /\ \A n \in 0..(k + 1) : n \in 0..k \/ n = k + 1
    BY <1>1
  <2>6. \A n \in 0..(k + 1) : h[n] = Step(h, n)
    BY <2>3, <2>4, <2>5
  <2> HIDE DEF h
  <2>7. Upto(h, k + 1)
    BY <2>5, <2>6
  <2>8. k + 1 \in 0..L
    BY <1>1, <1>3
  <2> QED BY <2>7, <2>8
<1>4. L \in Built
  <2>1. 0..L \subseteq Built
    <3> HIDE DEF Built
    <3> QED BY <1>1, <1>2, <1>3, InductionToLimit
  <2> QED BY <1>1, <2>1
<1>5. PICK g : Upto(g, L)
  BY <1>4
<1> DEFINE packing == CHOOSE p : p = [n \in 0..L |-> Step(p, n)]
<1>6. packing = [n \in 0..L |-> Step(packing, n)]
  <2> DEFINE p == [n \in 0..L |-> g[n]]
  <2>1. ASSUME NEW n \in 0..L PROVE g[n] = Step(p, n)
    <3>1. g[n] = Step(g, n)
      BY <1>5
    <3>2. n # 0 => n - 1 \in 0..L
      BY <1>1
    <3>3. n # 0 => p[n - 1] = g[n - 1]
      BY <3>2
    <3> HIDE DEF p
    <3> QED BY <3>1, <3>3
  <2>2. p = [n \in 0..L |-> Step(p, n)]
    BY <2>1
  <2> HIDE DEF p
  <2> QED BY <2>2
<1>7. Batches(feeds) = packing[L]
  BY DEF Batches, L
<1> DEFINE Good == {k \in 0..L : Packed(packing[k], feeds \cap 1..k)}
<1> HIDE DEF packing
<1>8. \A n \in 0..L : packing[n] = Step(packing, n)
  BY <1>6
<1>9. 0 \in Good
  <2>1. packing[0] = <<>> /\ feeds \cap 1..0 = {}
    BY <1>1, <1>8
  <2>2. Packed(<<>>, {})
    BY DEF Packed
  <2> QED BY <1>1, <2>1, <2>2
<1>10. ASSUME NEW k \in 0..L, k \in Good, k < L PROVE k + 1 \in Good
  <2>1. k + 1 \in 0..L /\ k + 1 # 0 /\ k + 1 - 1 = k
    BY <1>1, <1>10
  <2>2. Packed(packing[k], feeds \cap 1..k)
    BY <1>10
  <2>3. CASE k + 1 \in feeds
    <3>1. packing[k + 1] = Place(packing[k], k + 1)
      BY <1>8, <2>1, <2>3
    <3>2. feeds \cap 1..(k + 1) = (feeds \cap 1..k) \cup {k + 1}
      BY <1>1, <2>3
    <3>3. Packed(Place(packing[k], k + 1), (feeds \cap 1..k) \cup {k + 1})
      BY <2>2, <2>3, PlacePacks
    <3> QED BY <2>1, <3>1, <3>2, <3>3
  <2>4. CASE k + 1 \notin feeds
    <3>1. packing[k + 1] = packing[k]
      BY <1>8, <2>1, <2>4
    <3>2. feeds \cap 1..(k + 1) = feeds \cap 1..k
      BY <1>1, <2>4
    <3> QED BY <2>1, <2>2, <3>1, <3>2
  <2> QED BY <2>3, <2>4
<1>11. L \in Good
  <2>1. 0..L \subseteq Good
    <3> HIDE DEF Good
    <3> QED BY <1>1, <1>9, <1>10, InductionToLimit
  <2>2. L \in 0..L
    BY <1>1
  <2> HIDE DEF Good
  <2> QED BY <2>1, <2>2
<1>12. feeds \cap 1..L = feeds
  BY <1>1
<1> QED BY <1>7, <1>11, <1>12

-----------------------------------------------------------------------------
(* The invariant.                                                          *)

\* What the guard of the refreshes and the reading of the table leave behind.
PassShape ==
    /\ pass.op = "none" => pass = NoPass
    /\ pass.left # <<>> => pass.op \in {"auto", "all"} /\ pass.held \in [FeedSet -> FeedRecord]
    /\ pass.read = 0 => pass.left = <<>>
    /\ pass.read > 0 => pass.op \in {"auto", "all"} /\ pass.held \in [FeedSet -> FeedRecord]
    /\ pass.op # "view" /\ pass.read = 0 => Asking("pass") = {}

\* The batches that wait keep the promise, like the one under way.
PassSpares ==
    pass.op \in {"auto", "all"} =>
        /\ Spares(Asking("pass"))
        /\ \A b \in DOMAIN pass.left : Spares(pass.left[b])

\* Only feeds fetched a short while ago are in no batch, and only in the background.
Rested(f) ==
    /\ pass.op = "auto"
    /\ pass.held[f].fetched > 0
    /\ pass.read - pass.held[f].fetched < 4 * Interval

\* No feed falls out between the batches that wait and those that were sent.
PassCovers ==
    pass.read > 0 =>
        \A f \in FeedSet :
            f \in attempted \/ Rested(f) \/ \E b \in DOMAIN pass.left : f \in pass.left[b]

\* The pause of a host is never shorter than the longest wait it asked for.
WaitsAreKept == \A h \in Hosts : waits[h] <= pause[h]

PacingInv == PacingTypeOK /\ PassShape /\ PassSpares /\ PassCovers /\ WaitsAreKept

USE PacingAssumption

-----------------------------------------------------------------------------
(* What a step keeps when it leaves the batches, or the pauses, alone.     *)

\* A step that puts no request under way and leaves the pass alone keeps its batches.
LEMMA SettlingKeepsBatches ==
    ASSUME PacingTypeOK, PassShape, PassSpares, PassCovers,
           UNCHANGED <<pass, attempted>>, Asking("pass")' \subseteq Asking("pass")
    PROVE  PassShape' /\ PassSpares' /\ PassCovers'
<1>1. PassShape'
  BY DEF PassShape
<1>2. PassSpares'
  <2>1. ASSUME pass.op \in {"auto", "all"} PROVE Spares(Asking("pass")')
    <3>1. Spares(Asking("pass")) /\ Asking("pass") \in SUBSET FeedSet
      BY <2>1 DEF PassSpares, Asking
    <3> QED BY <3>1, FewerFeedsSpare
  <2> QED BY <2>1 DEF PassSpares, Spares
<1>3. PassCovers'
  BY DEF PassCovers, Rested
<1> QED BY <1>1, <1>2, <1>3

\* When nothing is asked or answered, the same requests are under way.
LEMMA SameAsking ==
    ASSUME asked' = asked
    PROVE  Asking("pass")' = Asking("pass")
BY DEF Asking

\* A request that was never sent does not look like one that was.
LEMMA AskTypes ==
    ASSUME PacingTypeOK, NEW g \in {"pass", "single"}, NEW feeds \in SUBSET FeedSet,
           NEW held \in [FeedSet -> FeedRecord], Ask(g, feeds, held)
    PROVE  /\ asked' \in [{"pass", "single"} -> [FeedSet -> [began : 0..tick, streak : 0..MaxStreak]]]
           /\ feedRecord' \in [FeedSet -> FeedRecord]
           /\ \A f \in FeedSet : asked'[g][f] # NotAsked => asked[g][f] # NotAsked \/ (f \in feeds /\ ~Paused(f))
           /\ \A o \in {"pass", "single"} : o # g => asked'[o] = asked[o]
<1>1. /\ tick \in Ticks \ {0}
      /\ feedRecord \in [FeedSet -> FeedRecord]
      /\ asked \in [{"pass", "single"} -> [FeedSet -> [began : 0..tick, streak : 0..MaxStreak]]]
  BY DEF PacingTypeOK
<1>2. tick \in 0..tick /\ tick \in Ticks /\ \A f \in FeedSet : held[f].streak \in 0..MaxStreak
  BY <1>1 DEF Ticks, FeedRecord
<1> DEFINE sent == [f \in FeedSet |-> IF f \in feeds /\ ~Paused(f)
                                      THEN [began |-> tick, streak |-> held[f].streak]
                                      ELSE asked[g][f]]
<1>3. asked' = [asked EXCEPT ![g] = sent]
  BY DEF Ask
<1>4. sent \in [FeedSet -> [began : 0..tick, streak : 0..MaxStreak]]
  BY <1>1, <1>2
<1>5. \A f \in FeedSet : sent[f] = asked[g][f] \/ (f \in feeds /\ ~Paused(f))
  OBVIOUS
<1> HIDE DEF sent
<1>6. /\ asked' \in [{"pass", "single"} -> [FeedSet -> [began : 0..tick, streak : 0..MaxStreak]]]
      /\ asked'[g] = sent
      /\ \A o \in {"pass", "single"} : o # g => asked'[o] = asked[o]
  BY <1>1, <1>3, <1>4
<1>7. feedRecord' \in [FeedSet -> FeedRecord]
  BY <1>1, <1>2 DEF Ask, FeedRecord
<1> QED BY <1>5, <1>6, <1>7

-----------------------------------------------------------------------------
(* The initial states and the steps.                                       *)

\* The page opens with nothing asked and no host paused.
LEMMA PacingInitInv == PacingInit => PacingInv
<1> SUFFICES ASSUME PacingInit PROVE PacingInv
  OBVIOUS
<1>1. /\ tick = 1 /\ pass = NoPass /\ passes = 0 /\ attempted = {}
      /\ pause = [h \in Hosts |-> 0] /\ waits = [h \in Hosts |-> 0]
      /\ asked = [g \in {"pass", "single"} |-> [f \in FeedSet |-> NotAsked]]
      /\ feedRecord \in [FeedSet -> {[fetched |-> 0, streak |-> 0], [fetched |-> 1, streak |-> 3]}]
  BY DEF PacingInit
<1>2. Asking("pass") = {}
  BY <1>1 DEF Asking
<1>3. PacingTypeOK
  <2>1. feedRecord \in [FeedSet -> FeedRecord]
    BY <1>1 DEF FeedRecord, Ticks
  <2>2. asked \in [{"pass", "single"} -> [FeedSet -> [began : 0..tick, streak : 0..MaxStreak]]]
    BY <1>1 DEF NotAsked
  <2>3. pass \in [op : {"none", "auto", "all", "view"}, held : {<<>>} \cup [FeedSet -> FeedRecord],
                  left : Seq(SUBSET FeedSet), read : 0..tick]
    BY <1>1 DEF NoPass
  <2> QED BY <1>1, <2>1, <2>2, <2>3 DEF PacingTypeOK, Ticks
<1>4. PassShape /\ PassSpares /\ PassCovers
  BY <1>1, <1>2 DEF PassShape, PassSpares, PassCovers, NoPass
<1>5. WaitsAreKept
  BY <1>1 DEF WaitsAreKept
<1> QED BY <1>3, <1>4, <1>5 DEF PacingInv

\* A refresh begins when none is under way.
LEMMA BeginKeepsInv ==
    ASSUME PacingInv, NEW op \in {"auto", "all"}, BeginPass(op),
           UNCHANGED <<tick, feedRecord, pause, asked, attempted, waits>>
    PROVE  PacingInv'
<1>1. /\ pass = NoPass /\ pass' = [NoPass EXCEPT !.op = op]
      /\ passes' \in 0..MaxPasses
  BY DEF BeginPass, PacingInv, PacingTypeOK
<1>2. pass'.op = op /\ pass'.left = <<>> /\ pass'.read = 0 /\ pass'.held = <<>>
  BY <1>1 DEF NoPass
<1>3. Asking("pass")' = {}
  BY <1>1, SameAsking DEF PacingInv, PassShape, NoPass
<1>4. PacingTypeOK'
  <2>1. PacingTypeOK
    BY DEF PacingInv
  <2>2. pass' \in [op : {"none", "auto", "all", "view"}, held : {<<>>} \cup [FeedSet -> FeedRecord],
                   left : Seq(SUBSET FeedSet), read : 0..tick]
    BY <1>1, <2>1 DEF NoPass, PacingTypeOK, Ticks
  <2> QED BY <1>1, <2>1, <2>2 DEF PacingTypeOK, FeedRecord, Ticks
<1>5. PassShape' /\ PassCovers'
  BY <1>2, <1>3 DEF PassShape, PassCovers
<1>6. PassSpares'
  <2>1. Spares({})
    BY FS_EmptySet DEF Spares
  <2>2. Spares(Asking("pass")')
    BY <1>3, <2>1
  <2> QED BY <1>2, <2>2 DEF PassSpares, Spares
<1>7. WaitsAreKept'
  BY DEF PacingInv, WaitsAreKept
<1> QED BY <1>4, <1>5, <1>6, <1>7 DEF PacingInv

\* The table is read and the batches are packed: a feed that is in none of them is not due.
LEMMA PassReadsKeepsInv ==
    ASSUME PacingInv, PassReads
    PROVE  PacingInv'
<1> DEFINE due == IF pass.op = "all" THEN FeedSet ELSE {f \in FeedSet : Due(feedRecord[f])}
<1>1. /\ PacingTypeOK /\ PassShape /\ PassSpares /\ WaitsAreKept
      /\ pass.op \in {"auto", "all"} /\ pass.read = 0
      /\ pass' = [pass EXCEPT !.held = feedRecord, !.left = Batches(due), !.read = tick]
      /\ UNCHANGED <<tick, feedRecord, pause, asked, passes, attempted, waits>>
  BY DEF PassReads, PacingInv
<1>2. due \in SUBSET FeedSet
  OBVIOUS
<1>3. ASSUME NEW f \in FeedSet, f \notin due
      PROVE  /\ pass.op = "auto"
             /\ feedRecord[f].fetched > 0
             /\ tick - feedRecord[f].fetched < 4 * Interval
  <2>1. ~Due(feedRecord[f]) /\ pass.op = "auto"
    BY <1>1, <1>3
  <2>2. /\ feedRecord[f].fetched \in Nat /\ tick \in Nat /\ Interval \in Nat
        /\ Multiplier(feedRecord[f].streak) \in {1, 2, 4}
    BY <1>1 DEF PacingTypeOK, FeedRecord, Ticks, Multiplier
  <2>3. feedRecord[f].fetched # 0 /\ ~(tick - feedRecord[f].fetched >= Interval * Multiplier(feedRecord[f].streak))
    BY <2>1 DEF Due
  <2> QED BY <2>1, <2>2, <2>3
<1>4. Packed(Batches(due), due)
  BY <1>2, BatchesPack
<1> DEFINE left == Batches(due)
<1> HIDE DEF due, left
<1>5. pass \in [op : {"none", "auto", "all", "view"}, held : {<<>>} \cup [FeedSet -> FeedRecord],
                left : Seq(SUBSET FeedSet), read : 0..tick]
  BY <1>1 DEF PacingTypeOK
<1>6. /\ pass'.op = pass.op /\ pass'.held = feedRecord /\ pass'.left = left /\ pass'.read = tick
      /\ left \in Seq(SUBSET FeedSet)
      /\ tick \in Ticks \ {0} /\ tick \in Nat /\ tick > 0 /\ tick \in 0..tick
      /\ feedRecord \in [FeedSet -> FeedRecord]
      /\ pass' = [pass EXCEPT !.held = feedRecord, !.left = left, !.read = tick]
  <2>1. left \in Seq(SUBSET FeedSet)
    BY <1>4 DEF left, Packed
  <2>2. tick \in Ticks \ {0} /\ tick \in Nat /\ tick > 0 /\ feedRecord \in [FeedSet -> FeedRecord]
    BY <1>1 DEF PacingTypeOK, Ticks
  <2>3. pass' = [pass EXCEPT !.held = feedRecord, !.left = left, !.read = tick]
    BY <1>1 DEF left
  <2>4. /\ pass'.op = pass.op /\ pass'.held = feedRecord /\ pass'.left = left /\ pass'.read = tick
    BY <1>5, <2>3
  <2> QED BY <2>1, <2>2, <2>3, <2>4
<1>7. PacingTypeOK'
  <2>1. pass' \in [op : {"none", "auto", "all", "view"}, held : {<<>>} \cup [FeedSet -> FeedRecord],
                   left : Seq(SUBSET FeedSet), read : 0..tick]
    BY <1>5, <1>6
  <2> QED BY <1>1, <2>1 DEF PacingTypeOK, Ticks
<1>8. Asking("pass")' = Asking("pass")
  BY <1>1, SameAsking
<1>9. PassShape'
  BY <1>1, <1>6, <1>8 DEF PassShape
<1>10. PassSpares'
  <2>1. Spares(Asking("pass")')
    BY <1>1, <1>8 DEF PassSpares
  <2>2. \A b \in DOMAIN pass'.left : Spares(pass'.left[b])
    BY <1>4, <1>6 DEF Packed, left
  <2> QED BY <2>1, <2>2 DEF PassSpares, Spares
<1>11. PassCovers'
  <2>1. \A f \in due : \E b \in DOMAIN pass'.left : f \in pass'.left[b]
    BY <1>4, <1>6 DEF Packed, left
  <2>2. \A f \in FeedSet \ due : Rested(f)'
    BY <1>3, <1>6 DEF Rested
  <2> QED BY <2>1, <2>2 DEF PassCovers
<1>12. WaitsAreKept'
  BY <1>1 DEF WaitsAreKept
<1> QED BY <1>7, <1>9, <1>10, <1>11, <1>12 DEF PacingInv

\* The next batch takes the place of one that has settled.
LEMMA NextBatchKeepsInv ==
    ASSUME PacingInv, NextBatch
    PROVE  PacingInv'
<1> DEFINE batch == Head(pass.left)
           rest == Tail(pass.left)
<1>1. /\ PacingTypeOK /\ PassShape /\ PassSpares /\ PassCovers /\ WaitsAreKept
      /\ pass.left # <<>> /\ Asking("pass") = {}
      /\ Ask("pass", batch, pass.held)
      /\ pass' = [pass EXCEPT !.left = rest]
      /\ attempted' = attempted \cup batch
      /\ UNCHANGED <<tick, pause, passes, waits>>
  BY DEF NextBatch, PacingInv
<1>2. pass \in [op : {"none", "auto", "all", "view"}, held : {<<>>} \cup [FeedSet -> FeedRecord],
                left : Seq(SUBSET FeedSet), read : 0..tick]
  BY <1>1 DEF PacingTypeOK
<1>3. /\ pass.left \in Seq(SUBSET FeedSet) /\ pass.left # <<>>
      /\ pass.op \in {"auto", "all"} /\ pass.held \in [FeedSet -> FeedRecord] /\ pass.read > 0
  BY <1>1, <1>2 DEF PassShape
<1>4. /\ DOMAIN pass.left = 1..Len(pass.left) /\ Len(pass.left) \in Nat \ {0}
      /\ batch = pass.left[1] /\ batch \in SUBSET FeedSet
      /\ rest \in Seq(SUBSET FeedSet)
      /\ DOMAIN rest = 1..(Len(pass.left) - 1)
      /\ \A b \in DOMAIN rest : rest[b] = pass.left[b + 1]
  BY <1>3
<1> HIDE DEF batch, rest
<1>5. /\ pass'.op = pass.op /\ pass'.held = pass.held /\ pass'.left = rest /\ pass'.read = pass.read
      /\ pass' \in [op : {"none", "auto", "all", "view"}, held : {<<>>} \cup [FeedSet -> FeedRecord],
                    left : Seq(SUBSET FeedSet), read : 0..tick]
  BY <1>1, <1>2, <1>4
<1>6. /\ asked' \in [{"pass", "single"} -> [FeedSet -> [began : 0..tick, streak : 0..MaxStreak]]]
      /\ feedRecord' \in [FeedSet -> FeedRecord]
      /\ \A f \in FeedSet : asked'["pass"][f] # NotAsked => asked["pass"][f] # NotAsked \/ f \in batch
  BY <1>1, <1>3, <1>4, AskTypes
<1>7. PacingTypeOK'
  BY <1>1, <1>4, <1>5, <1>6 DEF PacingTypeOK, FeedRecord, Ticks
<1>8. Asking("pass")' \in SUBSET batch
  BY <1>1, <1>6 DEF Asking
<1>9. PassShape'
  BY <1>3, <1>5 DEF PassShape, FeedRecord, Ticks
<1>10. PassSpares'
  <2>1. \A b \in DOMAIN pass.left : Spares(pass.left[b])
    BY <1>1, <1>3 DEF PassSpares
  <2>2. Spares(batch)
    BY <1>4, <2>1
  <2>3. Spares(Asking("pass")')
    BY <1>4, <1>8, <2>2, FewerFeedsSpare
  <2>4. ASSUME NEW b \in DOMAIN rest PROVE Spares(rest[b])
    <3>1. b + 1 \in DOMAIN pass.left
      BY <1>4
    <3> QED BY <1>4, <2>1, <3>1
  <2> QED BY <1>5, <2>3, <2>4 DEF PassSpares, Spares
<1>11. PassCovers'
  <2>1. SUFFICES ASSUME NEW f \in FeedSet
        PROVE  f \in attempted' \/ Rested(f)' \/ \E b \in DOMAIN pass'.left : f \in pass'.left[b]
    BY DEF PassCovers
  <2>2. f \in attempted \/ Rested(f) \/ \E b \in DOMAIN pass.left : f \in pass.left[b]
    BY <1>1, <1>3 DEF PassCovers
  <2>3. CASE f \in attempted \/ Rested(f)
    BY <1>1, <1>5, <2>3 DEF Rested
  <2>4. ASSUME NEW b \in DOMAIN pass.left, f \in pass.left[b] PROVE f \in batch \/ \E c \in DOMAIN rest : f \in rest[c]
    <3>1. CASE b = 1
      BY <1>4, <2>4, <3>1
    <3>2. CASE b # 1
      <4>1. b - 1 \in DOMAIN rest /\ rest[b - 1] = pass.left[b]
        BY <1>4, <3>2
      <4> QED BY <2>4, <4>1
    <3> QED BY <3>1, <3>2
  <2> QED BY <1>1, <1>5, <2>2, <2>3, <2>4
<1>12. WaitsAreKept'
  BY <1>1 DEF WaitsAreKept
<1> QED BY <1>7, <1>9, <1>10, <1>11, <1>12 DEF PacingInv

\* The guard is released when nothing is under way.
LEMMA PassEndsKeepsInv ==
    ASSUME PacingInv, PassEnds
    PROVE  PacingInv'
<1>1. /\ PacingTypeOK /\ WaitsAreKept
      /\ Asking("pass") = {} /\ pass' = NoPass /\ attempted' = {}
      /\ UNCHANGED <<tick, feedRecord, pause, asked, passes, waits>>
  BY DEF PassEnds, PassSettled, PacingInv
<1>2. /\ pass'.op = "none" /\ pass'.left = <<>> /\ pass'.read = 0 /\ pass'.held = <<>>
      /\ Asking("pass")' = {}
  BY <1>1, SameAsking DEF NoPass
<1>3. PacingTypeOK'
  <2>1. pass' \in [op : {"none", "auto", "all", "view"}, held : {<<>>} \cup [FeedSet -> FeedRecord],
                   left : Seq(SUBSET FeedSet), read : 0..tick]
    BY <1>1 DEF NoPass, PacingTypeOK, Ticks
  <2> QED BY <1>1, <2>1 DEF PacingTypeOK, FeedRecord, Ticks
<1>4. PassShape' /\ PassSpares' /\ PassCovers'
  BY <1>1, <1>2 DEF PassShape, PassSpares, PassCovers
<1>5. WaitsAreKept'
  BY <1>1 DEF WaitsAreKept
<1> QED BY <1>3, <1>4, <1>5 DEF PacingInv

\* A folder is refreshed without batches.
LEMMA RefreshFolderKeepsInv ==
    ASSUME PacingInv, RefreshFolder
    PROVE  PacingInv'
<1>1. /\ PacingTypeOK /\ WaitsAreKept
      /\ pass = NoPass /\ pass' = [NoPass EXCEPT !.op = "view"]
      /\ passes' \in 0..MaxPasses
      /\ Ask("pass", Folder, feedRecord)
      /\ UNCHANGED <<tick, pause, attempted, waits>>
  BY SMTT(30) DEF RefreshFolder, BeginPass, PacingInv, PacingTypeOK
<1>2. pass'.op = "view" /\ pass'.left = <<>> /\ pass'.read = 0 /\ pass'.held = <<>>
  BY <1>1 DEF NoPass
<1>3. /\ asked' \in [{"pass", "single"} -> [FeedSet -> [began : 0..tick, streak : 0..MaxStreak]]]
      /\ feedRecord' \in [FeedSet -> FeedRecord]
  <2>1. feedRecord \in [FeedSet -> FeedRecord] /\ Folder \in SUBSET FeedSet
    BY <1>1 DEF PacingTypeOK, FeedSet
  <2> QED BY <1>1, <2>1, AskTypes
<1>4. PacingTypeOK'
  <2>1. pass' \in [op : {"none", "auto", "all", "view"}, held : {<<>>} \cup [FeedSet -> FeedRecord],
                   left : Seq(SUBSET FeedSet), read : 0..tick]
    BY <1>1 DEF NoPass, PacingTypeOK, Ticks
  <2> QED BY <1>1, <1>3, <2>1 DEF PacingTypeOK, FeedRecord, Ticks
<1>5. PassShape' /\ PassSpares' /\ PassCovers'
  BY <1>2 DEF PassShape, PassSpares, PassCovers
<1>6. WaitsAreKept'
  BY <1>1 DEF WaitsAreKept
<1> QED BY <1>4, <1>5, <1>6 DEF PacingInv

\* A single refresh has a guard of its own.
LEMMA RefreshSingleKeepsInv ==
    ASSUME PacingInv, NEW f \in FeedSet, RefreshSingle(f)
    PROVE  PacingInv'
<1>1. /\ PacingTypeOK /\ PassShape /\ PassSpares /\ PassCovers /\ WaitsAreKept
      /\ passes' \in 0..MaxPasses
      /\ Ask("single", {f}, feedRecord)
      /\ UNCHANGED <<tick, pause, pass, attempted, waits>>
  <2>1. PacingTypeOK /\ PassShape /\ PassSpares /\ PassCovers /\ WaitsAreKept
    BY DEF PacingInv
  <2>2. passes < MaxPasses /\ passes' = passes + 1 /\ passes \in 0..MaxPasses
    BY <2>1 DEF RefreshSingle, PacingTypeOK
  <2>3. Ask("single", {f}, feedRecord) /\ UNCHANGED <<tick, pause, pass, attempted, waits>>
    BY DEF RefreshSingle
  <2> QED BY <2>1, <2>2, <2>3
<1>2. /\ asked' \in [{"pass", "single"} -> [FeedSet -> [began : 0..tick, streak : 0..MaxStreak]]]
      /\ feedRecord' \in [FeedSet -> FeedRecord]
      /\ asked'["pass"] = asked["pass"]
  <2>1. feedRecord \in [FeedSet -> FeedRecord] /\ {f} \in SUBSET FeedSet
    BY <1>1 DEF PacingTypeOK
  <2> QED BY <1>1, <2>1, AskTypes
<1>3. PacingTypeOK'
  BY <1>1, <1>2 DEF PacingTypeOK, FeedRecord, Ticks
<1>4. Asking("pass")' \subseteq Asking("pass")
  BY <1>2 DEF Asking
<1>5. PassShape' /\ PassSpares' /\ PassCovers'
  BY <1>1, <1>4, SettlingKeepsBatches
<1>6. WaitsAreKept'
  BY <1>1 DEF WaitsAreKept
<1> QED BY <1>3, <1>5, <1>6 DEF PacingInv

\* An answer ends a request and stamps its record.
LEMMA StampsKeeps ==
    ASSUME PacingTypeOK, PassShape, PassSpares, PassCovers,
           NEW g \in {"pass", "single"}, NEW f \in FeedSet, NEW streak \in 0..MaxStreak,
           Stamps(g, f, streak)
    PROVE  /\ asked' \in [{"pass", "single"} -> [FeedSet -> [began : 0..tick, streak : 0..MaxStreak]]]
           /\ feedRecord' \in [FeedSet -> FeedRecord]
           /\ PassShape' /\ PassSpares' /\ PassCovers'
<1>1. /\ feedRecord' = [feedRecord EXCEPT ![f] = [fetched |-> asked[g][f].began, streak |-> streak]]
      /\ asked' = [asked EXCEPT ![g][f] = NotAsked]
      /\ UNCHANGED <<tick, pass, passes, attempted>>
  BY DEF Stamps
<1>2. /\ asked \in [{"pass", "single"} -> [FeedSet -> [began : 0..tick, streak : 0..MaxStreak]]]
      /\ feedRecord \in [FeedSet -> FeedRecord]
      /\ tick \in Ticks \ {0}
  BY DEF PacingTypeOK
<1>3. asked[g][f].began \in Ticks
  <2>1. asked[g][f].began \in 0..tick
    BY <1>2
  <2> QED BY <1>2, <2>1 DEF Ticks
<1>4. feedRecord' \in [FeedSet -> FeedRecord]
  BY <1>1, <1>2, <1>3 DEF FeedRecord
<1>5. NotAsked \in [began : 0..tick, streak : 0..MaxStreak]
  BY <1>2 DEF NotAsked, Ticks
<1>6. asked' \in [{"pass", "single"} -> [FeedSet -> [began : 0..tick, streak : 0..MaxStreak]]]
  BY <1>1, <1>2, <1>5
<1>7. Asking("pass")' \subseteq Asking("pass")
  BY <1>1, <1>2 DEF Asking
<1>8. PassShape' /\ PassSpares' /\ PassCovers'
  BY <1>1, <1>7, SettlingKeepsBatches
<1> QED BY <1>4, <1>6, <1>8

\* 304 and every other answer without a Retry-After leave the pauses alone.
LEMMA PlainAnswerKeepsInv ==
    ASSUME PacingInv, NEW g \in {"pass", "single"}, NEW f \in FeedSet,
           NotModified(g, f) \/ Answered(g, f)
    PROVE  PacingInv'
<1>1. PacingTypeOK /\ PassShape /\ PassSpares /\ PassCovers /\ WaitsAreKept
  BY DEF PacingInv
<1>2. asked[g][f].streak \in 0..MaxStreak
  BY <1>1 DEF PacingTypeOK
<1>3. UNCHANGED <<pause, waits>> /\ \E streak \in 0..MaxStreak : Stamps(g, f, streak)
  BY <1>2 DEF NotModified, Answered
<1>4. PICK streak \in 0..MaxStreak : Stamps(g, f, streak)
  BY <1>3
<1>5. UNCHANGED <<tick, pass, passes, attempted>>
  BY <1>4 DEF Stamps
<1>6. /\ asked' \in [{"pass", "single"} -> [FeedSet -> [began : 0..tick, streak : 0..MaxStreak]]]
      /\ feedRecord' \in [FeedSet -> FeedRecord]
      /\ PassShape' /\ PassSpares' /\ PassCovers'
  BY <1>1, <1>4, StampsKeeps
<1>7. PacingTypeOK'
  BY <1>1, <1>3, <1>5, <1>6 DEF PacingTypeOK, FeedRecord, Ticks
<1>8. WaitsAreKept'
  BY <1>1, <1>3 DEF WaitsAreKept
<1> QED BY <1>6, <1>7, <1>8 DEF PacingInv

\* The wait of a host is remembered at least as long as it asked.
LEMMA AskedToWaitKeepsInv ==
    ASSUME PacingInv, NEW g \in {"pass", "single"}, NEW f \in FeedSet, NEW ask \in Asks,
           AskedToWait(g, f, ask)
    PROVE  PacingInv'
<1> DEFINE h == FeedHosts[f]
           until == Until(asked[g][f].began, ask)
<1>1. PacingTypeOK /\ PassShape /\ PassSpares /\ PassCovers /\ WaitsAreKept
  BY DEF PacingInv
<1>2. Stamps(g, f, 0) /\ 0 \in 0..MaxStreak
  BY DEF AskedToWait
<1>3. UNCHANGED <<tick, pass, passes, attempted>>
  BY <1>2 DEF Stamps
<1>4. /\ asked' \in [{"pass", "single"} -> [FeedSet -> [began : 0..tick, streak : 0..MaxStreak]]]
      /\ feedRecord' \in [FeedSet -> FeedRecord]
      /\ PassShape' /\ PassSpares' /\ PassCovers'
  BY <1>1, <1>2, StampsKeeps
<1>5. /\ pause \in [Hosts -> 0..(tick + MaxPause)] /\ waits \in [Hosts -> 0..(tick + MaxPause)]
      /\ tick \in Nat /\ asked[g][f].began \in 0..tick
  BY <1>1 DEF PacingTypeOK, Ticks
<1>6. until \in 0..(tick + MaxPause)
  <2>1. asked[g][f].began \in Nat /\ asked[g][f].began <= tick /\ tick \in Nat
    BY <1>5
  <2>2. ask \in Nat /\ MaxPause \in Nat
    BY PacingAssumption
  <2> HIDE DEF h
  <2> QED BY <2>1, <2>2 DEF Until
<1>7. h = NoHost => UNCHANGED <<pause, waits>>
  BY DEF AskedToWait
<1>8. h # NoHost => /\ h \in Hosts
                    /\ pause' = [pause EXCEPT ![h] = IF until > @ THEN until ELSE @]
                    /\ waits' = [waits EXCEPT ![h] = IF until > @ THEN until ELSE @]
  BY DEF AskedToWait, RegisterPause, Hosts
<1> HIDE DEF h, until
<1>9. /\ pause' \in [Hosts -> 0..(tick + MaxPause)]
      /\ waits' \in [Hosts -> 0..(tick + MaxPause)]
  BY <1>5, <1>6, <1>7, <1>8
<1>10. PacingTypeOK'
  BY <1>1, <1>3, <1>4, <1>9 DEF PacingTypeOK, FeedRecord, Ticks
<1>11. WaitsAreKept'
  <2>1. SUFFICES ASSUME NEW k \in Hosts PROVE waits'[k] <= pause'[k]
    BY DEF WaitsAreKept
  <2>2. waits[k] <= pause[k] /\ waits[k] \in Nat /\ pause[k] \in Nat /\ until \in Nat
    BY <1>1, <1>5, <1>6 DEF WaitsAreKept
  <2> QED BY <1>5, <1>7, <1>8, <2>2
<1> QED BY <1>4, <1>10, <1>11 DEF PacingInv

\* The clock changes nothing of what was read, sent or remembered.
LEMMA TimePassesKeepsInv ==
    ASSUME PacingInv, TimePasses
    PROVE  PacingInv'
<1>1. /\ PacingTypeOK /\ PassShape /\ PassSpares /\ PassCovers /\ WaitsAreKept
      /\ tick < MaxTicks /\ tick' = tick + 1
      /\ UNCHANGED <<feedRecord, pause, pass, asked, passes, attempted, waits>>
  BY DEF TimePasses, PacingInv
<1>2. tick \in Nat /\ tick' \in Ticks \ {0} /\ 0..tick \subseteq 0..tick' /\ 0..(tick + MaxPause) \subseteq 0..(tick' + MaxPause)
  BY <1>1 DEF PacingTypeOK, Ticks
<1>3. /\ pause' \in [Hosts -> 0..(tick' + MaxPause)] /\ waits' \in [Hosts -> 0..(tick' + MaxPause)]
  BY <1>1, <1>2 DEF PacingTypeOK
<1>4. asked' \in [{"pass", "single"} -> [FeedSet -> [began : 0..tick', streak : 0..MaxStreak]]]
  <2>1. [began : 0..tick, streak : 0..MaxStreak] \subseteq [began : 0..tick', streak : 0..MaxStreak]
    BY <1>2
  <2>2. asked \in [{"pass", "single"} -> [FeedSet -> [began : 0..tick, streak : 0..MaxStreak]]]
    BY <1>1 DEF PacingTypeOK
  <2> QED BY <1>1, <2>1, <2>2
<1>5. pass' \in [op : {"none", "auto", "all", "view"}, held : {<<>>} \cup [FeedSet -> FeedRecord],
                 left : Seq(SUBSET FeedSet), read : 0..tick']
  <2>1. pass \in [op : {"none", "auto", "all", "view"}, held : {<<>>} \cup [FeedSet -> FeedRecord],
                  left : Seq(SUBSET FeedSet), read : 0..tick]
    BY <1>1 DEF PacingTypeOK
  <2> QED BY <1>1, <1>2, <2>1
<1>6. PacingTypeOK'
  BY <1>1, <1>2, <1>3, <1>4, <1>5 DEF PacingTypeOK, FeedRecord, Ticks
<1>7. Asking("pass")' \subseteq Asking("pass")
  BY <1>1 DEF Asking
<1>8. PassShape' /\ PassSpares' /\ PassCovers'
  BY <1>1, <1>7, SettlingKeepsBatches
<1>9. WaitsAreKept'
  BY <1>1 DEF WaitsAreKept
<1> QED BY <1>6, <1>8, <1>9 DEF PacingInv

-----------------------------------------------------------------------------
(* The theorems.                                                           *)

\* Every step of the refreshes keeps the invariant.
LEMMA PacingNextInv == PacingInv /\ [PacingNext]_pacingVars => PacingInv'
<1> SUFFICES ASSUME PacingInv, [PacingNext]_pacingVars PROVE PacingInv'
  OBVIOUS
<1>1. CASE AutoRefresh \/ RefreshAll
  BY <1>1, BeginKeepsInv DEF AutoRefresh, RefreshAll
<1>2. CASE PassReads
  BY <1>2, PassReadsKeepsInv
<1>3. CASE NextBatch
  BY <1>3, NextBatchKeepsInv
<1>4. CASE PassEnds
  BY <1>4, PassEndsKeepsInv
<1>5. CASE RefreshFolder
  BY <1>5, RefreshFolderKeepsInv
<1>6. ASSUME NEW f \in FeedSet, RefreshSingle(f) PROVE PacingInv'
  BY <1>6, RefreshSingleKeepsInv
<1>7. ASSUME NEW g \in {"pass", "single"}, NEW f \in FeedSet, NotModified(g, f) \/ Answered(g, f)
      PROVE PacingInv'
  BY <1>7, PlainAnswerKeepsInv
<1>8. ASSUME NEW g \in {"pass", "single"}, NEW f \in FeedSet, NEW ask \in Asks, AskedToWait(g, f, ask)
      PROVE PacingInv'
  BY <1>8, AskedToWaitKeepsInv
<1>9. CASE TimePasses
  BY <1>9, TimePassesKeepsInv
<1>10. CASE UNCHANGED pacingVars
  <2>1. /\ PacingTypeOK /\ PassShape /\ PassSpares /\ PassCovers /\ WaitsAreKept
        /\ UNCHANGED <<tick, feedRecord, pause, pass, asked, passes, attempted, waits>>
    BY <1>10 DEF PacingInv, pacingVars
  <2>2. PacingTypeOK'
    BY <2>1 DEF PacingTypeOK, FeedRecord, Ticks
  <2>3. PassShape' /\ PassSpares' /\ PassCovers'
    BY <2>1, SameAsking, SettlingKeepsBatches
  <2>4. WaitsAreKept'
    BY <2>1 DEF WaitsAreKept
  <2> QED BY <2>2, <2>3, <2>4 DEF PacingInv
<1> QED BY <1>1, <1>2, <1>3, <1>4, <1>5, <1>6, <1>7, <1>8, <1>9, <1>10 DEF PacingNext

\* The inductive invariant of the pacing of requests: batches that keep their promise,
\* feeds that are in a batch until they are sent, pauses as long as the waits.
THEOREM PacingInvariant == PacingSpec => []PacingInv
BY PacingInitInv, PacingNextInv, PTL DEF PacingSpec

\* A pass over all feeds has at most one request under way for a host, and no more than
\* Concurrency, however its answers overlap with other refreshes (groupByHostForRefresh).
THEOREM PassesSpareHosts == PacingSpec => []BatchesSpareHosts
<1>1. PacingInv => BatchesSpareHosts
  BY DEF PacingInv, PassSpares, Spares, BatchesSpareHosts
<1> QED BY <1>1, PacingInvariant, PTL

\* A pass comes to every feed that is due, whatever answers and pauses come meanwhile
\* (refreshAllFeeds, isFeedDueForRefresh).
THEOREM PassesReachFeeds == PacingSpec => []PassReachesFeeds
<1>1. PacingInv => PassReachesFeeds
  <2> SUFFICES ASSUME PacingInv, pass.op # "view", PassSettled, NEW f \in FeedSet \ attempted
               PROVE  Rested(f)
    BY DEF PassReachesFeeds, Rested
  <2>1. pass.read > 0 /\ pass.left = <<>>
    BY DEF PassSettled
  <2> QED BY <2>1 DEF PacingInv, PassCovers
<1> QED BY <1>1, PacingInvariant, PTL

\* No refresh asks a host before all the waits it asked for are over
\* (registerHostPause, hostPausedUntil).
THEOREM HostsAreLeftAlone == PacingSpec => PausesAreHonoured
<1>1. ASSUME PacingInv, PacingNext
      PROVE  \A g \in {"pass", "single"}, f \in FeedSet :
                asked[g][f] = NotAsked /\ asked'[g][f] # NotAsked /\ FeedHosts[f] # NoHost
                   => waits[FeedHosts[f]] <= tick
  <2> SUFFICES ASSUME NEW g \in {"pass", "single"}, NEW f \in FeedSet,
                      asked[g][f] = NotAsked, asked'[g][f] # NotAsked, FeedHosts[f] # NoHost
               PROVE  waits[FeedHosts[f]] <= tick
    OBVIOUS
  <2>1. PacingTypeOK /\ PassShape /\ WaitsAreKept
    BY <1>1 DEF PacingInv
  <2>2. FeedHosts[f] \in Hosts
    BY DEF Hosts
  <2>3. asked \in [{"pass", "single"} -> [FeedSet -> [began : 0..tick, streak : 0..MaxStreak]]]
    BY <2>1 DEF PacingTypeOK
  <2>4. ASSUME NEW o \in {"pass", "single"}, NEW feeds \in SUBSET FeedSet,
               NEW held \in [FeedSet -> FeedRecord], Ask(o, feeds, held)
        PROVE  ~Paused(f)
    <3>1. asked'[o][f] # NotAsked => asked[o][f] # NotAsked \/ ~Paused(f)
      BY <2>1, <2>4, AskTypes
    <3>2. o # g => asked'[g] = asked[g]
      BY <2>1, <2>4, AskTypes
    <3> QED BY <3>1, <3>2
  <2>5. ASSUME NEW o \in {"pass", "single"}, NEW e \in FeedSet, NEW streak, Stamps(o, e, streak)
        PROVE  FALSE
    <3>1. asked' = [asked EXCEPT ![o][e] = NotAsked]
      BY <2>5 DEF Stamps
    <3>2. asked'[g][f] = NotAsked
      BY <2>3, <3>1
    <3> QED BY <3>2
  <2>6. ~Paused(f)
    <3>1. feedRecord \in [FeedSet -> FeedRecord] /\ Folder \in SUBSET FeedSet
      BY <2>1 DEF PacingTypeOK, FeedSet
    <3>2. CASE UNCHANGED asked
      BY <3>2
    <3>3. CASE NextBatch
      <4>1. pass.left # <<>> /\ Ask("pass", Head(pass.left), pass.held) /\ pass.left \in Seq(SUBSET FeedSet)
        BY <2>1, <3>3 DEF NextBatch, PacingTypeOK
      <4>2. Head(pass.left) \in SUBSET FeedSet /\ pass.held \in [FeedSet -> FeedRecord]
        BY <2>1, <4>1 DEF PassShape
      <4> QED BY <2>4, <4>1, <4>2
    <3>4. CASE RefreshFolder
      BY <2>4, <3>1, <3>4 DEF RefreshFolder
    <3>5. ASSUME NEW e \in FeedSet, RefreshSingle(e) PROVE ~Paused(f)
      <4>1. Ask("single", {e}, feedRecord) /\ {e} \in SUBSET FeedSet
        BY <3>5 DEF RefreshSingle
      <4> QED BY <2>4, <3>1, <4>1
    <3>6. ASSUME NEW o \in {"pass", "single"}, NEW e \in FeedSet,
                 \/ NotModified(o, e) \/ Answered(o, e)
                 \/ \E ask \in Asks : AskedToWait(o, e, ask)
          PROVE  FALSE
      BY <2>5, <3>6 DEF NotModified, Answered, AskedToWait
    <3>7. AutoRefresh \/ RefreshAll \/ PassReads \/ PassEnds \/ TimePasses => UNCHANGED asked
      BY DEF AutoRefresh, RefreshAll, PassReads, PassEnds, TimePasses
    <3> QED BY <1>1, <3>2, <3>3, <3>4, <3>5, <3>6, <3>7 DEF PacingNext
  <2>7. ~(pause[FeedHosts[f]] > tick)
    BY <2>6 DEF Paused
  <2>8. /\ pause[FeedHosts[f]] \in Nat /\ waits[FeedHosts[f]] \in Nat /\ tick \in Nat
        /\ waits[FeedHosts[f]] <= pause[FeedHosts[f]]
    BY <2>1, <2>2 DEF PacingTypeOK, Ticks, WaitsAreKept
  <2> QED BY <2>7, <2>8
<1>2. PacingInv /\ [PacingNext]_pacingVars =>
        [\A g \in {"pass", "single"}, f \in FeedSet :
            asked[g][f] = NotAsked /\ asked'[g][f] # NotAsked /\ FeedHosts[f] # NoHost
               => waits[FeedHosts[f]] <= tick]_pacingVars
  BY <1>1
<1> QED BY <1>2, PacingInvariant, PTL DEF PacingSpec, PausesAreHonoured
=============================================================================
