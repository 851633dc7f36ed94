-------------------------- MODULE MetaClient_proofs --------------------------
(***************************************************************************)
(* Safety of the client's walks for any number of walkers, any edge, page  *)
(* size, cap, number of attempts and moves of Meta's ceiling, and that     *)
(* they implement EdgeWalk.                                                *)
(***************************************************************************)
EXTENDS MetaClient, TLAPS

Trying == {"preSleep", "backoff", "flight"}

(* A walker's locals that a request for a page may start from: what was    *)
(* yielded is the stretch of the edge behind the cursor.                   *)
Stretch(V, G) ==
    /\ V.size \in 1 .. V.room
    /\ V.start + V.yielded <= FeedLen
    /\ G = V.start + 1 .. V.start + V.yielded

(* The locals of a request: of a page, or of a hashtag's id.               *)
RequestOK(V, G) ==
    /\ V \in WalkState
    /\ V.attempt \in 1 .. MaxAttempts
    /\ V.resolving => V.start = 0 /\ G = {}
    /\ ~V.resolving => /\ Stretch(V, G)
                       /\ V.cursor = V.start + V.yielded
                       /\ V.limit \in 1 .. V.size
                       /\ V.limit <= MaxItems - V.yielded

LoopOK(V, G) ==
    /\ V \in WalkState
    /\ ~V.resolving
    /\ Stretch(V, G)
    /\ V.cursor = V.start + V.yielded

PageOK(V, G) ==
    /\ V \in WalkState
    /\ ~V.resolving
    /\ Stretch(V, G)
    /\ V.next = V.start + V.yielded

(* One second to five minutes.                                             *)
Pause(n) == n \in Nat /\ 1000 <= n /\ n <= 5 * 60000

(* The invariant of one walker, given what its caller got.                 *)
WalkOK(V, G) ==
    /\ V \in WalkState
    /\ V.pc = "idle" => V = IdleWalk /\ G = {}
    /\ V.pc \in {"done", "failed"} => ~V.resolving
    /\ V.pc \in Trying => RequestOK(V, G)
    /\ V.pc = "backoff" => V.attempt < MaxAttempts
    /\ V.pc = "pageSleep" => LoopOK(V, G)
    /\ V.pc = "page" => PageOK(V, G)
    /\ V.pc \in Sleeps => Pause(V.nap)

IInv ==
    /\ TypeOK
    /\ \A w \in Walkers : WalkOK(walk[w], got[w])

-----------------------------------------------------------------------------
(***************************************************************************)
(* Pause.                                                                 *)
(***************************************************************************)
LEMMA ParsedType ==
    ASSUME NEW r \in Reports
    PROVE  ParseRateLimitHeaders(r) \in Usage
<1>1. CASE r = {}
    BY <1>1 DEF ParseRateLimitHeaders, Usage
<1>2. CASE r # {}
  <2> DEFINE worst == CHOOSE e \in r : \A f \in r : f.pct <= e.pct
             regain == CHOOSE e \in r : \A f \in r : f.regain <= e.regain
  <2>1. PICK d \in r, e \in r : \A f \in r : f.pct <= d.pct /\ f.regain <= e.regain
    BY <1>2, UsageAssumption
  <2>2. worst \in r
    BY <2>1
  <2>3. regain \in r
    BY <2>1
  <2>4. worst \in [pct : 0 .. 100, regain : Nat] /\ regain \in [pct : 0 .. 100, regain : Nat]
    BY <2>2, <2>3, UsageAssumption
  <2>5. ParseRateLimitHeaders(r) = [pct |-> worst.pct, regain |-> regain.regain]
    BY <1>2 DEF ParseRateLimitHeaders
  <2> HIDE DEF worst, regain
  <2> QED BY <2>4, <2>5 DEF Usage
<1> QED BY <1>1, <1>2

LEMMA ReportType ==
    ASSUME NEW r \in Reports, TypeOK
    PROVE  Report(r) \in Usage
BY ParsedType DEF Report, TypeOK

(* The ramp stays below its thirty seconds.                                *)
LEMMA RampFact ==
    ASSUME NEW x \in Nat, NEW span \in Nat \ {0}, x <= span
    PROVE  /\ (x * 29000 * 2 + span) \div (2 * span) \in Nat
           /\ (x * 29000 * 2 + span) \div (2 * span) <= 29000
<1> DEFINE a == x * 29000 * 2 + span
           b == 2 * span
           q == a \div b
<1>1. a \in Nat /\ b \in Nat \ {0}
    BY SMT
<1>2. a < 29001 * b
  <2>1. x * 29000 * 2 <= span * 29000 * 2
    BY SMT
  <2>2. 29001 * b = span * 29000 * 2 + 2 * span
    BY SMT
  <2> QED BY SMT, <2>1, <2>2
<1> HIDE DEF a, b
<1>3. q \in Nat /\ q * b <= a
    BY SMT, <1>1
<1>4. q < 29001
  <2> SUFFICES ASSUME q >= 29001 PROVE FALSE
    BY SMT, <1>3
  <2> HIDE DEF q
  <2>1. q * b >= 29001 * b
    BY SMT, <1>1, <1>3
  <2> QED BY SMT, <1>1, <1>2, <1>3, <2>1
<1> HIDE DEF q
<1>5. q \in Nat /\ q <= 29000
    BY SMT, <1>3, <1>4
<1> QED BY SMT, <1>5 DEF q, a, b

LEMMA ThrottleFact ==
    ASSUME NEW u \in Usage
    PROVE  ThrottleDelay(u) = 0 \/ Pause(ThrottleDelay(u))
<1>1. CASE u = None
    BY SMT, <1>1 DEF ThrottleDelay
<1>2. CASE u # None
  <2>1. u \in [pct : 0 .. 100, regain : Nat]
    BY SMT, <1>2 DEF Usage
  <2>2. u.pct \in 0 .. 100 /\ u.regain \in Nat
    BY SMT, <2>1
  <2>3. CASE u.regain > 0
    BY SMT, <1>2, <2>2, <2>3 DEF ThrottleDelay, Min2, Pause
  <2>4. CASE ~(u.regain > 0) /\ u.pct < Threshold
    BY SMT, <1>2, <2>4 DEF ThrottleDelay
  <2>5. CASE ~(u.regain > 0) /\ ~(u.pct < Threshold)
    <3> DEFINE span == Max2(100 - Threshold, 1)
               x == u.pct - Threshold
    <3>1. x \in Nat /\ span \in Nat \ {0} /\ x <= span
        BY SMT, <2>2, <2>5, UsageAssumption DEF Max2
    <3> HIDE DEF span, x
    <3>2. /\ (x * 29000 * 2 + span) \div (2 * span) \in Nat
          /\ (x * 29000 * 2 + span) \div (2 * span) <= 29000
        BY SMT, <3>1, RampFact
    <3>3. ThrottleDelay(u) = 1000 + (x * 29000 * 2 + span) \div (2 * span)
        BY SMT, <1>2, <2>5 DEF ThrottleDelay, span, x
    <3> QED BY SMT, <3>2, <3>3 DEF Pause
  <2> QED BY SMT, <2>3, <2>4, <2>5
<1> QED BY SMT, <1>1, <1>2

LEMMA BackoffFact ==
    ASSUME NEW a \in 1 .. MaxAttempts
    PROVE  Pause(Backoff(a)) /\ Pause(ThrottledBackoff(a))
<1>1. a \in Nat /\ a >= 1
    BY SMT, SizesAssumption
<1>2. Backoff(a) \in Nat /\ 1000 <= Backoff(a) /\ Backoff(a) <= 15499
  <2>1. CASE a = 1
    BY SMT, <2>1 DEF Backoff
  <2>2. CASE a = 2
    BY SMT, <2>2 DEF Backoff
  <2>3. CASE a = 3
    BY SMT, <2>3 DEF Backoff
  <2>4. CASE a = 4
    BY SMT, <2>4 DEF Backoff
  <2>5. CASE a >= 5
    BY SMT, <1>1, <2>5 DEF Backoff
  <2> QED BY SMT, <1>1, <2>1, <2>2, <2>3, <2>4, <2>5
<1> QED BY SMT, <1>2 DEF ThrottledBackoff, Max2, Pause

(***************************************************************************)
(* What the operators of the client make of a walker's locals.             *)
(***************************************************************************)

(* The end of an attempt: the call goes on or fails.                       *)
Tried(V, W, G) ==
    /\ WalkOK(W, G)
    /\ W.start = V.start
    /\ V.resolving => PhaseOf(W) = "idle"
    /\ ~V.resolving => PhaseOf(W) \in {"walking", "failed"}

LEMMA IdleOK ==
    /\ IdleWalk \in WalkState /\ WalkOK(IdleWalk, {})
    /\ PhaseOf(IdleWalk) = "idle" /\ IdleWalk.start = 0
<1>1. IdleWalk \in WalkState
    BY SizesAssumption DEF IdleWalk, WalkState, Usage
<1>2. IdleWalk.pc = "idle" /\ IdleWalk.start = 0
    BY DEF IdleWalk
<1> QED BY <1>1, <1>2 DEF WalkOK, PhaseOf, Trying, Sleeps

LEMMA EndedOK ==
    ASSUME NEW V \in WalkState, NEW G, NEW pc \in {"done", "failed"}
    PROVE  /\ WalkOK(Ended(V, pc), G) /\ PhaseOf(Ended(V, pc)) = pc
           /\ Ended(V, pc).start = V.start
<1> DEFINE W == Ended(V, pc)
<1>1. W \in WalkState
  <2>1. V.start \in 0 .. FeedLen
    BY DEF WalkState
  <2> QED BY <2>1, IdleOK DEF Ended, WalkState
<1>2. W.pc = pc /\ W.start = V.start /\ W.resolving = FALSE
    BY DEF Ended, IdleWalk
<1> QED BY <1>1, <1>2 DEF WalkOK, PhaseOf, Trying, Sleeps, Active

LEMMA ThrowOK ==
    ASSUME NEW V \in WalkState, NEW G, V.resolving => V.start = 0 /\ G = {}
    PROVE  Tried(V, Throw(V), G)
<1>1. CASE V.resolving
    BY <1>1, IdleOK DEF Throw, Tried
<1>2. CASE ~V.resolving
    BY <1>2, EndedOK DEF Throw, Tried
<1> QED BY <1>1, <1>2

LEMMA RetryOK ==
    ASSUME NEW V, NEW G, RequestOK(V, G), NEW nap, Pause(nap)
    PROVE  Tried(V, Retry(V, nap), G)
<1>1. V \in WalkState /\ V.attempt \in 1 .. MaxAttempts
    BY DEF RequestOK
<1>2. CASE V.attempt = MaxAttempts
    BY <1>1, <1>2, ThrowOK DEF Retry, RequestOK
<1>3. CASE V.attempt # MaxAttempts
  <2> DEFINE W == [V EXCEPT !.pc = "backoff", !.nap = nap]
  <2>1. W \in WalkState
    <3>1. nap \in Nat /\ "backoff" \in Active
        BY DEF Pause, Active, Sleeps
    <3> QED BY <1>1, <3>1 DEF WalkState
  <2>2. /\ W.pc = "backoff" /\ W.nap = nap /\ W.resolving = V.resolving
        /\ W.start = V.start /\ W.size = V.size /\ W.limit = V.limit
        /\ W.cursor = V.cursor /\ W.yielded = V.yielded /\ W.attempt = V.attempt
        /\ W.room = V.room
    BY <1>1 DEF WalkState
  <2>3. RequestOK(W, G)
    BY <2>1, <2>2 DEF RequestOK, Stretch
  <2>4. W.attempt < MaxAttempts
    BY <1>1, <1>3, <2>2, SizesAssumption
  <2>5. WalkOK(W, G)
    BY <2>1, <2>2, <2>3, <2>4 DEF WalkOK, Trying, Sleeps
  <2>6. Retry(V, nap) = W
    BY <1>3 DEF Retry
  <2> HIDE DEF W
  <2> QED BY <2>2, <2>5, <2>6 DEF Tried, PhaseOf, Active, Sleeps
<1> QED BY <1>2, <1>3

LEMMA SendOK ==
    ASSUME NEW V, NEW G, RequestOK(V, G)
    PROVE  Tried(V, Send(V), G)
<1>1. V \in WalkState /\ V.attempt \in 1 .. MaxAttempts
    BY DEF RequestOK
<1>2. CASE aborted
    BY <1>1, <1>2, BackoffFact, RetryOK DEF Send
<1>3. CASE ~aborted
  <2> DEFINE W == [V EXCEPT !.pc = "flight", !.nap = 0]
  <2>1. W \in WalkState
    BY <1>1 DEF WalkState, Active, Sleeps
  <2>2. /\ W.pc = "flight" /\ W.resolving = V.resolving
        /\ W.start = V.start /\ W.size = V.size /\ W.limit = V.limit
        /\ W.cursor = V.cursor /\ W.yielded = V.yielded /\ W.attempt = V.attempt
        /\ W.room = V.room
    BY <1>1 DEF WalkState
  <2>3. RequestOK(W, G)
    BY <2>1, <2>2 DEF RequestOK, Stretch
  <2>4. WalkOK(W, G)
    BY <2>1, <2>2, <2>3 DEF WalkOK, Trying, Sleeps
  <2>5. Send(V) = W
    BY <1>3 DEF Send
  <2> HIDE DEF W
  <2> QED BY <2>2, <2>4, <2>5 DEF Tried, PhaseOf, Active, Sleeps
<1> QED BY <1>2, <1>3

LEMMA TryOK ==
    ASSUME NEW V, NEW G, RequestOK(V, G), NEW u \in Usage
    PROVE  Tried(V, Try(V, u), G)
<1>1. CASE ThrottleDelay(u) > 0
  <2> DEFINE W == [V EXCEPT !.pc = "preSleep", !.nap = ThrottleDelay(u)]
  <2>1. Pause(ThrottleDelay(u)) /\ ThrottleDelay(u) \in Nat
    BY <1>1, ThrottleFact DEF Pause
  <2>2. V \in WalkState
    BY DEF RequestOK
  <2>3. W \in WalkState
    BY <2>1, <2>2 DEF WalkState, Active, Sleeps
  <2>4. /\ W.pc = "preSleep" /\ W.nap = ThrottleDelay(u) /\ W.resolving = V.resolving
        /\ W.start = V.start /\ W.size = V.size /\ W.limit = V.limit
        /\ W.cursor = V.cursor /\ W.yielded = V.yielded /\ W.attempt = V.attempt
        /\ W.room = V.room
    BY <2>2 DEF WalkState
  <2>5. RequestOK(W, G)
    BY <2>3, <2>4 DEF RequestOK, Stretch
  <2>6. WalkOK(W, G)
    BY <2>1, <2>3, <2>4, <2>5 DEF WalkOK, Trying, Sleeps
  <2>7. Try(V, u) = W
    BY <1>1 DEF Try
  <2> HIDE DEF W
  <2> QED BY <2>4, <2>6, <2>7 DEF Tried, PhaseOf, Active, Sleeps
<1>2. CASE ~(ThrottleDelay(u) > 0)
    BY <1>2, SendOK DEF Try
<1> QED BY <1>1, <1>2

(* The loop goes on, fails, or ends at the cap.                            *)
LEMMA LoopFact ==
    ASSUME NEW V, NEW G, LoopOK(V, G), NEW u \in Usage
    PROVE  LET W == Loop(V, u)
           IN  /\ WalkOK(W, G) /\ W.start = V.start
               /\ PhaseOf(W) \in {"walking", "failed", "done"}
               /\ PhaseOf(W) = "done" => V.start + 1 .. V.start + MaxItems \subseteq G
               /\ V.yielded < MaxItems => PhaseOf(W) # "done"
<1>1. V \in WalkState
    BY DEF LoopOK
<1>2. /\ V.size \in Nat /\ V.size >= 1 /\ V.size <= PageSize /\ V.yielded \in Nat
      /\ PageSize \in Nat /\ MaxItems \in Nat
    BY <1>1, SizesAssumption DEF LoopOK, Stretch, WalkState
<1>3. CASE V.yielded < MaxItems
  <2> DEFINE limit == Min2(V.size, MaxItems - V.yielded)
             U == [V EXCEPT !.attempt = 1, !.limit = limit]
  <2>1. limit \in 1 .. V.size /\ limit \in 0 .. PageSize /\ limit <= MaxItems - V.yielded
    BY <1>2, <1>3 DEF Min2
  <2> HIDE DEF limit
  <2>2. U \in WalkState
    <3>1. 1 \in 0 .. MaxAttempts
        BY SizesAssumption
    <3> QED BY <1>1, <2>1, <3>1 DEF WalkState
  <2>3. /\ U.attempt = 1 /\ U.limit = limit /\ U.resolving = V.resolving
        /\ U.start = V.start /\ U.size = V.size /\ U.cursor = V.cursor
        /\ U.yielded = V.yielded /\ U.room = V.room
    BY <1>1 DEF WalkState
  <2>4. 1 \in 1 .. MaxAttempts
    BY SizesAssumption
  <2>5. RequestOK(U, G) /\ ~U.resolving
    BY <2>1, <2>2, <2>3, <2>4 DEF RequestOK, LoopOK, Stretch
  <2>6. Loop(V, u) = Try(U, u)
    BY <1>3 DEF Loop, limit
  <2> HIDE DEF U
  <2> QED BY <2>3, <2>5, <2>6, TryOK DEF Tried
<1>4. CASE ~(V.yielded < MaxItems)
  <2>1. Loop(V, u) = Ended(V, "done") /\ MaxItems <= V.yielded
    BY <1>2, <1>4 DEF Loop
  <2>2. V.start \in Nat /\ G = V.start + 1 .. V.start + V.yielded
    BY <1>1, SizesAssumption DEF LoopOK, Stretch, WalkState
  <2>3. V.start + 1 .. V.start + MaxItems \subseteq G
    BY <1>2, <2>1, <2>2
  <2> QED BY <1>1, <1>4, <2>1, <2>3, EndedOK
<1> QED BY <1>3, <1>4

(***************************************************************************)
(* Steps of one walker, and what they are in EdgeWalk.                     *)
(***************************************************************************)

(* From locals V to W, with G and H handed to the caller before and after: *)
(* nothing, the beginning, a page, a normal end, an error, the departure.  *)
Moves(V, W, G, H) ==
    \/ PhaseOf(W) = PhaseOf(V) /\ W.start = V.start /\ H = G
    \/ PhaseOf(V) = "idle" /\ PhaseOf(W) \in {"walking", "failed"} /\ H = G
    \/ /\ PhaseOf(V) = "walking" /\ PhaseOf(W) \in {"walking", "ending"} /\ W.start = V.start
       /\ \E k, m \in 0 .. FeedLen :
             /\ k < MaxItems /\ k <= m /\ V.start + m <= FeedLen
             /\ PhaseOf(W) = "ending" => m = k \/ V.start + m = FeedLen
             /\ G = V.start + 1 .. V.start + k
             /\ H = V.start + 1 .. V.start + m
    \/ /\ PhaseOf(W) = "done" /\ W.start = V.start /\ H = G
       /\ \/ PhaseOf(V) = "ending"
          \/ PhaseOf(V) = "walking" /\ V.start + 1 .. V.start + MaxItems \subseteq G
    \/ PhaseOf(V) = "walking" /\ PhaseOf(W) = "failed" /\ W.start = V.start /\ H = G
    \/ PhaseOf(V) # "idle" /\ PhaseOf(W) = "idle" /\ W.start = 0 /\ H = {}

LEMMA Simulates ==
    ASSUME IInv, NEW w \in Walkers, NEW W \in WalkState, NEW H,
           walk' = [walk EXCEPT ![w] = W], got' = [got EXCEPT ![w] = H],
           Moves(walk[w], W, got[w], H)
    PROVE  [Promise!Next]_(Promise!vars)
<1> DEFINE ph == [v \in Walkers |-> PhaseOf(walk[v])]
           st == [v \in Walkers |-> walk[v].start]
           V == walk[w]
<1>1. walk \in [Walkers -> WalkState] /\ got \in [Walkers -> SUBSET (1 .. FeedLen)]
    BY DEF IInv, TypeOK
<1>2. /\ ph' = [ph EXCEPT ![w] = PhaseOf(W)] /\ st' = [st EXCEPT ![w] = W.start]
      /\ ph[w] = PhaseOf(V) /\ st[w] = V.start
    BY <1>1
<1>3. W.start \in 0 .. FeedLen
    BY DEF WalkState
<1>4. /\ W.start = V.start => st' = st
      /\ PhaseOf(W) = PhaseOf(V) => ph' = ph
      /\ H = got[w] => got' = got
    BY <1>1, <1>2
<1>5. SUFFICES Promise!Next \/ UNCHANGED <<ph, st, got>>
    BY DEF Promise!vars
<1>6. CASE PhaseOf(W) = PhaseOf(V) /\ W.start = V.start /\ H = got[w]
    BY <1>4, <1>6
<1>7. CASE PhaseOf(V) = "idle" /\ PhaseOf(W) \in {"walking", "failed"} /\ H = got[w]
  <2>1. Promise!Start(w, W.start, PhaseOf(W))
    BY <1>2, <1>4, <1>7 DEF Promise!Start
  <2> QED BY <1>3, <1>7, <2>1 DEF Promise!Next, Promise!Step
<1>8. ASSUME PhaseOf(V) = "walking", PhaseOf(W) \in {"walking", "ending"}, W.start = V.start,
             NEW k \in 0 .. FeedLen, NEW m \in 0 .. FeedLen,
             k < MaxItems, k <= m, V.start + m <= FeedLen,
             PhaseOf(W) = "ending" => m = k \/ V.start + m = FeedLen,
             got[w] = V.start + 1 .. V.start + k,
             H = V.start + 1 .. V.start + m
      PROVE  Promise!Next
  <2>1. Promise!Page(w, k, m, PhaseOf(W))
    BY <1>2, <1>4, <1>8 DEF Promise!Page
  <2> QED BY <1>8, <2>1 DEF Promise!Next, Promise!Step
<1>9. CASE /\ PhaseOf(W) = "done" /\ W.start = V.start /\ H = got[w]
           /\ \/ PhaseOf(V) = "ending"
              \/ PhaseOf(V) = "walking" /\ V.start + 1 .. V.start + MaxItems \subseteq got[w]
  <2>1. Promise!Finish(w)
    BY <1>2, <1>4, <1>9 DEF Promise!Finish, Promise!Capped
  <2> QED BY <2>1 DEF Promise!Next, Promise!Step
<1>10. CASE PhaseOf(V) = "walking" /\ PhaseOf(W) = "failed" /\ W.start = V.start /\ H = got[w]
  <2>1. Promise!Fail(w)
    BY <1>2, <1>4, <1>10 DEF Promise!Fail
  <2> QED BY <2>1 DEF Promise!Next, Promise!Step
<1>11. CASE PhaseOf(V) # "idle" /\ PhaseOf(W) = "idle" /\ W.start = 0 /\ H = {}
  <2>1. Promise!Leave(w)
    BY <1>2, <1>11 DEF Promise!Leave
  <2> QED BY <2>1 DEF Promise!Next, Promise!Step
<1> QED BY <1>6, <1>7, <1>8, <1>9, <1>10, <1>11 DEF Moves

(* Both results of a step of one walker.                                   *)
LEMMA OneWalker ==
    ASSUME IInv, NEW w \in Walkers, NEW W, NEW H \in SUBSET (1 .. FeedLen),
           walk' = [walk EXCEPT ![w] = W], got' = [got EXCEPT ![w] = H],
           learned' \in 1 .. PageSize \cup {None}, lastRateLimit' \in Usage,
           ceiling' \in Ceilings, aborted' \in BOOLEAN,
           WalkOK(W, H), Moves(walk[w], W, got[w], H)
    PROVE  IInv' /\ [Promise!Next]_(Promise!vars)
<1>1. W \in WalkState
    BY DEF WalkOK
<1>2. TypeOK'
    BY <1>1 DEF IInv, TypeOK
<1>3. \A v \in Walkers : WalkOK(walk'[v], got'[v])
    BY DEF IInv, TypeOK
<1> QED BY <1>1, <1>2, <1>3, Simulates DEF IInv

(* The caller gets nothing in this step, and the shared state stays.       *)
LEMMA QuietStep ==
    ASSUME IInv, NEW w \in Walkers, NEW W, walk' = [walk EXCEPT ![w] = W],
           UNCHANGED <<learned, ceiling, aborted, got>>, lastRateLimit' \in Usage,
           WalkOK(W, got[w]), Moves(walk[w], W, got[w], got[w])
    PROVE  IInv' /\ [Promise!Next]_(Promise!vars)
<1>1. got' = [got EXCEPT ![w] = got[w]] /\ got[w] \in SUBSET (1 .. FeedLen)
    BY DEF IInv, TypeOK
<1>2. /\ learned' \in 1 .. PageSize \cup {None}
      /\ ceiling' \in Ceilings /\ aborted' \in BOOLEAN
    BY DEF IInv, TypeOK
<1> QED BY <1>1, <1>2, OneWalker

(* The outcome of an attempt is nothing to the caller, or an error.        *)
LEMMA TriedMoves ==
    ASSUME NEW V \in WalkState, NEW U, NEW W, NEW G, V.pc \in Trying,
           U.start = V.start, U.resolving = V.resolving, Tried(U, W, G)
    PROVE  WalkOK(W, G) /\ Moves(V, W, G, G)
<1>1. CASE V.resolving
    BY <1>1 DEF Tried, Moves, PhaseOf
<1>2. CASE ~V.resolving
  <2>1. PhaseOf(V) = "walking"
    BY <1>2 DEF PhaseOf, Trying, Active, Sleeps
  <2> QED BY <1>2, <2>1 DEF Tried, Moves
<1> QED BY <1>1, <1>2

LEMMA LoopMoves ==
    ASSUME NEW V \in WalkState, NEW U, NEW G, PhaseOf(V) = "walking",
           U.start = V.start, LoopOK(U, G), NEW u \in Usage
    PROVE  WalkOK(Loop(U, u), G) /\ Moves(V, Loop(U, u), G, G)
<1>1. LET W == Loop(U, u)
      IN  /\ WalkOK(W, G) /\ W.start = V.start
          /\ PhaseOf(W) \in {"walking", "failed", "done"}
          /\ PhaseOf(W) = "done" => V.start + 1 .. V.start + MaxItems \subseteq G
    BY LoopFact
<1> QED BY <1>1 DEF Moves

(***************************************************************************)
(* The actions.                                                            *)
(***************************************************************************)
LEMMA WalkerState ==
    ASSUME IInv, NEW w \in Walkers
    PROVE  /\ walk[w] \in WalkState /\ WalkOK(walk[w], got[w])
           /\ got[w] \in SUBSET (1 .. FeedLen) /\ lastRateLimit \in Usage
BY DEF IInv, TypeOK

LEMMA FirstSizeFact ==
    ASSUME IInv
    PROVE  FirstSize \in 1 .. PageSize
BY SizesAssumption DEF FirstSize, Min2, IInv, TypeOK

LEMMA StartWalkStep ==
    ASSUME IInv, NEW w \in Walkers, NEW s \in Starts, StartWalk(w, s)
    PROVE  IInv' /\ [Promise!Next]_(Promise!vars)
<1> DEFINE U == [IdleWalk EXCEPT !.start = s, !.cursor = s, !.size = FirstSize]
<1>1. walk[w] = IdleWalk /\ got[w] = {} /\ lastRateLimit \in Usage
    BY WalkerState DEF StartWalk, WalkOK
<1>2. s \in 0 .. FeedLen /\ FirstSize \in 1 .. PageSize /\ FeedLen \in Nat /\ PageSize \in Nat
    BY FirstSizeFact, SizesAssumption
<1>3. U \in WalkState
  <2>1. FirstSize \in 0 .. PageSize
    BY <1>2
  <2> QED BY <1>2, <2>1, IdleOK DEF WalkState
<1>4. /\ U.start = s /\ U.cursor = s /\ U.size = FirstSize /\ U.yielded = 0
      /\ U.room = PageSize /\ U.resolving = FALSE
    BY DEF IdleWalk
<1> HIDE DEF U
<1>5. s + 1 .. s + 0 = {}
    BY <1>2
<1>6. LoopOK(U, {})
    BY <1>2, <1>3, <1>4, <1>5 DEF LoopOK, Stretch
<1>7. U.yielded < MaxItems
    BY <1>4, SizesAssumption
<1>8. LET W == Loop(U, lastRateLimit)
      IN  WalkOK(W, {}) /\ PhaseOf(W) \in {"walking", "failed"}
    BY <1>1, <1>6, <1>7, LoopFact
<1>9. walk' = [walk EXCEPT ![w] = Loop(U, lastRateLimit)]
    BY DEF StartWalk, U
<1>10. Moves(walk[w], Loop(U, lastRateLimit), got[w], got[w])
    BY <1>1, <1>8, IdleOK DEF Moves
<1> QED BY <1>1, <1>8, <1>9, <1>10, QuietStep DEF StartWalk

LEMMA StartResolveStep ==
    ASSUME IInv, NEW w \in Walkers, StartResolve(w)
    PROVE  IInv' /\ [Promise!Next]_(Promise!vars)
<1> DEFINE U == [IdleWalk EXCEPT !.resolving = TRUE, !.attempt = 1]
<1>1. walk[w] = IdleWalk /\ got[w] = {} /\ lastRateLimit \in Usage
    BY WalkerState DEF StartResolve, WalkOK
<1>2. U \in WalkState
  <2>1. 1 \in 0 .. MaxAttempts
    BY SizesAssumption
  <2> QED BY <2>1, IdleOK DEF WalkState
<1>3. U.resolving = TRUE /\ U.start = 0 /\ U.attempt = 1
    BY DEF IdleWalk
<1> HIDE DEF U
<1>4. 1 \in 1 .. MaxAttempts
    BY SizesAssumption
<1>5. RequestOK(U, {})
    BY <1>2, <1>3, <1>4 DEF RequestOK
<1>6. Tried(U, Try(U, lastRateLimit), {})
    BY <1>1, <1>5, TryOK
<1>7. WalkOK(Try(U, lastRateLimit), {}) /\ Moves(walk[w], Try(U, lastRateLimit), {}, {})
    BY <1>1, <1>3, <1>6, IdleOK DEF Tried, Moves
<1>8. walk' = [walk EXCEPT ![w] = Try(U, lastRateLimit)]
    BY DEF StartResolve, U
<1> QED BY <1>1, <1>7, <1>8, QuietStep DEF StartResolve

LEMMA WakeStep ==
    ASSUME IInv, NEW w \in Walkers, Wake(w)
    PROVE  IInv' /\ [Promise!Next]_(Promise!vars)
<1> DEFINE V == walk[w]
           G == got[w]
<1>1. V \in WalkState /\ WalkOK(V, G) /\ lastRateLimit \in Usage
    BY WalkerState
<1>2. CASE V.pc = "preSleep" /\ walk' = [walk EXCEPT ![w] = Send(V)]
  <2>1. Tried(V, Send(V), G)
    BY <1>1, <1>2, SendOK DEF WalkOK, Trying
  <2>2. WalkOK(Send(V), G) /\ Moves(V, Send(V), G, G)
    BY <1>1, <1>2, <2>1, TriedMoves DEF Trying
  <2> QED BY <1>1, <1>2, <2>2, QuietStep DEF Wake
<1>3. CASE V.pc = "backoff" /\ walk' = [walk EXCEPT ![w] =
                  Try([V EXCEPT !.attempt = @ + 1], lastRateLimit)]
  <2> DEFINE U == [V EXCEPT !.attempt = @ + 1]
  <2>1. RequestOK(V, G) /\ V.attempt \in 1 .. MaxAttempts /\ V.attempt < MaxAttempts
    BY <1>1, <1>3 DEF WalkOK, RequestOK, Trying
  <2>2. V.attempt + 1 \in 1 .. MaxAttempts /\ V.attempt + 1 \in 0 .. MaxAttempts
    BY <2>1, SizesAssumption
  <2>3. U \in WalkState
    BY <1>1, <2>2 DEF WalkState
  <2>4. /\ U.attempt = V.attempt + 1 /\ U.resolving = V.resolving
        /\ U.start = V.start /\ U.size = V.size /\ U.limit = V.limit
        /\ U.cursor = V.cursor /\ U.yielded = V.yielded /\ U.room = V.room
    BY <1>1 DEF WalkState
  <2>5. walk' = [walk EXCEPT ![w] = Try(U, lastRateLimit)]
    BY <1>3
  <2> HIDE DEF U
  <2>6. RequestOK(U, G)
    BY <2>1, <2>2, <2>3, <2>4 DEF RequestOK, Stretch
  <2>7. Tried(U, Try(U, lastRateLimit), G)
    BY <1>1, <2>6, TryOK
  <2>8. WalkOK(Try(U, lastRateLimit), G) /\ Moves(V, Try(U, lastRateLimit), G, G)
    BY <1>1, <1>3, <2>4, <2>7, TriedMoves DEF Trying
  <2> QED BY <1>1, <2>5, <2>8, QuietStep DEF Wake
<1>4. CASE V.pc = "pageSleep" /\ walk' = [walk EXCEPT ![w] = Loop(V, lastRateLimit)]
  <2>1. LoopOK(V, G) /\ ~V.resolving
    BY <1>1, <1>4 DEF WalkOK, LoopOK
  <2>2. PhaseOf(V) = "walking"
    BY <1>4, <2>1 DEF PhaseOf, Active, Sleeps
  <2>3. WalkOK(Loop(V, lastRateLimit), G) /\ Moves(V, Loop(V, lastRateLimit), G, G)
    BY <1>1, <2>1, <2>2, LoopMoves
  <2> QED BY <1>1, <1>4, <2>3, QuietStep DEF Wake
<1> QED BY <1>2, <1>3, <1>4 DEF Wake

LEMMA InFlight ==
    ASSUME IInv, NEW w \in Walkers, walk[w].pc = "flight"
    PROVE  /\ walk[w] \in WalkState /\ walk[w].pc \in Trying
           /\ ~walk[w].resolving => PhaseOf(walk[w]) = "walking"
           /\ RequestOK(walk[w], got[w]) /\ walk[w].attempt \in 1 .. MaxAttempts
           /\ Pause(Backoff(walk[w].attempt)) /\ Pause(ThrottledBackoff(walk[w].attempt))
<1>1. RequestOK(walk[w], got[w]) /\ walk[w] \in WalkState
    BY WalkerState DEF WalkOK, Trying
<1>2. walk[w].attempt \in 1 .. MaxAttempts
    BY <1>1 DEF RequestOK
<1> QED BY <1>1, <1>2, BackoffFact DEF Trying, PhaseOf, Active

LEMMA NetworkStep ==
    ASSUME IInv, NEW w \in Walkers, NetworkFails(w)
    PROVE  IInv' /\ [Promise!Next]_(Promise!vars)
<1> DEFINE W == Retry(walk[w], Backoff(walk[w].attempt))
<1>1. walk[w].pc = "flight" /\ walk' = [walk EXCEPT ![w] = W]
    BY DEF NetworkFails, IInv, TypeOK
<1> HIDE DEF W
<1>2. Tried(walk[w], W, got[w])
    BY <1>1, InFlight, RetryOK DEF W
<1>3. WalkOK(W, got[w]) /\ Moves(walk[w], W, got[w], got[w])
    BY <1>1, <1>2, InFlight, TriedMoves
<1> QED BY <1>1, <1>3, WalkerState, QuietStep DEF NetworkFails

LEMMA RefusedStep ==
    ASSUME IInv, NEW w \in Walkers, NEW r \in Reports, Refused(w, r)
    PROVE  IInv' /\ [Promise!Next]_(Promise!vars)
<1>1. walk[w].pc = "flight" /\ walk' = [walk EXCEPT ![w] = Throw(walk[w])]
    BY DEF Refused, IInv, TypeOK
<1>2. Tried(walk[w], Throw(walk[w]), got[w])
    BY <1>1, InFlight, ThrowOK DEF RequestOK
<1>3. WalkOK(Throw(walk[w]), got[w]) /\ Moves(walk[w], Throw(walk[w]), got[w], got[w])
    BY <1>1, <1>2, InFlight, TriedMoves
<1>4. lastRateLimit' \in Usage
    BY ReportType DEF Refused, IInv
<1> QED BY <1>1, <1>3, <1>4, QuietStep DEF Refused

LEMMA TransientStep ==
    ASSUME IInv, NEW w \in Walkers, NEW r \in Reports, Transient(w, r)
    PROVE  IInv' /\ [Promise!Next]_(Promise!vars)
<1>1. PICK nap \in {Backoff(walk[w].attempt), ThrottledBackoff(walk[w].attempt)} :
          walk' = [walk EXCEPT ![w] = Retry(@, nap)]
    BY DEF Transient
<1>2. walk[w].pc = "flight" /\ walk' = [walk EXCEPT ![w] = Retry(walk[w], nap)]
    BY <1>1 DEF Transient, IInv, TypeOK
<1>3. Pause(nap)
    BY <1>1, <1>2, InFlight
<1>4. Tried(walk[w], Retry(walk[w], nap), got[w])
    BY <1>2, <1>3, InFlight, RetryOK
<1>5. WalkOK(Retry(walk[w], nap), got[w]) /\ Moves(walk[w], Retry(walk[w], nap), got[w], got[w])
    BY <1>2, <1>4, InFlight, TriedMoves
<1>6. lastRateLimit' \in Usage
    BY ReportType DEF Transient, IInv
<1> QED BY <1>2, <1>5, <1>6, QuietStep DEF Transient

LEMMA TooLargeStep ==
    ASSUME IInv, NEW w \in Walkers, NEW r \in Reports, TooLarge(w, r)
    PROVE  IInv' /\ [Promise!Next]_(Promise!vars)
<1> DEFINE V == walk[w]
           G == got[w]
           U == Halved(V)
<1>1. V.pc = "flight" /\ ~V.resolving
    BY DEF TooLarge
<1>2. walk' = [walk EXCEPT ![w] = IF V.limit > 1 THEN Loop(U, Report(r)) ELSE Throw(V)]
    BY DEF TooLarge, IInv, TypeOK
<1>3. lastRateLimit' \in Usage /\ Report(r) \in Usage
    BY ReportType DEF TooLarge, IInv
<1>4. V \in WalkState /\ V.pc \in Trying /\ PhaseOf(V) = "walking" /\ RequestOK(V, G)
    BY <1>1, InFlight
<1>5. CASE ~(V.limit > 1)
  <2>1. Tried(V, Throw(V), G)
    BY <1>1, <1>4, ThrowOK
  <2>2. WalkOK(Throw(V), G) /\ Moves(V, Throw(V), G, G)
    BY <1>4, <2>1, TriedMoves
  <2>3. walk' = [walk EXCEPT ![w] = Throw(V)]
    BY <1>2, <1>5
  <2> QED BY <1>3, <2>2, <2>3, QuietStep DEF TooLarge
<1>6. CASE V.limit > 1
  <2> DEFINE size == Max2(1, V.limit \div 2)
             room == V.room \div 2
  <2>1. /\ V.limit \in 1 .. V.size /\ V.size \in 1 .. V.room /\ V.room \in 0 .. PageSize
        /\ PageSize \in Nat
    BY <1>1, <1>4, SizesAssumption DEF RequestOK, Stretch, WalkState
  <2>2. V.limit \div 2 \in Nat /\ V.room \div 2 \in Nat /\ V.limit \div 2 >= 1
        /\ V.limit \div 2 <= V.room \div 2 /\ V.room \div 2 <= V.room
    BY <1>6, <2>1
  <2>3. size \in 1 .. room /\ size \in 0 .. PageSize /\ room \in 0 .. PageSize
    BY <2>1, <2>2 DEF Max2
  <2>4. U = [V EXCEPT !.size = size, !.room = room]
    BY <1>4 DEF Halved, WalkState
  <2> HIDE DEF size, room, U
  <2>5. U \in WalkState
    BY <1>4, <2>3, <2>4 DEF WalkState
  <2>6. /\ U.size = size /\ U.room = room /\ U.start = V.start /\ U.yielded = V.yielded
        /\ U.cursor = V.cursor /\ U.resolving = V.resolving
    BY <1>4, <2>4 DEF WalkState
  <2>7. LoopOK(U, G)
    BY <1>1, <1>4, <2>3, <2>5, <2>6 DEF LoopOK, RequestOK, Stretch
  <2>8. WalkOK(Loop(U, Report(r)), G) /\ Moves(V, Loop(U, Report(r)), G, G)
    BY <1>1, <1>3, <1>4, <2>6, <2>7, LoopMoves
  <2>9. walk' = [walk EXCEPT ![w] = Loop(U, Report(r))]
    BY <1>2, <1>6
  <2> QED BY <1>3, <2>8, <2>9, QuietStep DEF TooLarge
<1> QED BY <1>5, <1>6

LEMMA ResolvedStep ==
    ASSUME IInv, NEW w \in Walkers, NEW r \in Reports, Resolved(w, r)
    PROVE  IInv' /\ [Promise!Next]_(Promise!vars)
<1>1. walk[w].pc = "flight" /\ walk[w].resolving
    BY DEF Resolved
<1>2. got[w] = {} /\ walk[w].start = 0 /\ PhaseOf(walk[w]) = "idle"
    BY <1>1, InFlight DEF RequestOK, PhaseOf
<1>3. WalkOK(IdleWalk, got[w]) /\ Moves(walk[w], IdleWalk, got[w], got[w])
    BY <1>2, IdleOK DEF Moves
<1>4. lastRateLimit' \in Usage
    BY ReportType DEF Resolved, IInv
<1> QED BY <1>3, <1>4, QuietStep DEF Resolved

LEMMA AcceptedStep ==
    ASSUME IInv, NEW w \in Walkers, NEW r \in Reports, NEW n \in 0 .. MaxPage,
           NEW next \in BOOLEAN, Accepted(w, n, next, r)
    PROVE  IInv' /\ [Promise!Next]_(Promise!vars)
<1> DEFINE V == walk[w]
           G == got[w]
           H == G \cup (V.cursor + 1 .. V.cursor + n)
           u == ParseRateLimitHeaders(r)
           W == [V EXCEPT !.pc = "page", !.next = V.cursor + n, !.attempt = 0,
                          !.yielded = V.yielded + n, !.last = Ends(V, n, next), !.limit = 0,
                          !.usage = u]
<1>1. /\ V.pc = "flight" /\ ~V.resolving
      /\ V.cursor + n <= FeedLen /\ (V.cursor + n < FeedLen => next)
    BY DEF Accepted
<1>2. walk' = [walk EXCEPT ![w] = W] /\ got' = [got EXCEPT ![w] = H] /\ learned' = V.size
    BY DEF Accepted, IInv, TypeOK
<1>3. V \in WalkState /\ RequestOK(V, G) /\ PhaseOf(V) = "walking"
    BY <1>1, InFlight
<1>4. /\ V.start \in 0 .. FeedLen /\ V.yielded \in 0 .. FeedLen /\ V.cursor = V.start + V.yielded
      /\ V.yielded < MaxItems /\ V.size \in 1 .. V.room /\ V.room \in 0 .. PageSize
      /\ G = V.start + 1 .. V.start + V.yielded
      /\ n \in Nat /\ FeedLen \in Nat /\ MaxItems \in Nat /\ PageSize \in Nat
  <2>1. FeedLen \in Nat /\ MaxItems \in Nat /\ PageSize \in Nat /\ MaxPage \in Nat
    BY SizesAssumption
  <2>2. V.start \in 0 .. FeedLen /\ V.yielded \in 0 .. FeedLen /\ V.room \in 0 .. PageSize
    BY <1>3 DEF WalkState
  <2>3. /\ V.cursor = V.start + V.yielded /\ G = V.start + 1 .. V.start + V.yielded
        /\ V.size \in 1 .. V.room
        /\ V.limit \in 1 .. V.size /\ V.limit <= MaxItems - V.yielded
    BY <1>1, <1>3 DEF RequestOK, Stretch
  <2>4. V.yielded < MaxItems
    BY <2>1, <2>2, <2>3
  <2> QED BY <2>1, <2>2, <2>3, <2>4
<1> DEFINE first == V.start
           count == V.yielded
<1>5. first \in Nat /\ count \in Nat /\ n \in Nat /\ first + count + n <= FeedLen
    BY <1>1, <1>4
<1> HIDE DEF first, count
<1>a. /\ count + n \in 0 .. FeedLen /\ (first + count) + n \in 0 .. FeedLen
      /\ (first + count) + n = first + (count + n)
      /\ (first + 1 .. first + count) \cup (first + count + 1 .. first + count + n)
            = first + 1 .. first + (count + n)
  <2>1. FeedLen \in Nat
    BY SizesAssumption
  <2>2. /\ count + n \in 0 .. FeedLen /\ (first + count) + n \in 0 .. FeedLen
        /\ (first + count) + n = first + (count + n)
    BY <1>5, <2>1
  <2>3. (first + 1 .. first + count) \cup (first + count + 1 .. first + count + n)
            = first + 1 .. first + (count + n)
    BY <1>5
  <2> QED BY <2>2, <2>3
<1>b. /\ V.yielded + n \in 0 .. FeedLen /\ V.cursor + n \in 0 .. FeedLen
      /\ V.cursor + n = V.start + (V.yielded + n)
  <2>1. V.cursor = first + count
    BY <1>4 DEF first, count
  <2>2. V.cursor + n \in 0 .. FeedLen /\ V.cursor + n = first + (count + n)
    BY <1>a, <2>1
  <2> QED BY <1>a, <2>2 DEF first, count
<1>c. V.size \in 1 .. PageSize /\ 0 \in 0 .. MaxAttempts /\ 0 \in 0 .. PageSize
    BY <1>4, SizesAssumption
<1>6. H = V.start + 1 .. V.start + (V.yielded + n)
    BY <1>4, <1>a DEF first, count
<1>7. u \in Usage
    BY ParsedType
<1>8. Ends(V, n, next) \in BOOLEAN /\ (Ends(V, n, next) => n = 0 \/ V.cursor + n = FeedLen)
    BY <1>1, <1>4, <1>b, <1>c DEF Ends
<1> HIDE DEF u, H, G
<1>9. W \in WalkState
  <2>1. "page" \in Active
    BY DEF Active
  <2> QED BY <1>3, <1>b, <1>c, <1>7, <1>8, <2>1 DEF WalkState
<1>10. /\ W.pc = "page" /\ W.next = V.cursor + n /\ W.yielded = V.yielded + n
       /\ W.last = Ends(V, n, next) /\ W.start = V.start /\ W.size = V.size
       /\ W.room = V.room /\ W.resolving = V.resolving
    BY <1>3 DEF WalkState
<1> HIDE DEF W
<1>11. PageOK(W, H)
    BY <1>1, <1>4, <1>b, <1>c, <1>6, <1>8, <1>9, <1>10 DEF PageOK, Stretch
<1>12. WalkOK(W, H)
    BY <1>9, <1>10, <1>11 DEF WalkOK, Trying, Sleeps
<1>13. Moves(V, W, G, H)
  <2>1. PhaseOf(W) = IF Ends(V, n, next) THEN "ending" ELSE "walking"
    BY <1>1, <1>8, <1>10 DEF PhaseOf, Active
  <2>2. V.yielded <= V.yielded + n /\ V.start + (V.yielded + n) <= FeedLen
    BY <1>1, <1>4, <1>b, <1>c
  <2>3. G = V.start + 1 .. V.start + V.yielded
    BY <1>4 DEF G
  <2>4. PhaseOf(W) = "ending" => V.yielded + n = V.yielded \/ V.start + (V.yielded + n) = FeedLen
    BY <1>4, <1>8, <1>b, <2>1
  <2> QED BY <1>3, <1>4, <1>b, <1>6, <1>10, <2>1, <2>2, <2>3, <2>4 DEF Moves
<1>14. H \in SUBSET (1 .. FeedLen)
    BY <1>1, <1>4, <1>b, <1>c, <1>6
<1>15. /\ learned' \in 1 .. PageSize \cup {None} /\ lastRateLimit' \in Usage
       /\ ceiling' \in Ceilings /\ aborted' \in BOOLEAN
  <2>1. lastRateLimit' \in Usage
    BY ReportType DEF Accepted, IInv
  <2> QED BY <1>2, <1>b, <1>c, <2>1 DEF Accepted, IInv, TypeOK
<1> QED BY <1>2, <1>12, <1>13, <1>14, <1>15, OneWalker DEF G

LEMMA ResumeStep ==
    ASSUME IInv, NEW w \in Walkers, Resume(w)
    PROVE  IInv' /\ [Promise!Next]_(Promise!vars)
<1> DEFINE V == walk[w]
           G == got[w]
           delay == ThrottleDelay(V.usage)
           moved == [V EXCEPT !.cursor = V.next, !.next = 0, !.usage = None]
           napping == [moved EXCEPT !.pc = "pageSleep", !.nap = delay]
<1>1. /\ V.pc = "page"
      /\ walk' = [walk EXCEPT ![w] =
                      IF V.last THEN Ended(V, "done")
                      ELSE IF delay > 0 THEN napping
                      ELSE Loop(moved, lastRateLimit)]
    BY DEF Resume
<1>2. V \in WalkState /\ PageOK(V, G) /\ lastRateLimit \in Usage /\ ~V.resolving
    BY <1>1, WalkerState DEF WalkOK, PageOK
<1>3. PhaseOf(V) = IF V.last THEN "ending" ELSE "walking"
    BY <1>1, <1>2 DEF PhaseOf, Active
<1>4. moved \in WalkState
  <2>1. V.next \in 0 .. FeedLen /\ 0 \in 0 .. FeedLen /\ None \in Usage
    BY <1>2, SizesAssumption DEF WalkState, Usage
  <2> QED BY <1>2, <2>1 DEF WalkState
<1>5. /\ moved.cursor = V.next /\ moved.start = V.start /\ moved.yielded = V.yielded
      /\ moved.size = V.size /\ moved.room = V.room /\ moved.resolving = V.resolving
    BY <1>2 DEF WalkState
<1> HIDE DEF moved
<1>6. LoopOK(moved, G)
    BY <1>2, <1>4, <1>5 DEF LoopOK, PageOK, Stretch
<1>7. CASE V.last
  <2>1. walk' = [walk EXCEPT ![w] = Ended(V, "done")]
    BY <1>1, <1>7
  <2>2. /\ WalkOK(Ended(V, "done"), G) /\ PhaseOf(Ended(V, "done")) = "done"
        /\ Ended(V, "done").start = V.start
    BY <1>2, EndedOK
  <2>3. Moves(V, Ended(V, "done"), G, G)
    BY <1>3, <1>7, <2>2 DEF Moves
  <2> QED BY <1>2, <2>1, <2>2, <2>3, QuietStep DEF Resume
<1>8. CASE ~V.last /\ delay > 0
  <2>1. walk' = [walk EXCEPT ![w] = napping]
    BY <1>1, <1>8
  <2>2. Pause(delay) /\ delay \in Nat
    <3>1. V.usage \in Usage
        BY <1>2 DEF WalkState
    <3> QED BY <1>8, <3>1, ThrottleFact DEF Pause
  <2> HIDE DEF delay
  <2>3. napping \in WalkState
    <3>1. "pageSleep" \in Active
        BY DEF Active, Sleeps
    <3> QED BY <1>4, <2>2, <3>1 DEF WalkState
  <2>4. /\ napping.pc = "pageSleep" /\ napping.nap = delay
        /\ napping.cursor = moved.cursor /\ napping.start = moved.start
        /\ napping.yielded = moved.yielded /\ napping.size = moved.size
        /\ napping.room = moved.room /\ napping.resolving = moved.resolving
    BY <1>4 DEF WalkState
  <2> HIDE DEF napping
  <2>5. LoopOK(napping, G)
    BY <1>6, <2>3, <2>4 DEF LoopOK, Stretch
  <2>6. WalkOK(napping, G)
    BY <2>2, <2>3, <2>4, <2>5 DEF WalkOK, Trying, Sleeps
  <2>7. PhaseOf(napping) = "walking"
    BY <1>2, <1>5, <2>4 DEF PhaseOf, Active, Sleeps
  <2>8. Moves(V, napping, G, G)
    BY <1>3, <1>5, <1>8, <2>4, <2>7 DEF Moves
  <2> QED BY <1>2, <2>1, <2>6, <2>8, QuietStep DEF Resume
<1>9. CASE ~V.last /\ ~(delay > 0)
  <2>1. walk' = [walk EXCEPT ![w] = Loop(moved, lastRateLimit)]
    BY <1>1, <1>9
  <2>2. WalkOK(Loop(moved, lastRateLimit), G) /\ Moves(V, Loop(moved, lastRateLimit), G, G)
    BY <1>2, <1>3, <1>5, <1>6, <1>9, LoopMoves
  <2> QED BY <1>2, <2>1, <2>2, QuietStep DEF Resume
<1> QED BY <1>7, <1>8, <1>9

LEMMA LeaveStep ==
    ASSUME IInv, NEW w \in Walkers, Leave(w)
    PROVE  IInv' /\ [Promise!Next]_(Promise!vars)
<1>1. walk[w].pc \in {"page", "done", "failed"} /\ ~walk[w].resolving
    BY WalkerState DEF Leave, WalkOK, PageOK
<1>2. PhaseOf(walk[w]) # "idle"
    BY <1>1 DEF PhaseOf, Active
<1>3. Moves(walk[w], IdleWalk, got[w], {})
    BY <1>2, IdleOK DEF Moves
<1>4. /\ learned' \in 1 .. PageSize \cup {None} /\ lastRateLimit' \in Usage
      /\ ceiling' \in Ceilings /\ aborted' \in BOOLEAN
    BY DEF Leave, IInv, TypeOK
<1>5. {} \in SUBSET (1 .. FeedLen)
    OBVIOUS
<1> QED BY <1>3, <1>4, <1>5, IdleOK, OneWalker DEF Leave

LEMMA AbortStep ==
    ASSUME IInv, Abort
    PROVE  IInv' /\ [Promise!Next]_(Promise!vars)
<1>1. ASSUME NEW w \in Walkers
      PROVE  /\ WalkOK(walk'[w], got[w]) /\ walk'[w].start = walk[w].start
             /\ PhaseOf(walk'[w]) = IF walk[w].pc \in Sleeps /\ PhaseOf(walk[w]) = "walking"
                                    THEN "failed" ELSE PhaseOf(walk[w])
  <2>1. walk[w] \in WalkState /\ WalkOK(walk[w], got[w])
    BY WalkerState
  <2>2. CASE walk[w].pc \in Sleeps
    <3>1. walk'[w] = Throw(walk[w])
        BY <2>2 DEF Abort
    <3>2. walk[w].resolving => walk[w].start = 0 /\ got[w] = {}
        BY <2>1, <2>2 DEF WalkOK, RequestOK, LoopOK, Sleeps, Trying
    <3>3. Tried(walk[w], Throw(walk[w]), got[w])
        BY <2>1, <3>2, ThrowOK
    <3>4. CASE walk[w].resolving
      <4>1. PhaseOf(walk[w]) = "idle"
        BY <3>4 DEF PhaseOf
      <4> QED BY <3>1, <3>3, <3>4, <4>1 DEF Tried
    <3>5. CASE ~walk[w].resolving
      <4>1. PhaseOf(walk[w]) = "walking"
        BY <2>2, <3>5 DEF PhaseOf, Active, Sleeps
      <4>2. PhaseOf(Throw(walk[w])) = "failed"
        BY <2>1, <3>5, EndedOK DEF Throw
      <4> QED BY <2>2, <3>1, <3>3, <4>1, <4>2 DEF Tried
    <3> QED BY <3>4, <3>5
  <2>3. CASE walk[w].pc \notin Sleeps
    BY <2>1, <2>3 DEF Abort
  <2> QED BY <2>2, <2>3
<1>2. TypeOK'
  <2>1. \A w \in Walkers : walk'[w] \in WalkState
    BY <1>1 DEF WalkOK
  <2>2. walk' \in [Walkers -> WalkState]
    BY <2>1 DEF Abort
  <2> QED BY <2>2 DEF Abort, IInv, TypeOK
<1>3. IInv'
    BY <1>1, <1>2 DEF Abort, IInv
<1> DEFINE ph == [v \in Walkers |-> PhaseOf(walk[v])]
           st == [v \in Walkers |-> walk[v].start]
           F == {v \in Walkers : walk[v].pc \in Sleeps /\ PhaseOf(walk[v]) = "walking"}
<1>4. ph' = [v \in Walkers |-> IF v \in F THEN "failed" ELSE ph[v]]
    BY <1>1
<1>5. st' = st /\ got' = got
    BY <1>1 DEF Abort
<1>6. F \in SUBSET {v \in Walkers : ph[v] = "walking"}
    OBVIOUS
<1>7. Promise!Abort
    BY <1>4, <1>5, <1>6 DEF Promise!Abort
<1> QED BY <1>3, <1>7 DEF Promise!Next

LEMMA CeilingStep ==
    ASSUME IInv, CeilingMoves
    PROVE  IInv' /\ [Promise!Next]_(Promise!vars)
<1>1. IInv'
    BY DEF CeilingMoves, IInv, TypeOK
<1>2. UNCHANGED Promise!vars
    BY DEF CeilingMoves, Promise!vars
<1> QED BY <1>1, <1>2

LEMMA InitInv == Init => IInv /\ Promise!Init
<1> SUFFICES ASSUME Init PROVE IInv /\ Promise!Init
    OBVIOUS
<1> USE DEF Init
<1>1. TypeOK
  <2>1. walk \in [Walkers -> WalkState]
    BY IdleOK
  <2>2. got \in [Walkers -> SUBSET (1 .. FeedLen)]
    OBVIOUS
  <2> QED BY <2>1, <2>2 DEF TypeOK, Usage
<1>2. \A w \in Walkers : walk[w] = IdleWalk /\ got[w] = {}
    OBVIOUS
<1>3. IInv
    BY <1>1, <1>2, IdleOK DEF IInv
<1>4. Promise!Init
  <2>1. [w \in Walkers |-> PhaseOf(walk[w])] = [w \in Walkers |-> "idle"]
    BY <1>2, IdleOK
  <2>2. [w \in Walkers |-> walk[w].start] = [w \in Walkers |-> 0]
    BY <1>2, IdleOK
  <2> QED BY <2>1, <2>2 DEF Promise!Init
<1> QED BY <1>3, <1>4

LEMMA NextStep ==
    ASSUME IInv, [Next]_vars
    PROVE  IInv' /\ [Promise!Next]_(Promise!vars)
<1>1. ASSUME NEW w \in Walkers, Progress(w)
      PROVE  IInv' /\ [Promise!Next]_(Promise!vars)
    BY <1>1, WakeStep, NetworkStep, ResumeStep, LeaveStep DEF Progress
<1>2. ASSUME NEW w \in Walkers, Response(w)
      PROVE  IInv' /\ [Promise!Next]_(Promise!vars)
    BY <1>2, RefusedStep, TransientStep, TooLargeStep, ResolvedStep, AcceptedStep DEF Response
<1>3. ASSUME NEW w \in Walkers, StartResolve(w)
      PROVE  IInv' /\ [Promise!Next]_(Promise!vars)
    BY <1>3, StartResolveStep
<1>4. ASSUME NEW w \in Walkers, NEW s \in Starts, StartWalk(w, s)
      PROVE  IInv' /\ [Promise!Next]_(Promise!vars)
    BY <1>4, StartWalkStep
<1>5. CASE UNCHANGED vars
  <2>1. IInv'
    BY <1>5 DEF vars, IInv, TypeOK
  <2>2. UNCHANGED Promise!vars
    BY <1>5 DEF vars, Promise!vars
  <2> QED BY <2>1, <2>2
<1> QED BY <1>1, <1>2, <1>3, <1>4, <1>5, AbortStep, CeilingStep DEF Next

-----------------------------------------------------------------------------
(* The invariant of the walks: the posts handed out are the stretch of the *)
(* edge behind the cursor, whatever responses, failures and shutdowns the  *)
(* client met.                                                             *)
THEOREM WalkInvariant == Spec => []IInv
<1>1. Init => IInv
    BY InitInv
<1>2. IInv /\ [Next]_vars => IInv'
    BY NextStep
<1> QED BY <1>1, <1>2, PTL DEF Spec

(* Sizes, cursors, attempts and usage stay in their ranges.                *)
THEOREM TypeCorrect == Spec => []TypeOK
<1>1. IInv => TypeOK
    BY DEF IInv
<1> QED BY <1>1, WalkInvariant, PTL

(* The page size of a walk is at least one and at most what the rejections *)
(* so far leave of the configured size, for every size and every movement  *)
(* of Meta's ceiling.                                                      *)
THEOREM BoundedWaste == Spec => []WasteIsBounded
<1>1. IInv => WasteIsBounded
  <2> SUFFICES ASSUME IInv, NEW w \in Walkers, walk[w].pc \in Active, ~walk[w].resolving
               PROVE  walk[w].size \in 1 .. walk[w].room
    BY DEF WasteIsBounded
  <2>1. WalkOK(walk[w], got[w])
    BY DEF IInv
  <2> QED BY <2>1 DEF WalkOK, RequestOK, LoopOK, PageOK, Stretch, Trying, Active, Sleeps
<1> QED BY <1>1, WalkInvariant, PTL

(* Every pause lasts between a second and five minutes, for any threshold, *)
(* any reported usage and any number of attempts.                          *)
THEOREM BoundedPauses == Spec => []PauseIsBounded
<1>1. IInv => PauseIsBounded
    BY SMT DEF IInv, WalkOK, Pause, PauseIsBounded
<1> QED BY <1>1, WalkInvariant, PTL

(* The client implements EdgeWalk: gapless pages whatever their size, none *)
(* after the cap, and no error that passes for the end of the edge.        *)
THEOREM ClientImplementsWalk == Spec => ImplementsWalk
<1>1. Init => IInv /\ Promise!Init
    BY InitInv
<1>2. IInv /\ [Next]_vars => IInv' /\ [Promise!Next]_(Promise!vars)
    BY NextStep
<1> QED BY <1>1, <1>2, WalkInvariant, PTL DEF Spec, ImplementsWalk, Promise!Spec
=============================================================================
