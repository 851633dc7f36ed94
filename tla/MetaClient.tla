----------------------------- MODULE MetaClient -----------------------------
(* MetaGraphClient: walks over one media edge by the concurrent syncs of a *)
(* process, which share the learned page size and the last usage report.   *)
(*                                                                         *)
(* The edge lists the posts 1 .. FeedLen, and the cursor after post c is   *)
(* c.  Meta rejects pages above a ceiling that moves.  A step runs up to   *)
(* the next await: a sleep, the response, or the caller between two pages. *)
EXTENDS Integers

CONSTANTS
    Walkers,      \* syncs that may run at once
    FeedLen,
    Starts,       \* cursors a caller may resume from
    MaxItems,     \* the caller's cap
    PageSize,     \* SYNC_PAGE_SIZE
    MaxPage,      \* bound: posts Meta returns at once, whatever it was asked for
    MaxAttempts,  \* attempts of one request
    Ceilings,     \* page sizes Meta may insist on; 0 rejects every page
    Reports,      \* sets of usage entries [pct, regain] that headers may hold
    Threshold,    \* META_THROTTLE_THRESHOLD_PCT
    None          \* no usage header seen, no size learned

ASSUME SizesAssumption ==
    /\ FeedLen \in Nat /\ Starts \subseteq 0 .. FeedLen /\ MaxItems \in Nat \ {0}
    /\ {PageSize, MaxPage} \subseteq Nat \ {0} /\ MaxAttempts \in Nat \ {0}
    /\ Ceilings \subseteq Nat
ASSUME UsageAssumption ==
    /\ \A r \in Reports : r \subseteq [pct : 0 .. 100, regain : Nat]
    /\ \A r \in Reports \ {{}} : \E d, e \in r : \A f \in r :
          f.pct <= d.pct /\ f.regain <= e.regain
    /\ Threshold \in 1 .. 100
ASSUME NoneAssumption == None \notin Nat \cup [pct : 0 .. 100, regain : Nat]

VARIABLES
    walk,           \* the locals of each walker and where it waits
    learned,        \* learnedPageSize of the edge
    lastRateLimit,  \* usage in the most recent response that reported any
    ceiling,        \* the page size Meta insists on now
    aborted,        \* the worker's shutdown signal
    got             \* history variable: posts yielded to the walker's caller

vars == <<walk, learned, lastRateLimit, ceiling, aborted, got>>

Sleeps == {"preSleep", "backoff", "pageSleep"}
Active == Sleeps \cup {"flight", "page"}

(* room is a history variable: PageSize, halved at every rejection.        *)
IdleWalk == [pc |-> "idle", resolving |-> FALSE, start |-> 0, size |-> 0,
             limit |-> 0, cursor |-> 0, next |-> 0, yielded |-> 0, last |-> FALSE,
             attempt |-> 0, usage |-> None, nap |-> 0, room |-> PageSize]

Init ==
    /\ walk = [w \in Walkers |-> IdleWalk]
    /\ learned = None
    /\ lastRateLimit = None
    /\ ceiling \in Ceilings
    /\ aborted = FALSE
    /\ got = [w \in Walkers |-> {}]

Min2(a, b) == IF a < b THEN a ELSE b
Max2(a, b) == IF a < b THEN b ELSE a

----------------------------------------------------------------------------
(* rateLimit.ts                                                            *)

(* The worst of all entries in both headers, or nothing.                   *)
ParseRateLimitHeaders(entries) ==
    IF entries = {} THEN None
    ELSE LET worst == CHOOSE e \in entries : \A f \in entries : f.pct <= e.pct
             regain == CHOOSE e \in entries : \A f \in entries : f.regain <= e.regain
         IN  [pct |-> worst.pct, regain |-> regain.regain]

(* A pause in milliseconds: Meta's own estimate up to five minutes, or a   *)
(* ramp from one second at the threshold to thirty at 100 %, rounded.      *)
ThrottleDelay(usage) ==
    IF usage = None THEN 0
    ELSE IF usage.regain > 0 THEN Min2(usage.regain * 60000, 5 * 60000)
    ELSE IF usage.pct < Threshold THEN 0
    ELSE LET span == Max2(100 - Threshold, 1)
         IN  1000 + ((usage.pct - Threshold) * 29000 * 2 + span) \div (2 * span)

(* The longest exponential backoff, jitter included: 15 s from the fifth   *)
(* attempt on.                                                             *)
Backoff(attempt) == (IF attempt < 5 THEN 1000 * 2 ^ (attempt - 1) ELSE 15000) + 499

(* Throttling needs a longer pause than a transient error.                 *)
ThrottledBackoff(attempt) == Max2(4 * Backoff(attempt), 5000)

----------------------------------------------------------------------------
(* The locals are gone when the generator ends.                            *)
Ended(V, pc) == [IdleWalk EXCEPT !.pc = pc, !.start = V.start]

(* An error is thrown to the caller; resolveHashtagId's caller has nothing *)
(* to clean up.                                                            *)
Throw(V) == IF V.resolving THEN IdleWalk ELSE Ended(V, "failed")

(* mutant: the attempts are not counted.                                   *)
RetryForEver(V, nap) == [V EXCEPT !.pc = "backoff", !.nap = nap, !.attempt = 0]

Retry(V, nap) ==
    IF V.attempt = MaxAttempts THEN Throw(V)
    ELSE [V EXCEPT !.pc = "backoff", !.nap = nap]

(* With an aborted signal fetch rejects at once, which request takes for a *)
(* network failure; nothing is sent.                                       *)
Send(V) ==
    IF aborted THEN Retry(V, Backoff(V.attempt))
    ELSE [V EXCEPT !.pc = "flight", !.nap = 0]

(* An attempt of request: the usage the process saw last holds it back.    *)
Try(V, usage) ==
    IF ThrottleDelay(usage) > 0
    THEN [V EXCEPT !.pc = "preSleep", !.nap = ThrottleDelay(usage)]
    ELSE Send(V)

(* The top of paginateMedia's loop.                                        *)
Loop(V, usage) ==
    IF V.yielded < MaxItems
    THEN Try([V EXCEPT !.attempt = 1, !.limit = Min2(V.size, MaxItems - V.yielded)],
             usage)
    ELSE Ended(V, "done")

(* mutant: only ever smaller, a learned size is never probed upwards.      *)
LearnedSize == IF learned = None THEN PageSize ELSE Min2(PageSize, learned)

(* mutant: the probe ignores the configured size.                          *)
UncappedSize == IF learned = None THEN PageSize ELSE 2 * learned

FirstSize == IF learned = None THEN PageSize ELSE Min2(PageSize, 2 * learned)

StartWalk(w, s) ==
    /\ walk[w].pc = "idle"
    /\ walk' = [walk EXCEPT ![w] =
                  Loop([IdleWalk EXCEPT !.start = s, !.cursor = s, !.size = FirstSize],
                       lastRateLimit)]
    /\ UNCHANGED <<learned, lastRateLimit, ceiling, aborted, got>>

StartResolve(w) ==
    /\ walk[w].pc = "idle"
    /\ walk' = [walk EXCEPT ![w] =
                  Try([IdleWalk EXCEPT !.resolving = TRUE, !.attempt = 1], lastRateLimit)]
    /\ UNCHANGED <<learned, lastRateLimit, ceiling, aborted, got>>

Wake(w) ==
    LET V == walk[w]
    IN  /\ \/ V.pc = "preSleep" /\ walk' = [walk EXCEPT ![w] = Send(V)]
           \/ /\ V.pc = "backoff"
              /\ walk' = [walk EXCEPT ![w] = Try([V EXCEPT !.attempt = @ + 1], lastRateLimit)]
           \/ V.pc = "pageSleep" /\ walk' = [walk EXCEPT ![w] = Loop(V, lastRateLimit)]
        /\ UNCHANGED <<learned, lastRateLimit, ceiling, aborted, got>>

(* No response: the network, the request timeout, or the shutdown signal.  *)
NetworkFails(w) ==
    /\ walk[w].pc = "flight"
    /\ walk' = [walk EXCEPT ![w] = Retry(@, Backoff(@.attempt))]
    /\ UNCHANGED <<learned, lastRateLimit, ceiling, aborted, got>>

(* The usage known after a response with these headers.                    *)
Report(entries) ==
    IF entries = {} THEN lastRateLimit ELSE ParseRateLimitHeaders(entries)

(* The body cannot be read, which is not retried; or an answer that is     *)
(* terminal: the token was rejected, the request was wrong, an HTTP error  *)
(* that is not retryable, a shape the schema refuses, an unknown hashtag.  *)
Refused(w, entries) ==
    /\ walk[w].pc = "flight"
    /\ lastRateLimit' = Report(entries)
    /\ walk' = [walk EXCEPT ![w] = Throw(@)]
    /\ UNCHANGED <<learned, ceiling, aborted, got>>

(* Invalid JSON, a retryable status with or without an error envelope, or  *)
(* a throttled call.                                                       *)
Transient(w, entries) ==
    /\ walk[w].pc = "flight"
    /\ ~aborted
    /\ lastRateLimit' = Report(entries)
    /\ \E nap \in {Backoff(walk[w].attempt), ThrottledBackoff(walk[w].attempt)} :
          walk' = [walk EXCEPT ![w] = Retry(@, nap)]
    /\ UNCHANGED <<learned, ceiling, aborted, got>>

Halved(V) == [V EXCEPT !.size = Max2(1, V.limit \div 2), !.room = @ \div 2]

(* "Reduce the amount of data": the same cursor with half the page, until  *)
(* a single post is refused.                                               *)
TooLarge(w, entries) ==
    /\ walk[w].pc = "flight"
    /\ ~aborted /\ ~walk[w].resolving
    /\ walk[w].limit > ceiling
    /\ lastRateLimit' = Report(entries)
    /\ walk' = [walk EXCEPT ![w] = IF @.limit > 1 THEN Loop(Halved(@), Report(entries))
                                   ELSE Throw(@)]
    /\ UNCHANGED <<learned, ceiling, aborted, got>>

Resolved(w, entries) ==
    /\ walk[w].pc = "flight"
    /\ ~aborted /\ walk[w].resolving
    /\ lastRateLimit' = Report(entries)
    /\ walk' = [walk EXCEPT ![w] = IdleWalk]
    /\ UNCHANGED <<learned, ceiling, aborted, got>>

(* mutant: a short page is taken for the last one.                         *)
EndsAtShortPage(V, n, next) == ~next \/ n < V.limit

(* The generator returns after a page without successor or without posts.  *)
Ends(V, n, next) == ~next \/ n = 0

(* A page of n posts is yielded, be it more than was asked for.  Meta      *)
(* announces a successor unless the edge ends here, and may announce one   *)
(* even then; it may also return no posts, wherever the walk is.           *)
Accepted(w, n, next, entries) ==
    LET V == walk[w]
    IN  /\ V.pc = "flight"
        /\ ~aborted /\ ~V.resolving
        /\ V.limit <= ceiling
        /\ V.cursor + n <= FeedLen
        /\ V.cursor + n < FeedLen => next
        /\ lastRateLimit' = Report(entries)
        /\ learned' = V.size
        /\ walk' = [walk EXCEPT ![w] =
                      [V EXCEPT !.pc = "page", !.next = V.cursor + n, !.attempt = 0,
                                !.yielded = @ + n, !.last = Ends(V, n, next), !.limit = 0,
                                !.usage = ParseRateLimitHeaders(entries)]]
        /\ got' = [got EXCEPT ![w] = @ \cup (V.cursor + 1 .. V.cursor + n)]
        /\ UNCHANGED <<ceiling, aborted>>

(* The caller asks for the next page.                                      *)
Resume(w) ==
    LET V == walk[w]
        delay == ThrottleDelay(V.usage)
        moved == [V EXCEPT !.cursor = V.next, !.next = 0, !.usage = None]
    IN  /\ V.pc = "page"
        /\ walk' = [walk EXCEPT ![w] =
                      IF V.last THEN Ended(V, "done")
                      ELSE IF delay > 0 THEN [moved EXCEPT !.pc = "pageSleep", !.nap = delay]
                      ELSE Loop(moved, lastRateLimit)]
        /\ UNCHANGED <<learned, lastRateLimit, ceiling, aborted, got>>

(* The caller has the result, or fails over a page and closes the          *)
(* generator.                                                              *)
Leave(w) ==
    /\ walk[w].pc \in {"page", "done", "failed"}
    /\ walk' = [walk EXCEPT ![w] = IdleWalk]
    /\ got' = [got EXCEPT ![w] = {}]
    /\ UNCHANGED <<learned, lastRateLimit, ceiling, aborted>>

(* The worker shuts down.  Only a sleep that has begun notices: a later    *)
(* one adds its listener to a signal that will not fire again.             *)
Abort ==
    /\ ~aborted
    /\ aborted' = TRUE
    /\ walk' = [w \in Walkers |-> IF walk[w].pc \in Sleeps THEN Throw(walk[w])
                                  ELSE walk[w]]
    /\ UNCHANGED <<learned, lastRateLimit, ceiling, got>>

CeilingMoves ==
    /\ ceiling' \in Ceilings
    /\ UNCHANGED <<walk, learned, lastRateLimit, aborted, got>>

Response(w) ==
    \E entries \in Reports :
        \/ Refused(w, entries) \/ Transient(w, entries) \/ TooLarge(w, entries)
        \/ Resolved(w, entries)
        \/ \E n \in 0 .. MaxPage, next \in BOOLEAN : Accepted(w, n, next, entries)

(* What happens of itself: a timer fires, the request times out, the       *)
(* caller is done with what it was given.                                  *)
Progress(w) == Wake(w) \/ NetworkFails(w) \/ Resume(w) \/ Leave(w)

Next ==
    \/ \E w \in Walkers : Progress(w) \/ Response(w) \/ StartResolve(w)
    \/ \E w \in Walkers, s \in Starts : StartWalk(w, s)
    \/ Abort \/ CeilingMoves

Spec == Init /\ [][Next]_vars

(* Every request has a timeout, so no walker waits in one for ever.        *)
FairSpec == Spec /\ \A w \in Walkers : WF_vars(Progress(w))
----------------------------------------------------------------------------
Usage == [pct : 0 .. 100, regain : Nat] \cup {None}

WalkState ==
    [pc : Active \cup {"idle", "done", "failed"}, resolving : BOOLEAN,
     start : 0 .. FeedLen, size : 0 .. PageSize, limit : 0 .. PageSize,
     cursor : 0 .. FeedLen, next : 0 .. FeedLen, yielded : 0 .. FeedLen,
     last : BOOLEAN, attempt : 0 .. MaxAttempts, usage : Usage,
     nap : Nat, room : 0 .. PageSize]

(* The type invariant, with the bounds on sizes, cursors and attempts.     *)
TypeOK ==
    /\ walk \in [Walkers -> WalkState]
    /\ learned \in 1 .. PageSize \cup {None}
    /\ lastRateLimit \in Usage
    /\ ceiling \in Ceilings
    /\ aborted \in BOOLEAN
    /\ got \in [Walkers -> SUBSET (1 .. FeedLen)]

(* However Meta's ceiling moves and whatever size other syncs leave        *)
(* behind, each rejection of a walk at least halves its page size, so a    *)
(* whole walk wastes at most log2(PageSize) calls on negotiation: room,    *)
(* halved by each, never falls below the size, nor the size below one.     *)
WasteIsBounded ==
    \A w \in Walkers : walk[w].pc \in Active /\ ~walk[w].resolving =>
        walk[w].size \in 1 .. walk[w].room

(* No pause lasts longer than five minutes, whatever Meta reports within   *)
(* 0 .. 100 %, and none that throttling asks for is shorter than a second. *)
PauseIsBounded ==
    \A w \in Walkers : walk[w].pc \in Sleeps =>
        1000 <= walk[w].nap /\ walk[w].nap <= 5 * 60000

PhaseOf(V) ==
    IF V.pc = "idle" \/ V.resolving THEN "idle"
    ELSE IF V.pc = "page" /\ V.last THEN "ending"
    ELSE IF V.pc \in Active THEN "walking"
    ELSE V.pc

Promise == INSTANCE EdgeWalk WITH
        phase <- [w \in Walkers |-> PhaseOf(walk[w])],
        start <- [w \in Walkers |-> walk[w].start],
        got <- got

(* Through retries, halved pages, short and oversized pages and shutdown,  *)
(* every walk yields a gapless stretch of the edge, asks for no further    *)
(* page once the cap is reached, and ends normally only there, at the end  *)
(* of the edge or on an empty page: no error, the rejected token least of  *)
(* all, ever passes for the end of the edge.                               *)
ImplementsWalk == Promise!Spec

(* Every call of the client ends, by a result or by an error, also when    *)
(* Meta keeps failing or moves its ceiling, and also after a shutdown that *)
(* its pauses did not notice.                                              *)
EveryWalkEnds ==
    \A w \in Walkers : walk[w].pc # "idle" ~> walk[w].pc = "idle"

(* Once Meta accepts full pages again and pages keep arriving, the learned *)
(* size is back at the configured one for good, although slow walks that   *)
(* began earlier write their smaller size over it.                         *)
ThroughputRecovers ==
    (/\ <>[](ceiling >= PageSize)
     /\ []<>(\E w \in Walkers : walk[w].pc = "page"))
        => <>[](learned = PageSize)
=============================================================================
