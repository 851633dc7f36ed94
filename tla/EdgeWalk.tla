------------------------------ MODULE EdgeWalk ------------------------------
(* What paginateMedia promises its caller: the posts of an edge, page by   *)
(* page and without a gap, from the resume point on.  It ends normally     *)
(* only at the cap, at the end of the edge or after a page without posts,  *)
(* which it takes for the end.  Anything else is an error.                 *)
EXTENDS Integers

CONSTANTS Walkers, FeedLen, MaxItems

VARIABLES
    phase,  \* "idle", "walking", "ending", "done" or "failed"
    start,  \* the resume point: posts 1 .. start are not asked for
    got     \* the posts handed to the caller

vars == <<phase, start, got>>

Init ==
    /\ phase = [w \in Walkers |-> "idle"]
    /\ start = [w \in Walkers |-> 0]
    /\ got = [w \in Walkers |-> {}]

(* The walk from cursor s begins, or fails at once. *)
Start(w, s, p) ==
    /\ phase[w] = "idle"
    /\ phase' = [phase EXCEPT ![w] = p]
    /\ start' = [start EXCEPT ![w] = s]
    /\ UNCHANGED got

(* The caller has k more posts than the resume point, fewer than the cap,   *)
(* and gets all up to m; p tells whether this page is the last.             *)
Page(w, k, m, p) ==
    /\ phase[w] = "walking"
    /\ got[w] = start[w] + 1 .. start[w] + k
    /\ k < MaxItems /\ k <= m /\ start[w] + m <= FeedLen
    /\ p = "ending" => m = k \/ start[w] + m = FeedLen
    /\ got' = [got EXCEPT ![w] = start[w] + 1 .. start[w] + m]
    /\ phase' = [phase EXCEPT ![w] = p]
    /\ UNCHANGED start

Capped(w) == start[w] + 1 .. start[w] + MaxItems \subseteq got[w]

Finish(w) ==
    /\ phase[w] = "ending" \/ (phase[w] = "walking" /\ Capped(w))
    /\ phase' = [phase EXCEPT ![w] = "done"]
    /\ UNCHANGED <<start, got>>

Fail(w) ==
    /\ phase[w] = "walking"
    /\ phase' = [phase EXCEPT ![w] = "failed"]
    /\ UNCHANGED <<start, got>>

(* The caller has seen the end, or abandons the walk. *)
Leave(w) ==
    /\ phase[w] # "idle"
    /\ phase' = [phase EXCEPT ![w] = "idle"]
    /\ start' = [start EXCEPT ![w] = 0]
    /\ got' = [got EXCEPT ![w] = {}]

Step(w) ==
    \/ \E s \in 0 .. FeedLen, p \in {"walking", "failed"} : Start(w, s, p)
    \/ \E k, m \in 0 .. FeedLen, p \in {"walking", "ending"} : Page(w, k, m, p)
    \/ Finish(w) \/ Fail(w) \/ Leave(w)

(* An abort fails several walks at once. *)
Abort ==
    /\ \E F \in SUBSET {w \in Walkers : phase[w] = "walking"} :
          phase' = [w \in Walkers |-> IF w \in F THEN "failed" ELSE phase[w]]
    /\ UNCHANGED <<start, got>>

Next == (\E w \in Walkers : Step(w)) \/ Abort

Spec == Init /\ [][Next]_vars
=============================================================================
