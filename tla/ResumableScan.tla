--------------------------- MODULE ResumableScan ---------------------------
(***************************************************************************)
(* What the sync_runs row promises to a worker that picks it up after      *)
(* another one died (src/src/api/repositories/SyncRunRepository.ts): a     *)
(* scan of an edge that can stop at any point and go on from its cursor.   *)
(* An edge has one open scan at most; a scan reads ahead of its cursor     *)
(* while it is below its cap, and its cursor passes only what is read and  *)
(* stored.  There are no workers, locks or pages in flight here.           *)
(***************************************************************************)
EXTENDS Naturals

CONSTANTS Scans, Keys,
          Length,    \* posts of an edge
          Cap        \* posts after which a scan reads no more

VARIABLES scan,      \* row of each scan
          fetched,   \* the posts each scan has read
          stored     \* posts that need nothing more, whoever read them

vars == <<scan, fetched, stored>>

Row(k, phase, at, count) == [key |-> k, phase |-> phase, at |-> at, count |-> count]

Init ==
    /\ scan \in [Scans -> {Row(k, "unused", 0, 0) : k \in Keys}]
    /\ fetched = [s \in Scans |-> {}]
    /\ stored = {}

IsOpen(s) == scan[s].phase = "open"
Rivals(s, k) == {q \in Scans \ {s} : scan[q].key = k /\ IsOpen(q)}
Ahead(s, n) == scan[s].at + 1 .. n
Allowed(s, n) ==
    /\ scan[s].at <= n /\ n <= Length
    /\ scan[s].count < Cap

Open(s, k) ==
    /\ scan[s].phase = "unused"
    /\ Rivals(s, k) = {}
    /\ scan' = [scan EXCEPT ![s] = Row(k, "open", 0, 0)]
    /\ UNCHANGED <<fetched, stored>>

Read(s, n) ==
    /\ IsOpen(s) /\ Allowed(s, n)
    /\ fetched' = [fetched EXCEPT ![s] = fetched[s] \cup Ahead(s, n)]
    /\ UNCHANGED <<scan, stored>>

Store(s, i) ==
    /\ IsOpen(s) /\ i \in fetched[s] /\ scan[s].at < i
    /\ stored' = stored \cup {i}
    /\ UNCHANGED <<scan, fetched>>

(* The cursor stays behind when no page follows the last one.              *)
Advance(s, n, to) ==
    /\ IsOpen(s) /\ Allowed(s, n)
    /\ Ahead(s, n) \subseteq fetched[s] \cap stored
    /\ to = n \/ (n = Length /\ to = scan[s].at)
    /\ scan' = [scan EXCEPT ![s] = Row(scan[s].key, "open", to,
                                       scan[s].count + (n - scan[s].at))]
    /\ UNCHANGED <<fetched, stored>>

Complete(s) ==
    /\ IsOpen(s)
    /\ scan[s].count >= Cap \/ 1 .. Length \subseteq fetched[s] \cap stored
    /\ scan' = [scan EXCEPT ![s] = [scan[s] EXCEPT !.phase = "complete"]]
    /\ UNCHANGED <<fetched, stored>>

(* A scan is given up, also one just completed whose bookkeeping fails;    *)
(* but not once the edge has another scan open.                            *)
Abandon(s) ==
    /\ scan[s].phase \in {"open", "complete"}
    /\ Rivals(s, scan[s].key) = {}
    /\ scan' = [scan EXCEPT ![s] = [scan[s] EXCEPT !.phase = "abandoned"]]
    /\ UNCHANGED <<fetched, stored>>

Step(s) ==
    \/ \E k \in Keys : Open(s, k)
    \/ \E n \in 0 .. Length : Read(s, n)
    \/ \E i \in 1 .. Length : Store(s, i)
    \/ \E n, to \in 0 .. Length : Advance(s, n, to)
    \/ Complete(s) \/ Abandon(s)

Next == \E s \in Scans : Step(s)

Spec == Init /\ [][Next]_vars
=============================================================================
