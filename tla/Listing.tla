------------------------------ MODULE Listing ------------------------------
(* GET /hashtags: a client walks the stored posts page by page, newest     *)
(* first, while syncs insert and refresh posts and sweeps mark them stale. *)
(*                                                                         *)
(* listMedia and countMedia are two queries on two connections, so writes  *)
(* may fall between them as well as between two pages.  The unique row of  *)
(* a post's asset adds columns and no rows, and is left out.               *)
EXTENDS Naturals, FiniteSets

CONSTANTS
    Posts,      \* ids of posts: Postgres orders uuids, here naturals
    Published,  \* Published[p]: Meta's time stamp of the post
    TagOf,      \* TagOf[p]: its hashtag
    TypeOf,     \* TypeOf[p]: its media type
    Queries,    \* filters a client may ask for
    MaxLimit,   \* bound on the page size (100 in the schema)
    None        \* a filter or a cursor that is not given, an absent post

ASSUME PostsAssumption == Posts \subseteq Nat /\ IsFiniteSet(Posts)
ASSUME PublishedAssumption == Published \in [Posts -> Nat]
ASSUME LimitAssumption == MaxLimit \in Nat \ {0}
ASSUME NoneAssumption == None \notin Nat

VARIABLES
    tracked,   \* names in the hashtags table
    taken,     \* taken_at of the stored posts
    stale,     \* posts with is_stale
    client,    \* the client's walk and its request in progress
    seen,      \* history variable: posts the client was given in this walk
    steady,    \* history variable: posts that matched since the walk began
    quiet      \* history variable: nothing was written since then

vars == <<tracked, taken, stale, client, seen, steady, quiet>>

Stored == {p \in Posts : taken[p] # None}
Tags == {TagOf[p] : p \in Posts}

(* Every filter is optional; includeStale has a default.                   *)
Query == [tag : Tags \cup {None}, type : {TypeOf[p] : p \in Posts} \cup {None},
          after : Nat \cup {None}, before : Nat \cup {None}, includeStale : BOOLEAN]

Cursor == [takenAt : Nat, id : Posts]

ASSUME QueriesAssumption == Queries \subseteq Query
ASSUME NullAssumption == None \notin Query /\ None \notin Cursor

IdleClient == [pc |-> "idle", query |-> None, cursor |-> None, limit |-> 0,
               rows |-> {}, more |-> FALSE, listed |-> FALSE, total |-> None]

Init ==
    /\ tracked = {}
    /\ taken = [p \in Posts |-> None]
    /\ stale = {}
    /\ client = IdleClient
    /\ seen = {}
    /\ steady = {}
    /\ quiet = TRUE

----------------------------------------------------------------------------
(* listMedia and countMedia                                                *)

(* The filters both queries use.                                           *)
MatchesBasics(q, p) ==
    /\ q.tag # None => TagOf[p] = q.tag
    /\ q.type # None => TypeOf[p] = q.type
    /\ ~q.includeStale => p \notin stale

(* Both ends of the window are inclusive.                                  *)
InWindow(q, p) ==
    /\ q.after # None => taken[p] >= q.after
    /\ q.before # None => taken[p] <= q.before

Matching(q) == {p \in Stored : MatchesBasics(q, p) /\ InWindow(q, p)}

(* mutant: taken_at < cursor, as the comment warns.                        *)
StrictlyOlder(c, p) == c = None \/ taken[p] < c.takenAt

(* mutant: the last row of a page is the first of the next.                *)
FromCursor(c, p) ==
    c = None \/ taken[p] < c.takenAt \/ (taken[p] = c.takenAt /\ p <= c.id)

(* The keyset predicate: strictly after the cursor in descending order.    *)
AfterCursor(c, p) ==
    \/ c = None
    \/ taken[p] < c.takenAt
    \/ taken[p] = c.takenAt /\ p < c.id

(* Post p comes before post r in (taken_at DESC, id DESC).                 *)
Before(p, r) == taken[p] > taken[r] \/ (taken[p] = taken[r] /\ p > r)

(* ORDER BY ... LIMIT n *)
First(n, S) == {p \in S : Cardinality({r \in S : Before(r, p)}) < n}

HasMore(S, limit) == Cardinality(First(limit + 1, S)) > limit

(* encodeCursor of the last row; decodeCursor gives back what it held,     *)
(* since taken_at has no finer part than the milliseconds of the encoding. *)
CursorOf(rows) ==
    LET p == CHOOSE p \in rows : \A r \in rows : r = p \/ Before(r, p)
    IN  [takenAt |-> taken[p], id |-> p]

----------------------------------------------------------------------------
(* The client and the handler                                              *)

Open(q) ==
    /\ client.pc \in {"idle", "end"}
    /\ client' = [IdleClient EXCEPT !.pc = "ask", !.query = q]
    /\ seen' = {}
    /\ steady' = Matching(q)
    /\ quiet' = TRUE
    /\ UNCHANGED <<tracked, taken, stale>>

(* A request arrives; a hashtag that is not tracked is answered with 404.  *)
Ask(limit) ==
    /\ client.pc = "ask"
    /\ client' = IF client.query.tag \in tracked \cup {None}
                 THEN [client EXCEPT !.pc = "query", !.limit = limit, !.rows = {},
                                     !.more = FALSE, !.listed = FALSE, !.total = None]
                 ELSE IdleClient
    /\ UNCHANGED <<tracked, taken, stale, seen, steady, quiet>>

(* The rows in descending order; the client remembers the cursor.          *)
List ==
    LET S == {p \in Matching(client.query) : AfterCursor(client.cursor, p)}
        rows == First(client.limit, S)
        more == HasMore(S, client.limit)
    IN  /\ client.pc = "query" /\ ~client.listed
        /\ client' = [client EXCEPT !.listed = TRUE, !.rows = rows, !.more = more,
                        !.cursor = IF more /\ rows # {} THEN CursorOf(rows) ELSE None]
        /\ UNCHANGED <<tracked, taken, stale, seen, steady, quiet>>

(* mutant: the count takes no filter.                                      *)
CountAll ==
    /\ client.pc = "query" /\ client.total = None
    /\ client' = [client EXCEPT !.total = Cardinality(Stored)]
    /\ UNCHANGED <<tracked, taken, stale, seen, steady, quiet>>

(* The date window is not among the filters of the count.                  *)
Count ==
    /\ client.pc = "query" /\ client.total = None
    /\ client' = [client EXCEPT !.total =
                    Cardinality({p \in Stored : MatchesBasics(client.query, p)})]
    /\ UNCHANGED <<tracked, taken, stale, seen, steady, quiet>>

(* The client goes on until nextCursor is null.                            *)
Respond ==
    /\ client.pc = "query" /\ client.listed /\ client.total # None
    /\ seen' = seen \cup client.rows
    /\ client' = [client EXCEPT !.pc = IF client.cursor = None THEN "end" ELSE "ask"]
    /\ UNCHANGED <<tracked, taken, stale, steady, quiet>>

----------------------------------------------------------------------------
(* Writers *)

Write ==
    /\ quiet' = FALSE
    /\ steady' = IF client.query = None THEN steady
                 ELSE steady \cap {p \in Posts : /\ taken'[p] # None
                                                 /\ p \in stale' => client.query.includeStale}
    /\ UNCHANGED <<client, seen>>

Track(t) ==
    /\ tracked' = tracked \cup {t}
    /\ UNCHANGED <<taken, stale, client, seen, steady, quiet>>

(* mutant: a refreshed post moves to another time.                         *)
StampNow(p) == IF taken[p] = None THEN Published[p] ELSE taken[p] - 1

(* taken_at is written when the post is inserted and not refreshed.        *)
Stamp(p) == IF taken[p] = None THEN Published[p] ELSE taken[p]

(* upsertMedia inserts or refreshes a post of a tracked hashtag.           *)
Upsert(p) ==
    /\ TagOf[p] \in tracked
    /\ taken' = [taken EXCEPT ![p] = Stamp(p)]
    /\ stale' = stale \ {p}
    /\ Write
    /\ UNCHANGED tracked

(* markStaleBefore flags some stored posts.                                *)
MarkStale(S) ==
    /\ S \subseteq Stored \ stale
    /\ stale' = stale \cup S
    /\ UNCHANGED <<tracked, taken>>
    /\ Write

ClientStep == (\E n \in 1 .. MaxLimit : Ask(n)) \/ List \/ Count \/ Respond

Next ==
    \/ \E q \in Queries : Open(q)
    \/ ClientStep
    \/ \E t \in Tags : Track(t)
    \/ \E p \in Posts : Upsert(p)
    \/ \E S \in SUBSET Stored : MarkStale(S)

Spec == Init /\ [][Next]_vars

(* The client keeps asking and the database answers.                       *)
FairSpec == Spec /\ WF_vars(ClientStep)

----------------------------------------------------------------------------
ClientState ==
    [pc : {"idle", "ask", "query", "end"}, query : Query \cup {None},
     cursor : Cursor \cup {None}, limit : 0 .. MaxLimit, rows : SUBSET Posts,
     more : BOOLEAN, listed : BOOLEAN, total : Nat \cup {None}]

(* The type invariant; what was listed is never deleted.                   *)
TypeOK ==
    /\ tracked \subseteq Tags
    /\ taken \in [Posts -> Nat \cup {None}]
    /\ stale \subseteq Stored
    /\ client \in ClientState /\ client.rows \subseteq Stored
    /\ seen \subseteq Stored /\ steady \subseteq Posts
    /\ quiet \in BOOLEAN

(* No page repeats a post of an earlier page or reaches back before one:   *)
(* over the whole walk the order is strictly descending, whatever is       *)
(* inserted, refreshed or marked stale meanwhile.                          *)
DescendingWithoutRepeats ==
    [][\A p \in seen, r \in client'.rows :
          client'.listed /\ ~client.listed => Before(p, r)]_vars

(* A client that followed the cursors to the end was given every post that *)
(* matched its query all the while, ties in taken_at included.             *)
WalkIsComplete == client.pc = "end" => steady \subseteq seen

(* The total reported with the last page of an undisturbed walk without a  *)
(* date window is the number of posts the walk listed.                     *)
TotalIsExact ==
    client.pc = "end" /\ quiet /\ client.query.after = None /\ client.query.before = None
        => client.total = Cardinality(seen)

(* The walk ends, also while posts keep arriving and changing.             *)
WalkEnds == client.pc = "ask" ~> client.pc \in {"idle", "end"}
=============================================================================
