--------------------------- MODULE Listing_proofs ---------------------------
(***************************************************************************)
(* The keyset pagination is correct for any set of posts, any ties in      *)
(* their times, any filters, page sizes and interleaved writes.            *)
(***************************************************************************)
EXTENDS Listing, FiniteSetTheorems, TLAPS

(* A walk in progress, before and after the rows of a request are read.    *)
Asking == client.pc = "ask" \/ (client.pc = "query" /\ ~client.listed)
Listed == client.pc = "query" /\ client.listed

(* A post at the cursor or before it.                                      *)
Passed(c, p) == taken[p] > c.takenAt \/ (taken[p] = c.takenAt /\ p >= c.id)

(* Everything given out is behind the cursor, and what matched all the     *)
(* while was given out or lies ahead.                                      *)
AskingInv ==
    /\ client.cursor = None => seen = {}
    /\ client.cursor # None => \A p \in seen : Passed(client.cursor, p)
    /\ \A p \in steady \ seen : AfterCursor(client.cursor, p)

ListedInv ==
    /\ client.cursor # None => \A p \in seen \cup client.rows : Passed(client.cursor, p)
    /\ \A p \in steady \ (seen \cup client.rows) :
          client.cursor # None /\ AfterCursor(client.cursor, p)

Counted(q) == {p \in Stored : MatchesBasics(q, p)}

(* The filters of the two queries on the walk's posts.                     *)
QuietInv ==
    /\ steady = Matching(client.query)
    /\ seen \subseteq Matching(client.query)
    /\ Listed => client.rows \subseteq Matching(client.query)
    /\ client.total # None => client.total = Cardinality(Counted(client.query))

IInv ==
    /\ TypeOK
    /\ client.pc # "idle" => client.query # None /\ steady \subseteq Matching(client.query)
    /\ client.pc = "query" => client.limit >= 1
    /\ Asking => AskingInv
    /\ Listed => ListedInv
    /\ client.pc = "end" => steady \subseteq seen /\ client.total # None
    /\ client.pc # "idle" /\ quiet => QuietInv

-----------------------------------------------------------------------------
(***************************************************************************)
(* The order of the rows.  S stands for the rows a query selects.          *)
(***************************************************************************)
Ahead(S, p) == {r \in S : Before(r, p)}

LEMMA StoredType ==
    ASSUME TypeOK, NEW p \in Stored
    PROVE  p \in Posts /\ p \in Nat /\ taken[p] \in Nat
BY PostsAssumption DEF TypeOK, Stored

LEMMA BeforeOrder ==
    ASSUME TypeOK, NEW p \in Stored, NEW q \in Stored, NEW r \in Stored
    PROVE  /\ ~Before(p, p)
           /\ Before(p, q) /\ Before(q, r) => Before(p, r)
           /\ p = q \/ Before(p, q) \/ Before(q, p)
BY StoredType DEF Before

LEMMA FiniteRows ==
    ASSUME NEW S \in SUBSET Posts
    PROVE  IsFiniteSet(S) /\ Cardinality(S) \in Nat
BY PostsAssumption, FS_Subset, FS_CardinalityType

(* An earlier row has fewer rows ahead of it.                              *)
LEMMA RankGrows ==
    ASSUME TypeOK, NEW S \in SUBSET Stored, NEW p \in S, NEW q \in S, Before(p, q)
    PROVE  Cardinality(Ahead(S, p)) < Cardinality(Ahead(S, q))
<1>1. Ahead(S, p) \in SUBSET Ahead(S, q) /\ Ahead(S, q) \in SUBSET Posts
    BY BeforeOrder DEF Ahead, Stored
<1>2. Ahead(S, p) # Ahead(S, q)
    BY BeforeOrder DEF Ahead
<1>3. IsFiniteSet(Ahead(S, q)) /\ Cardinality(Ahead(S, q)) \in Nat
    BY <1>1, FiniteRows
<1>4. Cardinality(Ahead(S, p)) \in Nat
    BY <1>1, FiniteRows
<1> QED BY <1>1, <1>2, <1>3, <1>4, FS_Subset

(* A function to the naturals has a least value.                           *)
LEMMA LeastValue ==
    ASSUME NEW T, T # {}, NEW f \in [T -> Nat]
    PROVE  \E x \in T : \A y \in T : f[x] <= f[y]
<1> DEFINE V == {f[x] : x \in T}
<1>1. V \subseteq Nat /\ V # {}
    OBVIOUS
<1>2. \E n \in V : \A m \in V : ~(<<m, n>> \in OpToRel(<, Nat))
    BY <1>1, NatLessThanWellFounded, WFMin
<1>3. PICK n \in V : \A m \in V : ~(m < n)
    BY <1>1, <1>2 DEF OpToRel
<1>4. PICK x \in T : n = f[x]
    OBVIOUS
<1>5. ASSUME NEW y \in T PROVE f[x] <= f[y]
  <2>1. f[y] \in V /\ f[y] \in Nat /\ f[x] \in Nat
    OBVIOUS
  <2>2. ~(f[y] < f[x])
    BY <1>3, <1>4, <2>1
  <2> QED BY <2>1, <2>2
<1> QED BY <1>5

(* Among any rows one comes first and one last.                            *)
LEMMA FirstRow ==
    ASSUME TypeOK, NEW S \in SUBSET Stored, S # {}
    PROVE  \E p \in S : \A r \in S : r = p \/ Before(p, r)
<1> DEFINE f == [x \in S |-> Cardinality(Ahead(S, x))]
<1>1. \A x \in S : Ahead(S, x) \in SUBSET Posts
    BY DEF Ahead, Stored
<1>2. f \in [S -> Nat]
    BY <1>1, FiniteRows
<1>3. PICK x \in S : \A y \in S : f[x] <= f[y]
    BY <1>2, LeastValue
<1>4. \A r \in S : ~Before(r, x)
    BY <1>2, <1>3, RankGrows
<1> QED BY <1>4, BeforeOrder

LEMMA LastRow ==
    ASSUME TypeOK, NEW S \in SUBSET Stored, S # {}
    PROVE  \E p \in S : \A r \in S : r = p \/ Before(r, p)
<1> DEFINE Behind(x) == {r \in S : Before(x, r)}
           f == [x \in S |-> Cardinality(Behind(x))]
<1>1. \A x \in S : Behind(x) \in SUBSET Posts
    BY DEF Stored
<1>2. f \in [S -> Nat]
    BY <1>1, FiniteRows
<1>3. PICK x \in S : \A y \in S : f[x] <= f[y]
    BY <1>2, LeastValue
<1>4. ASSUME NEW r \in S, Before(x, r) PROVE FALSE
  <2>1. Behind(r) \in SUBSET Behind(x)
    BY <1>4, BeforeOrder
  <2>2. Behind(r) # Behind(x)
    BY <1>4, BeforeOrder
  <2>3. IsFiniteSet(Behind(x)) /\ Cardinality(Behind(x)) \in Nat /\ Cardinality(Behind(r)) \in Nat
    BY <1>1, FiniteRows
  <2>4. Cardinality(Behind(r)) < Cardinality(Behind(x))
    BY <2>1, <2>2, <2>3, FS_Subset
  <2> QED BY <1>3, <2>3, <2>4
<1> QED BY <1>4, BeforeOrder

(* When a row does not fit, the page is not empty, there is more, and the  *)
(* last row of the page comes before it.                                   *)
LEMMA RowsLeftOver ==
    ASSUME TypeOK, NEW S \in SUBSET Stored, NEW n \in Nat \ {0},
           NEW p \in S \ First(n, S)
    PROVE  /\ First(n, S) # {}
           /\ HasMore(S, n)
           /\ \A l \in First(n, S) : Before(l, p)
<1>1. \A x \in S : Ahead(S, x) \in SUBSET Posts /\ Cardinality(Ahead(S, x)) \in Nat
  <2>1. \A x \in S : Ahead(S, x) \in SUBSET Posts
    BY DEF Ahead, Stored
  <2> QED BY <2>1, FiniteRows
<1>2. \A k \in Nat : First(k, S) = {x \in S : Cardinality(Ahead(S, x)) < k}
    BY DEF First, Ahead
<1>3. First(n, S) # {}
  <2>1. PICK x \in S : \A r \in S : r = x \/ Before(x, r)
    BY FirstRow
  <2>2. Ahead(S, x) = {}
    BY <2>1, BeforeOrder DEF Ahead
  <2>3. Cardinality(Ahead(S, x)) = 0
    BY <2>2, FS_EmptySet
  <2> QED BY <1>2, <2>3
<1>4. ASSUME NEW l \in First(n, S) PROVE Before(l, p)
  <2>1. l \in S /\ Cardinality(Ahead(S, l)) < n /\ ~(Cardinality(Ahead(S, p)) < n)
    BY <1>2
  <2>2. l # p
    OBVIOUS
  <2>3. ~Before(p, l)
    BY <1>1, <2>1, RankGrows
  <2> QED BY <2>1, <2>2, <2>3, BeforeOrder
<1>5. HasMore(S, n)
  <2> DEFINE P == First(n + 1, S)
             rest == S \ P
  <2>1. P \in SUBSET Posts /\ IsFiniteSet(P) /\ Cardinality(P) \in Nat
    <3>1. P \in SUBSET Posts
        BY DEF First, Stored
    <3> QED BY <3>1, FiniteRows
  <2>2. P = {x \in S : Cardinality(Ahead(S, x)) < n + 1}
    BY <1>2
  <2>3. ASSUME NEW m \in S, Ahead(S, m) \in SUBSET P, ~(Cardinality(Ahead(S, m)) < n)
        PROVE  Cardinality(P) > n
    <3>1. Cardinality(Ahead(S, m)) <= Cardinality(P)
        BY <2>1, <2>3, FS_Subset
    <3>2. CASE m \notin P
      <4>1. ~(Cardinality(Ahead(S, m)) < n + 1)
        BY <2>2, <3>2
      <4> QED BY <1>1, <2>1, <3>1, <4>1
    <3>3. CASE m \in P
      <4>1. m \notin Ahead(S, m)
        BY BeforeOrder DEF Ahead
      <4>2. Ahead(S, m) # P
        BY <3>3, <4>1
      <4>3. Cardinality(Ahead(S, m)) # Cardinality(P)
        BY <2>1, <2>3, <4>2, FS_Subset
      <4> QED BY <1>1, <2>1, <2>3, <3>1, <4>3
    <3> QED BY <3>2, <3>3
  <2>4. CASE rest = {}
    <3>1. Ahead(S, p) \in SUBSET P
        BY <2>4 DEF Ahead
    <3>2. ~(Cardinality(Ahead(S, p)) < n)
        BY <1>2
    <3> QED BY <2>3, <3>1, <3>2 DEF HasMore
  <2>5. CASE rest # {}
    <3>1. rest \in SUBSET Stored
        OBVIOUS
    <3>2. PICK m \in rest : \A r \in rest : r = m \/ Before(m, r)
        BY <2>5, <3>1, FirstRow
    <3>3. Ahead(S, m) \in SUBSET P
        BY <3>2, BeforeOrder DEF Ahead
    <3>4. ~(Cardinality(Ahead(S, m)) < n)
        BY <1>1, <2>2, <3>2
    <3> QED BY <2>3, <3>2, <3>3, <3>4 DEF HasMore
  <2> QED BY <2>4, <2>5
<1> QED BY <1>3, <1>4, <1>5

LEMMA CursorFact ==
    ASSUME TypeOK, NEW R \in SUBSET Stored, R # {}
    PROVE  /\ CursorOf(R) \in Cursor /\ CursorOf(R) # None
           /\ CursorOf(R).id \in R /\ CursorOf(R).takenAt = taken[CursorOf(R).id]
           /\ \A r \in R : r = CursorOf(R).id \/ Before(r, CursorOf(R).id)
<1> DEFINE l == CHOOSE p \in R : \A r \in R : r = p \/ Before(r, p)
<1>1. l \in R /\ \A r \in R : r = l \/ Before(r, l)
    BY LastRow
<1> HIDE DEF l
<1>2. CursorOf(R) = [takenAt |-> taken[l], id |-> l]
    BY DEF CursorOf, l
<1>3. l \in Posts /\ taken[l] \in Nat
    BY <1>1, StoredType
<1> QED BY <1>1, <1>2, <1>3, NullAssumption DEF Cursor
-----------------------------------------------------------------------------
(***************************************************************************)
(* Steps of the client.                                                    *)
(***************************************************************************)
LEMMA InitInv == Init => IInv
<1> SUFFICES ASSUME Init PROVE IInv OBVIOUS
<1>1. TypeOK
  <2>1. client \in ClientState /\ client.rows = {}
    BY LimitAssumption DEF Init, IdleClient, ClientState
  <2> QED BY <2>1 DEF Init, TypeOK, Stored
<1> QED BY <1>1 DEF Init, IdleClient, IInv, Asking, Listed

(* What a query selects depends on the tables only.                        *)
LEMMA TablesUnchanged ==
    ASSUME UNCHANGED <<taken, stale>>
    PROVE  /\ Stored' = Stored
           /\ \A q : Matching(q)' = Matching(q)
           /\ \A q : Counted(q)' = Counted(q)
BY DEF Counted, Stored, Matching, MatchesBasics, InWindow

LEMMA OpenInv ==
    ASSUME IInv, NEW q \in Queries, Open(q)
    PROVE  IInv'
<1>1. q \in Query /\ q # None
    BY QueriesAssumption, NullAssumption
<1>2. client' = [pc |-> "ask", query |-> q, cursor |-> None, limit |-> 0,
                 rows |-> {}, more |-> FALSE, listed |-> FALSE, total |-> None]
    BY DEF Open, IdleClient
<1>3. TypeOK'
  <2>1. client' \in ClientState /\ client'.rows = {}
    BY <1>1, <1>2, LimitAssumption DEF ClientState
  <2>2. steady' \subseteq Posts /\ seen' = {} /\ quiet' = TRUE
    BY DEF Open, Matching, Stored
  <2> QED BY <2>1, <2>2 DEF Open, IInv, TypeOK, Stored
<1>4. steady' = Matching(client.query)'
    BY <1>2, TablesUnchanged DEF Open
<1>5. /\ client'.pc = "ask" /\ client'.cursor = None /\ client'.total = None
      /\ client'.query = q /\ seen' = {}
  <2>1. seen' = {}
    BY DEF Open
  <2> QED BY <1>2, <2>1
<1>6. AskingInv' /\ ~Listed'
    BY <1>5 DEF AskingInv, AfterCursor, Listed
<1>7. QuietInv'
    BY <1>4, <1>5, <1>6 DEF QuietInv
<1> QED BY <1>1, <1>3, <1>4, <1>5, <1>6, <1>7 DEF IInv

LEMMA AskInv ==
    ASSUME IInv, NEW n \in 1 .. MaxLimit, Ask(n)
    PROVE  IInv'
<1>1. CASE client.query.tag \in tracked \cup {None}
  <2>1. client' = [client EXCEPT !.pc = "query", !.limit = n, !.rows = {},
                                 !.more = FALSE, !.listed = FALSE, !.total = None]
    BY <1>1 DEF Ask
  <2>2. n \in 0 .. MaxLimit /\ n >= 1
    BY LimitAssumption
  <2>3. TypeOK'
    BY <2>1, <2>2 DEF Ask, IInv, TypeOK, ClientState, Stored
  <2>4. /\ client'.pc = "query" /\ client'.limit = n /\ client'.rows = {}
        /\ client'.listed = FALSE /\ client'.total = None
        /\ client'.query = client.query /\ client'.cursor = client.cursor
    BY <2>1 DEF IInv, TypeOK, ClientState
  <2>5. AskingInv'
    BY <2>4 DEF Ask, IInv, Asking, AskingInv, Passed, AfterCursor
  <2>6. client'.query # None /\ steady' \subseteq Matching(client.query)'
    BY <2>4, TablesUnchanged DEF Ask, IInv
  <2>7. quiet' => QuietInv'
    BY <2>4, TablesUnchanged DEF Ask, IInv, QuietInv, Listed
  <2> QED BY <2>2, <2>3, <2>4, <2>5, <2>6, <2>7 DEF IInv, Asking, Listed
<1>2. CASE ~(client.query.tag \in tracked \cup {None})
  <2>1. client' = IdleClient
    BY <1>2 DEF Ask
  <2>2. TypeOK'
    <3>1. client' \in ClientState /\ client'.rows = {}
        BY <2>1, LimitAssumption DEF IdleClient, ClientState
    <3> QED BY <3>1 DEF Ask, IInv, TypeOK, Stored
  <2> QED BY <2>1, <2>2 DEF IdleClient, IInv, Asking, Listed
<1> QED BY <1>1, <1>2

(* The page a request reads: everything given out before comes before it,  *)
(* and what was left out comes after its last row.                         *)
LEMMA PageFact ==
    ASSUME IInv, List
    PROVE  /\ client'.rows \subseteq Matching(client.query)
           /\ \A p \in seen, r \in client'.rows : Before(p, r)
           /\ client'.cursor \in Cursor \cup {None}
           /\ ListedInv'
<1> DEFINE c == client.cursor
           S == {p \in Matching(client.query) : AfterCursor(c, p)}
           rows == First(client.limit, S)
           more == HasMore(S, client.limit)
<1>1. TypeOK /\ AskingInv /\ client.limit \in Nat \ {0}
  <2>1. client.limit \in Nat
    BY LimitAssumption DEF IInv, TypeOK, ClientState
  <2> QED BY <2>1 DEF IInv, List, Asking
<1>2. S \in SUBSET Stored /\ rows \in SUBSET S
    BY DEF Matching, First
<1>3. client'.rows = rows /\ taken' = taken /\ seen' = seen /\ steady' = steady
    BY <1>1 DEF List, TypeOK, ClientState
<1>4. client'.cursor = IF more /\ rows # {} THEN CursorOf(rows) ELSE None
    BY <1>1 DEF List, TypeOK, ClientState
<1>5. c \in Cursor \cup {None} /\ seen \subseteq Stored
    BY <1>1 DEF TypeOK, ClientState
<1>6. \A p \in steady \ seen : p \in S
    BY <1>1 DEF IInv, List, AskingInv
<1> HIDE DEF rows, more
<1>7. ASSUME NEW p \in seen, NEW r \in S PROVE Before(p, r)
  <2>1. c # None /\ Passed(c, p) /\ AfterCursor(c, r)
    BY <1>1 DEF AskingInv
  <2>2. c.takenAt \in Nat /\ c.id \in Nat
    BY <1>5, <2>1, PostsAssumption DEF Cursor
  <2>3. p \in Nat /\ r \in Nat /\ taken[p] \in Nat /\ taken[r] \in Nat
    BY <1>1, <1>2, <1>5, StoredType
  <2> QED BY <2>1, <2>2, <2>3 DEF Passed, AfterCursor, Before
<1>8. client'.cursor # None =>
        /\ client'.cursor = CursorOf(rows) /\ rows # {} /\ rows \in SUBSET Stored
    BY <1>2, <1>4
<1>9. client'.cursor \in Cursor \cup {None}
    BY <1>1, <1>8, CursorFact
<1>10. ASSUME client'.cursor # None, NEW p \in seen \cup rows
       PROVE  Passed(client.cursor, p)'
  <2> DEFINE d == CursorOf(rows)
  <2>1. /\ d \in Cursor /\ d.id \in rows /\ d.takenAt = taken[d.id]
        /\ \A r \in rows : r = d.id \/ Before(r, d.id)
    BY <1>1, <1>8, <1>10, CursorFact
  <2>2. p = d.id \/ Before(p, d.id)
    BY <1>2, <1>7, <1>10, <2>1
  <2>3. p \in Stored /\ d.id \in Stored
    BY <1>2, <1>5, <1>10, <2>1
  <2>4. p \in Nat /\ d.id \in Nat /\ taken[p] \in Nat /\ taken[d.id] \in Nat
    BY <1>1, <2>3, StoredType
  <2>5. client'.cursor = d
    BY <1>8, <1>10
  <2> HIDE DEF d
  <2>6. Passed(d, p)
    BY <2>1, <2>2, <2>4 DEF Passed, Before
  <2> QED BY <1>3, <2>5, <2>6 DEF Passed
<1>11. ASSUME NEW p \in steady \ (seen \cup rows)
       PROVE  client'.cursor # None /\ AfterCursor(client.cursor, p)'
  <2> DEFINE d == CursorOf(rows)
  <2>1. p \in S \ rows
    BY <1>6, <1>11
  <2>2. rows # {} /\ more /\ \A l \in rows : Before(l, p)
    BY <1>1, <1>2, <2>1, RowsLeftOver DEF rows, more
  <2>3. client'.cursor = d
    BY <1>4, <2>2
  <2>4. d # None /\ d.id \in rows /\ d.takenAt = taken[d.id]
    BY <1>1, <1>2, <2>2, CursorFact
  <2> HIDE DEF d
  <2>5. Before(d.id, p)
    BY <2>2, <2>4
  <2>6. p \in Nat /\ d.id \in Nat /\ taken[p] \in Nat /\ taken[d.id] \in Nat
    BY <1>1, <1>2, <2>1, <2>4, StoredType
  <2>7. AfterCursor(d, p)
    BY <2>4, <2>5, <2>6 DEF Before, AfterCursor
  <2> QED BY <1>3, <2>3, <2>4, <2>7 DEF AfterCursor
<1>12. ListedInv'
    BY <1>3, <1>10, <1>11 DEF ListedInv
<1> QED BY <1>2, <1>3, <1>7, <1>9, <1>12

LEMMA ListInv ==
    ASSUME IInv, List
    PROVE  IInv'
<1>1. /\ client'.rows \subseteq Matching(client.query)
      /\ client'.cursor \in Cursor \cup {None} /\ ListedInv'
    BY PageFact
<1>2. \E R, d : \E m \in BOOLEAN :
        client' = [client EXCEPT !.listed = TRUE, !.rows = R, !.more = m, !.cursor = d]
  <2> DEFINE S == {p \in Matching(client.query) : AfterCursor(client.cursor, p)}
             R == First(client.limit, S)
             m == HasMore(S, client.limit)
             d == IF m /\ R # {} THEN CursorOf(R) ELSE None
  <2>1. client' = [client EXCEPT !.listed = TRUE, !.rows = R, !.more = m, !.cursor = d]
    BY DEF List
  <2>2. m \in BOOLEAN
    BY DEF HasMore
  <2> HIDE DEF R, m, d
  <2> QED BY <2>1, <2>2
<1>3. /\ client'.pc = "query" /\ client'.listed = TRUE /\ client'.query = client.query
      /\ client'.limit = client.limit /\ client'.total = client.total
      /\ client'.more \in BOOLEAN
      /\ client' = [client EXCEPT !.listed = TRUE, !.rows = client'.rows,
                                  !.more = client'.more, !.cursor = client'.cursor]
    BY <1>2 DEF List, IInv, TypeOK, ClientState
<1>4. TypeOK'
    BY <1>1, <1>3 DEF List, IInv, TypeOK, ClientState, Stored, Matching
<1>5. client'.query # None /\ steady' \subseteq Matching(client.query)'
    BY <1>3, TablesUnchanged DEF List, IInv
<1>6. quiet' => QuietInv'
    BY <1>1, <1>3, TablesUnchanged DEF List, IInv, QuietInv
<1> QED BY <1>1, <1>3, <1>4, <1>5, <1>6 DEF IInv, List, Asking, Listed

LEMMA CountInv ==
    ASSUME IInv, Count
    PROVE  IInv'
<1> DEFINE n == Cardinality(Counted(client.query))
<1>1. n \in Nat
  <2>1. Counted(client.query) \in SUBSET Posts
    BY DEF Counted, Stored
  <2> QED BY <2>1, FiniteRows
<1>2. client' = [client EXCEPT !.total = n]
    BY DEF Count, Counted
<1> HIDE DEF n
<1>3. TypeOK'
    BY <1>1, <1>2 DEF Count, IInv, TypeOK, ClientState, Stored
<1>4. /\ client'.pc = "query" /\ client'.listed = client.listed /\ client'.query = client.query
      /\ client'.limit = client.limit /\ client'.total = n
      /\ client'.rows = client.rows /\ client'.cursor = client.cursor
    BY <1>2 DEF Count, IInv, TypeOK, ClientState
<1>5. Asking' => AskingInv'
    BY <1>4 DEF Count, IInv, Asking, AskingInv, Passed, AfterCursor
<1>6. Listed' => ListedInv'
    BY <1>4 DEF Count, IInv, Listed, ListedInv, Passed, AfterCursor
<1>7. client'.query # None /\ steady' \subseteq Matching(client.query)'
    BY <1>4, TablesUnchanged DEF Count, IInv
<1>8. n = Cardinality(Counted(client.query)')
    BY <1>4, TablesUnchanged DEF n, Count
<1>9. quiet' => QuietInv'
    BY <1>4, <1>8, TablesUnchanged DEF Count, IInv, QuietInv, Listed
<1> QED BY <1>3, <1>4, <1>5, <1>6, <1>7, <1>9 DEF IInv, Count

LEMMA RespondInv ==
    ASSUME IInv, Respond
    PROVE  IInv'
<1>1. /\ client'.pc = IF client.cursor = None THEN "end" ELSE "ask"
      /\ client'.listed = client.listed /\ client'.query = client.query
      /\ client'.total = client.total /\ client'.cursor = client.cursor
    BY DEF Respond, IInv, TypeOK, ClientState
<1>2. TypeOK'
    BY DEF Respond, IInv, TypeOK, ClientState, Stored
<1>3. ListedInv /\ client.total # None
    BY DEF Respond, IInv, Listed
<1>4. client.cursor # None => AskingInv'
    BY <1>1, <1>3 DEF Respond, ListedInv, AskingInv, Passed, AfterCursor
<1>5. client.cursor = None => steady' \subseteq seen'
    BY <1>3 DEF Respond, ListedInv, IInv, TypeOK
<1>6. client'.query # None /\ steady' \subseteq Matching(client.query)'
    BY <1>1, TablesUnchanged DEF Respond, IInv
<1>7. quiet' => QuietInv'
    BY <1>1, TablesUnchanged DEF Respond, IInv, QuietInv, Listed
<1> QED BY <1>1, <1>2, <1>3, <1>4, <1>5, <1>6, <1>7 DEF IInv, Asking, Listed

-----------------------------------------------------------------------------
(***************************************************************************)
(* Writers keep the time of every stored post and only shrink steady.      *)
(***************************************************************************)
LEMMA WriteInv ==
    ASSUME IInv, Write, TypeOK',
           \A p \in Stored : taken'[p] = taken[p] /\ taken[p] # None
    PROVE  IInv'
<1>1. client' = client /\ seen' = seen /\ quiet' = FALSE /\ steady' \subseteq steady
    BY DEF Write
<1>2. seen \subseteq Stored /\ client.rows \subseteq Stored
    BY DEF IInv, TypeOK
<1>3. client.pc # "idle" => steady' \subseteq Matching(client.query)'
  <2> SUFFICES ASSUME client.pc # "idle", NEW p \in steady'
               PROVE  p \in Matching(client.query)'
    OBVIOUS
  <2>1. p \in Matching(client.query) /\ client.query # None
    BY <1>1 DEF IInv
  <2>2. p \in Posts /\ p \in Stored /\ taken'[p] = taken[p] /\ taken'[p] # None
    BY <2>1 DEF Matching, Stored
  <2>3. p \in stale' => client.query.includeStale
    BY <2>1 DEF Write
  <2> QED BY <1>1, <2>1, <2>2, <2>3 DEF Matching, MatchesBasics, InWindow, Stored
<1>4. \A p \in steady : client.pc # "idle" => p \in Stored
    BY DEF IInv, Matching
<1>5. Asking' => AskingInv'
  <2> SUFFICES ASSUME Asking' PROVE AskingInv' OBVIOUS
  <2>1. AskingInv /\ client.pc # "idle"
    BY <1>1 DEF IInv, Asking
  <2> QED BY <1>1, <1>2, <1>4, <2>1 DEF AskingInv, Passed, AfterCursor
<1>6. Listed' => ListedInv'
  <2> SUFFICES ASSUME Listed' PROVE ListedInv' OBVIOUS
  <2>1. ListedInv /\ client.pc # "idle"
    BY <1>1 DEF IInv, Listed
  <2> QED BY <1>1, <1>2, <1>4, <2>1 DEF ListedInv, Passed, AfterCursor
<1> QED BY <1>1, <1>3, <1>5, <1>6 DEF IInv

LEMMA UpsertInv ==
    ASSUME IInv, NEW p \in Posts, Upsert(p)
    PROVE  IInv'
<1>1. Stamp(p) \in Nat
    BY PublishedAssumption DEF Stamp, IInv, TypeOK
<1>2. taken' = [taken EXCEPT ![p] = Stamp(p)] /\ stale' = stale \ {p}
    BY DEF Upsert
<1>3. \A r \in Stored : taken'[r] = taken[r] /\ taken[r] # None
    BY <1>2 DEF Stored, Stamp, IInv, TypeOK
<1>4. Stored \subseteq Stored'
    BY <1>3 DEF Stored
<1>5. steady' \subseteq steady
    BY DEF Upsert, Write
<1>6. TypeOK'
  <2>1. taken' \in [Posts -> Nat \cup {None}] /\ stale' \subseteq Stored'
    BY <1>1, <1>2, <1>4 DEF IInv, TypeOK
  <2>2. UNCHANGED <<tracked, client, seen>> /\ quiet' = FALSE
    BY DEF Upsert, Write
  <2> QED BY <1>4, <1>5, <2>1, <2>2 DEF IInv, TypeOK
<1> QED BY <1>3, <1>6, WriteInv DEF Upsert

LEMMA MarkStaleInv ==
    ASSUME IInv, NEW S \in SUBSET Stored, MarkStale(S)
    PROVE  IInv'
<1>1. Stored' = Stored /\ \A r \in Stored : taken'[r] = taken[r] /\ taken[r] # None
    BY DEF MarkStale, Stored
<1>2. TypeOK'
  <2>1. UNCHANGED <<tracked, taken, client, seen>> /\ quiet' = FALSE /\ steady' \subseteq steady
    BY DEF MarkStale, Write
  <2>2. stale' \subseteq Stored'
    BY <1>1 DEF MarkStale, IInv, TypeOK
  <2> QED BY <1>1, <2>1, <2>2 DEF IInv, TypeOK
<1> QED BY <1>1, <1>2, WriteInv DEF MarkStale

LEMMA UnchangedInv ==
    ASSUME IInv, UNCHANGED <<taken, stale, client, seen, steady, quiet>>, tracked' \subseteq Tags
    PROVE  IInv'
<1>1. TypeOK'
    BY DEF IInv, TypeOK, Stored
<1>2. (Asking => AskingInv)' /\ (Listed => ListedInv)'
    BY DEF IInv, Asking, Listed, AskingInv, ListedInv, Passed, AfterCursor
<1>3. (client.pc # "idle" /\ quiet => QuietInv)'
    BY TablesUnchanged DEF IInv, QuietInv, Listed
<1>4. (client.pc # "idle" => client.query # None /\ steady \subseteq Matching(client.query))'
    BY TablesUnchanged DEF IInv
<1> QED BY <1>1, <1>2, <1>3, <1>4 DEF IInv

LEMMA StepInv == IInv /\ [Next]_vars => IInv'
<1> SUFFICES ASSUME IInv, [Next]_vars PROVE IInv' OBVIOUS
<1>1. CASE \E q \in Queries : Open(q)
    BY <1>1, OpenInv
<1>2. CASE \E n \in 1 .. MaxLimit : Ask(n)
    BY <1>2, AskInv
<1>3. CASE List
    BY <1>3, ListInv
<1>4. CASE Count
    BY <1>4, CountInv
<1>5. CASE Respond
    BY <1>5, RespondInv
<1>6. CASE \E t \in Tags : Track(t)
  <2>1. tracked' \subseteq Tags /\ UNCHANGED <<taken, stale, client, seen, steady, quiet>>
    BY <1>6 DEF Track, IInv, TypeOK
  <2> QED BY <2>1, UnchangedInv
<1>7. CASE \E p \in Posts : Upsert(p)
    BY <1>7, UpsertInv
<1>8. CASE \E S \in SUBSET Stored : MarkStale(S)
    BY <1>8, MarkStaleInv
<1>9. CASE UNCHANGED vars
  <2>1. tracked' \subseteq Tags /\ UNCHANGED <<taken, stale, client, seen, steady, quiet>>
    BY <1>9 DEF vars, IInv, TypeOK
  <2> QED BY <2>1, UnchangedInv
<1> QED BY <1>1, <1>2, <1>3, <1>4, <1>5, <1>6, <1>7, <1>8, <1>9 DEF Next, ClientStep

(* Only List turns listed on, and it reads a page past all given out.      *)
LEMMA StepDescends ==
    ASSUME IInv, [Next]_vars
    PROVE  [\A p \in seen, r \in client'.rows :
              client'.listed /\ ~client.listed => Before(p, r)]_vars
<1> SUFFICES ASSUME Next, client'.listed, ~client.listed
             PROVE  \A p \in seen, r \in client'.rows : Before(p, r)
    BY DEF vars
<1>1. CASE List
    BY <1>1, PageFact
<1>2. CASE \E q \in Queries : Open(q)
    BY <1>2 DEF Open, IdleClient
<1>3. CASE \E n \in 1 .. MaxLimit : Ask(n)
    BY <1>3 DEF Ask, IdleClient, IInv, TypeOK, ClientState
<1>4. CASE Count \/ Respond
    BY <1>4 DEF Count, Respond, IInv, TypeOK, ClientState
<1>5. CASE (\E t \in Tags : Track(t)) \/ (\E p \in Posts : Upsert(p))
           \/ (\E S \in SUBSET Stored : MarkStale(S))
    BY <1>5 DEF Track, Upsert, MarkStale, Write
<1> QED BY <1>1, <1>2, <1>3, <1>4, <1>5 DEF Next, ClientStep

-----------------------------------------------------------------------------
(* The invariant of the walk: what was given out lies behind the cursor,   *)
(* what matched all the while lies ahead of it.                            *)
THEOREM ListingInvariant == Spec => []IInv
BY InitInv, StepInv, PTL DEF Spec

(* The types hold, and no post a client was given is ever deleted.         *)
THEOREM TypeCorrect == Spec => []TypeOK
<1>1. IInv => TypeOK
    BY DEF IInv
<1> QED BY <1>1, ListingInvariant, PTL

(* A walk that reached its end missed no post that matched all the while,  *)
(* however many posts share a time and wherever a page ends among them.    *)
THEOREM CompleteWalk == Spec => []WalkIsComplete
<1>1. IInv => WalkIsComplete
    BY DEF IInv, WalkIsComplete
<1> QED BY <1>1, ListingInvariant, PTL

(* The total of an undisturbed walk counts what was listed.                *)
THEOREM ExactTotal == Spec => []TotalIsExact
<1>1. IInv => TotalIsExact
  <2> SUFFICES ASSUME IInv, client.pc = "end", quiet, client.query.after = None,
                      client.query.before = None
               PROVE  client.total = Cardinality(seen)
    BY DEF TotalIsExact
  <2>1. QuietInv /\ steady \subseteq seen /\ client.total # None
    BY DEF IInv
  <2>2. Matching(client.query) = Counted(client.query)
    BY DEF Matching, Counted, InWindow
  <2>3. seen = Counted(client.query)
    BY <2>1, <2>2 DEF QuietInv
  <2> QED BY <2>1, <2>3 DEF QuietInv
<1> QED BY <1>1, ListingInvariant, PTL

(* No page repeats a post or reaches back before one given out earlier.    *)
THEOREM Descending == Spec => DescendingWithoutRepeats
<1>1. IInv /\ [Next]_vars => [\A p \in seen, r \in client'.rows :
                                client'.listed /\ ~client.listed => Before(p, r)]_vars
    BY StepDescends
<1> QED BY <1>1, ListingInvariant, PTL DEF Spec, DescendingWithoutRepeats
=============================================================================
