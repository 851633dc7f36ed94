-------------------------- MODULE MediaUpsert_proofs --------------------------
(***************************************************************************)
(* What media_posts and media_post_history say, for any number of posts,   *)
(* runs, writers and upserts: every order of commits and replays.          *)
(***************************************************************************)
EXTENDS MediaUpsert, TLAPS

TopUpserts(p) == {k \in Upserts(p) : IsTop(log[k].item)}

SightingInv(p) ==
    /\ post[p].seenInTop <=> TopUpserts(p) # {}
    /\ post[p].seenInRecent <=> \E k \in Upserts(p) : ~IsTop(log[k].item)
    /\ post[p].bestTopRank = None <=> TopUpserts(p) = {}
    /\ \A k \in TopUpserts(p) : post[p].bestTopRank <= log[k].item.rank
    /\ TopUpserts(p) # {} => \E k \in TopUpserts(p) : post[p].bestTopRank = log[k].item.rank

(* The row carries the caption of the last upsert and the link of the     *)
(* first one.                                                              *)
StampInv(p) ==
    /\ \E j \in Upserts(p) :
          /\ \A m \in Upserts(p) : m <= j
          /\ log[j].item.caption = post[p].caption
    /\ \E j \in Upserts(p) : IsFirst(p, j) /\ log[j].item.link = post[p].link
    /\ StampedByLastChange(p)

(* The upserts called new are those of the creation's millisecond.         *)
NewInv(p) ==
    /\ \E k \in Upserts(p) : log[k].isNew
    /\ \A k \in Upserts(p) : log[k].isNew <=> log[k].now = post[p].firstSeenAt

PostInv(p) ==
    /\ post[p] # None <=> Upserts(p) # {}
    /\ post[p] # None => SightingInv(p) /\ StampInv(p) /\ NewInv(p)

(* A history row comes from an upsert of its post in its run.              *)
WrittenBy(h, k) ==
    /\ log[k].item.run = h.run
    /\ log[k].now = h.capturedAt

HistoryInv ==
    /\ \A h \in history : \E k \in Upserts(h.post) : WrittenBy(h, k)
    /\ OneHistoryRowPerRun
    /\ FirstSightingIsRecorded

(* The upserts of one post determine whether its current values are in its *)
(* newest row.                                                             *)
NewestInv(p) ==
    post[p] # None /\ Orderly(p) =>
        \E h \in Newest(p) : /\ h.value.caption = post[p].caption
                             /\ h.value.likes = post[p].likes

IInv ==
    /\ TypeOK
    /\ \A p \in Posts : PostInv(p)
    /\ HistoryInv
    /\ \A p \in Posts : NewestInv(p)

-----------------------------------------------------------------------------
LEMMA InitInv == Init => IInv
<1> SUFFICES ASSUME Init PROVE IInv
    OBVIOUS
<1> USE DEF Init
<1>1. TypeOK
    BY BoundsAssumption DEF TypeOK, Times
<1>2. \A p \in Posts : Upserts(p) = {}
    BY DEF Upserts
<1>3. \A p \in Posts : PostInv(p) /\ NewestInv(p)
    BY <1>2 DEF PostInv, NewestInv
<1>4. HistoryInv
    BY DEF HistoryInv, OneHistoryRowPerRun, FirstSightingIsRecorded
<1> QED BY <1>1, <1>3, <1>4 DEF IInv

(***************************************************************************)
(* Steps that leave the tables alone.                                      *)
(***************************************************************************)
LEMMA TablesUntouched ==
    ASSUME IInv, TypeOK', UNCHANGED <<post, history, log>>
    PROVE  IInv'
<1>1. \A p \in Posts : Upserts(p)' = Upserts(p) /\ TopUpserts(p)' = TopUpserts(p)
    BY DEF Upserts, TopUpserts, IsTop
<1>2. \A p \in Posts : PostInv(p)'
    BY <1>1 DEF IInv, PostInv, SightingInv, StampInv, NewInv, IsTop,
                StampedByLastChange, Disagrees, IsPrevious, IsFirst
<1>3. HistoryInv'
    BY DEF IInv, HistoryInv, WrittenBy, OneHistoryRowPerRun, FirstSightingIsRecorded,
           FirstOfItsRun, HistoryOf, Upserts, Tracked, EffectiveRank, IsTop
<1>4. \A p \in Posts : NewestInv(p)'
    BY DEF IInv, NewestInv, Newest, HistoryOf, Orderly, Upserts
<1> QED BY <1>2, <1>3, <1>4 DEF IInv

LEMMA WriterMoves ==
    ASSUME IInv, NEW w \in Writers,
           \/ \E i \in Item : FetchItem(w, i)
           \/ \E r \in Runs : Replay(w, r)
           \/ \E i \in todo[w] : SkipInvalid(w, i) \/ Begin(w, i)
           \/ Abort(w)
    PROVE  IInv'
<1>1. TypeOK'
  <2>1. CASE \E i \in Item : FetchItem(w, i)
    BY <2>1 DEF IInv, TypeOK, FetchItem
  <2>2. CASE \E r \in Runs : Replay(w, r)
    BY <2>2 DEF IInv, TypeOK, Replay
  <2>3. ASSUME NEW i \in todo[w], SkipInvalid(w, i)
        PROVE  TypeOK'
    BY <2>3 DEF IInv, TypeOK, SkipInvalid
  <2>4. ASSUME NEW i \in todo[w], Begin(w, i)
        PROVE  TypeOK'
    <3>1. i \in Item /\ clock \in Times
        BY DEF IInv, TypeOK
    <3>2. [item |-> i, now |-> clock] \in [item : Item, now : Times]
        BY <3>1
    <3> QED BY <2>4, <3>2 DEF IInv, TypeOK, Begin
  <2>5. CASE Abort(w)
    BY <2>5 DEF IInv, TypeOK, Abort
  <2> QED BY <2>1, <2>2, <2>3, <2>4, <2>5
<1>2. UNCHANGED <<post, history, log>>
    BY DEF FetchItem, Replay, SkipInvalid, Begin, Abort
<1> QED BY <1>1, <1>2, TablesUntouched

LEMMA TickStep ==
    ASSUME IInv, Tick
    PROVE  IInv'
<1>1. TypeOK'
    BY BoundsAssumption DEF IInv, TypeOK, Tick, Times
<1> QED BY <1>1, TablesUntouched DEF Tick

(* The sweep touches no field that the invariant speaks of.                *)
LEMMA SweepStep ==
    ASSUME IInv, NEW t \in Times, MarkStaleBefore(t)
    PROVE  IInv'
<1>1. ASSUME NEW p \in Posts
      PROVE  /\ post'[p] \in Row \cup {None}
             /\ post'[p] = None <=> post[p] = None
             /\ post[p] # None =>
                  /\ post'[p].caption = post[p].caption /\ post'[p].link = post[p].link
                  /\ post'[p].likes = post[p].likes
                  /\ post'[p].firstSeenAt = post[p].firstSeenAt
                  /\ post'[p].contentUpdatedAt = post[p].contentUpdatedAt
                  /\ post'[p].seenInTop = post[p].seenInTop
                  /\ post'[p].seenInRecent = post[p].seenInRecent
                  /\ post'[p].bestTopRank = post[p].bestTopRank
  <2>1. CASE post'[p] = post[p]
    BY <2>1 DEF IInv, TypeOK
  <2>2. CASE post[p] # None /\ post'[p] = [post[p] EXCEPT !.isStale = TRUE]
    <3>1. post[p] \in Row
        BY <2>2 DEF IInv, TypeOK
    <3>2. post'[p] \in Row
        BY <2>2, <3>1 DEF Row
    <3>3. post'[p] # None
        BY <3>2, NullAssumption
    <3> QED BY <2>2, <3>1, <3>2, <3>3 DEF Row
  <2> QED BY <2>1, <2>2 DEF MarkStaleBefore
<1>2. TypeOK'
    BY <1>1 DEF IInv, TypeOK, MarkStaleBefore
<1>3. history' = history /\ log' = log
    BY DEF MarkStaleBefore
<1>4. \A p \in Posts : Upserts(p)' = Upserts(p) /\ TopUpserts(p)' = TopUpserts(p)
    BY <1>3 DEF Upserts, TopUpserts, IsTop
<1>5. ASSUME NEW p \in Posts
      PROVE  PostInv(p)'
    BY <1>1, <1>3, <1>4 DEF IInv, PostInv, SightingInv, StampInv, NewInv, IsTop,
                            StampedByLastChange, Disagrees, IsPrevious, IsFirst
<1>6. HistoryInv'
    BY <1>3 DEF IInv, HistoryInv, WrittenBy, OneHistoryRowPerRun, FirstSightingIsRecorded,
           FirstOfItsRun, HistoryOf, Upserts, Tracked, EffectiveRank, IsTop
<1>7. ASSUME NEW p \in Posts
      PROVE  NewestInv(p)'
  <2>1. Orderly(p)' <=> Orderly(p)
    BY <1>3, <1>4 DEF Orderly
  <2>2. Newest(p)' = Newest(p)
    BY <1>3 DEF Newest, HistoryOf
  <2>3. NewestInv(p)
    BY DEF IInv
  <2> QED BY <1>1, <2>1, <2>2, <2>3 DEF NewestInv
<1> QED BY <1>2, <1>5, <1>6, <1>7 DEF IInv

(***************************************************************************)
(* The commit of an upsert.                                                *)
(***************************************************************************)
Commits(i, now) ==
    /\ post' = [post EXCEPT ![i.post] = UpsertedRow(i, now)]
    /\ \E rows \in NewHistory(i, now) : history' = history \cup rows
    /\ log' = Append(log, [item |-> i, now |-> now,
                            isNew |-> UpsertedRow(i, now).firstSeenAt = now])

LEMMA ItemType ==
    ASSUME NEW i \in Item
    PROVE  /\ i.post \in Posts /\ i.run \in Runs /\ i.caption \in Captions
           /\ i.link \in Links /\ i.likes \in Likes
           /\ i.rank \in Nat /\ i.rank \in Ranks
           /\ EffectiveRank(i) \in Ranks \cup {None}
           /\ EffectiveRank(i) = None <=> ~IsTop(i)
           /\ IsTop(i) => EffectiveRank(i) = i.rank
           /\ IsTop(i) \in BOOLEAN
BY BoundsAssumption, NoneAssumption DEF Item, Ranks, EffectiveRank, IsTop

LEMMA LeastFact ==
    ASSUME NEW a \in Ranks \cup {None}, NEW b \in Ranks \cup {None}
    PROVE  /\ Least(a, b) \in Ranks \cup {None}
           /\ Least(a, b) = None <=> a = None /\ b = None
           /\ Least(a, b) \in {a, b}
           /\ a # None => Least(a, b) <= a
           /\ b # None => Least(a, b) <= b
BY BoundsAssumption, NoneAssumption DEF Least, Ranks

LEMMA InsertedFact ==
    ASSUME NEW i \in Item, NEW now \in Times
    PROVE  LET r == InsertedRow(i, now)
           IN  /\ r \in Row
               /\ r.caption = i.caption /\ r.link = i.link /\ r.likes = i.likes
               /\ r.firstSeenAt = now /\ r.contentUpdatedAt = None
               /\ r.seenInTop = IsTop(i) /\ r.seenInRecent = ~IsTop(i)
               /\ r.bestTopRank = EffectiveRank(i)
<1> DEFINE r == InsertedRow(i, now)
<1>1. r \in Row
    BY ItemType, NoneAssumption DEF InsertedRow, Row
<1>2. /\ r.caption = i.caption /\ r.link = i.link /\ r.likes = i.likes
      /\ r.firstSeenAt = now /\ r.contentUpdatedAt = None
      /\ r.bestTopRank = EffectiveRank(i)
    BY DEF InsertedRow
<1>3. r.seenInTop = IsTop(i) /\ r.seenInRecent = ~IsTop(i)
    BY ItemType DEF InsertedRow
<1> QED BY <1>1, <1>2, <1>3

(* The fields of an updated row.                                           *)
LEMMA UpdatedFact ==
    ASSUME NEW i \in Item, NEW now \in Times, NEW old \in Row
    PROVE  LET r == UpdatedRow(old, i, now)
           IN  /\ r \in Row
               /\ r.caption = i.caption /\ r.link = old.link /\ r.likes = i.likes
               /\ r.firstSeenAt = old.firstSeenAt
               /\ r.seenInTop = (old.seenInTop \/ IsTop(i))
               /\ r.seenInRecent = (old.seenInRecent \/ ~IsTop(i))
               /\ r.bestTopRank = Least(old.bestTopRank, EffectiveRank(i))
               /\ r.contentUpdatedAt = IF ContentChanged(old, i) THEN now
                                       ELSE old.contentUpdatedAt
<1> DEFINE best == Least(old.bestTopRank, EffectiveRank(i))
           stamp == IF ContentChanged(old, i) THEN now ELSE old.contentUpdatedAt
           top == old.seenInTop \/ IsTop(i)
           recent == old.seenInRecent \/ ~IsTop(i)
<1>1. best \in Ranks \cup {None} /\ stamp \in Times \cup {None}
      /\ top \in BOOLEAN /\ recent \in BOOLEAN
    BY ItemType, LeastFact DEF Row
<1>2. UpdatedRow(old, i, now) =
        [old EXCEPT !.caption = i.caption, !.likes = i.likes, !.lastSeenAt = now,
                    !.seenInTop = top, !.seenInRecent = recent,
                    !.bestTopRank = best, !.isStale = FALSE,
                    !.contentUpdatedAt = stamp]
    BY DEF UpdatedRow, Row
<1> HIDE DEF best, stamp, top, recent
<1>3. UpdatedRow(old, i, now) \in Row
    BY <1>1, <1>2, ItemType DEF Row
<1>4. LET r == UpdatedRow(old, i, now)
      IN  /\ r.caption = i.caption /\ r.link = old.link /\ r.likes = i.likes
          /\ r.firstSeenAt = old.firstSeenAt
          /\ r.seenInTop = top /\ r.seenInRecent = recent
          /\ r.bestTopRank = best /\ r.contentUpdatedAt = stamp
    BY <1>2 DEF Row
<1> QED BY <1>3, <1>4 DEF best, stamp, top, recent

(* The log grows at its end.                                               *)
LEMMA LogGrows ==
    ASSUME TypeOK, NEW i \in Item, NEW now \in Times, Commits(i, now),
           UpsertedRow(i, now) \in Row
    PROVE  LET n == Len(log) + 1
           IN  /\ Len(log) \in Nat /\ Len(log') = n
               /\ \A k \in 1 .. Len(log) : log'[k] = log[k]
               /\ log'[n] = [item |-> i, now |-> now,
                             isNew |-> UpsertedRow(i, now).firstSeenAt = now]
               /\ log' \in Seq(Committed)
<1> DEFINE e == [item |-> i, now |-> now,
                 isNew |-> UpsertedRow(i, now).firstSeenAt = now]
<1>1. e \in Committed
    BY DEF Committed
<1>2. log' = Append(log, e)
    BY DEF Commits
<1> HIDE DEF e
<1>3. LET n == Len(log) + 1
      IN  /\ Len(log) \in Nat /\ Len(log') = n
          /\ \A k \in 1 .. Len(log) : log'[k] = log[k]
          /\ log'[n] = e
          /\ log' \in Seq(Committed)
    BY <1>1, <1>2 DEF TypeOK
<1> QED BY <1>3 DEF e

LEMMA UpsertsGrow ==
    ASSUME TypeOK, NEW i \in Item, NEW now \in Times, Commits(i, now),
           UpsertedRow(i, now) \in Row
    PROVE  LET n == Len(log) + 1
           IN  /\ \A p \in Posts : p # i.post => Upserts(p)' = Upserts(p)
               /\ Upserts(i.post)' = Upserts(i.post) \cup {n}
               /\ \A p \in Posts : \A k \in Upserts(p) : log'[k] = log[k] /\ k \in Nat /\ k < n
<1>1. /\ Len(log) \in Nat /\ Len(log') = Len(log) + 1
      /\ \A k \in 1 .. Len(log) : log'[k] = log[k]
      /\ log'[Len(log) + 1].item = i
  <2> DEFINE e == [item |-> i, now |-> now,
                   isNew |-> UpsertedRow(i, now).firstSeenAt = now]
  <2>1. /\ Len(log) \in Nat /\ Len(log') = Len(log) + 1
        /\ \A k \in 1 .. Len(log) : log'[k] = log[k]
        /\ log'[Len(log) + 1] = e
    BY LogGrows
  <2>2. e.item = i
    OBVIOUS
  <2> QED BY <2>1, <2>2
<1> QED BY <1>1 DEF Upserts

(* What a commit writes to the post's row.                                 *)
LEMMA RowWritten ==
    ASSUME IInv, NEW i \in Item, NEW now \in Times
    PROVE  LET r == UpsertedRow(i, now)
               old == post[i.post]
           IN  /\ r \in Row /\ r # None
               /\ r.caption = i.caption /\ r.likes = i.likes
               /\ old = None =>
                    /\ r.link = i.link /\ r.firstSeenAt = now /\ r.contentUpdatedAt = None
                    /\ r.seenInTop = IsTop(i) /\ r.seenInRecent = ~IsTop(i)
                    /\ r.bestTopRank = EffectiveRank(i)
               /\ old # None =>
                    /\ old \in Row
                    /\ r.link = old.link /\ r.firstSeenAt = old.firstSeenAt
                    /\ r.seenInTop = (old.seenInTop \/ IsTop(i))
                    /\ r.seenInRecent = (old.seenInRecent \/ ~IsTop(i))
                    /\ r.bestTopRank = Least(old.bestTopRank, EffectiveRank(i))
                    /\ r.contentUpdatedAt = IF ContentChanged(old, i) THEN now
                                            ELSE old.contentUpdatedAt
<1>1. i.post \in Posts
    BY ItemType
<1>2. CASE post[i.post] = None
  <2>1. UpsertedRow(i, now) = InsertedRow(i, now)
    BY <1>2 DEF UpsertedRow
  <2> QED BY <1>2, <2>1, InsertedFact, NullAssumption
<1>3. CASE post[i.post] # None
  <2>1. post[i.post] \in Row
    BY <1>1, <1>3 DEF IInv, TypeOK
  <2>2. UpsertedRow(i, now) = UpdatedRow(post[i.post], i, now)
    BY <1>3 DEF UpsertedRow
  <2> QED BY <1>3, <2>1, <2>2, UpdatedFact, NullAssumption
<1> QED BY <1>2, <1>3

(* Everything a commit does, with n the index of its upsert.               *)
LEMMA CommitFacts ==
    ASSUME IInv, NEW i \in Item, NEW now \in Times, Commits(i, now)
    PROVE  LET n == Len(log) + 1
               r == UpsertedRow(i, now)
           IN  /\ n \in Nat /\ Len(log') = n
               /\ \A k \in 1 .. Len(log) : log'[k] = log[k]
               /\ log'[n].item = i /\ log'[n].now = now
               /\ log'[n].isNew <=> r.firstSeenAt = now
               /\ Upserts(i.post)' = Upserts(i.post) \cup {n}
               /\ \A p \in Posts : p # i.post => Upserts(p)' = Upserts(p) /\ post'[p] = post[p]
               /\ \A p \in Posts : \A k \in Upserts(p) :
                     log'[k] = log[k] /\ k \in 1 .. Len(log) /\ k # n
               /\ post'[i.post] = r
<1>1. UpsertedRow(i, now) \in Row /\ i.post \in Posts /\ TypeOK
    BY RowWritten, ItemType DEF IInv
<1> DEFINE e == [item |-> i, now |-> now,
                 isNew |-> UpsertedRow(i, now).firstSeenAt = now]
<1>2. e.item = i /\ e.now = now
    OBVIOUS
<1>3. e.isNew <=> UpsertedRow(i, now).firstSeenAt = now
    OBVIOUS
<1>4. /\ Len(log) \in Nat /\ Len(log') = Len(log) + 1
      /\ \A k \in 1 .. Len(log) : log'[k] = log[k]
      /\ log'[Len(log) + 1] = e
    BY <1>1, LogGrows
<1> HIDE DEF e
<1>5. /\ \A p \in Posts : p # i.post => Upserts(p)' = Upserts(p)
      /\ Upserts(i.post)' = Upserts(i.post) \cup {Len(log) + 1}
    BY <1>1, UpsertsGrow
<1>6. \A p \in Posts : \A k \in Upserts(p) :
          log'[k] = log[k] /\ k \in 1 .. Len(log) /\ k # Len(log) + 1
    BY <1>4 DEF Upserts
<1>7. /\ post'[i.post] = UpsertedRow(i, now)
      /\ \A p \in Posts : p # i.post => post'[p] = post[p]
    BY <1>1 DEF Commits, TypeOK
<1>8. log'[Len(log) + 1].isNew <=> UpsertedRow(i, now).firstSeenAt = now
    BY <1>3, <1>4
<1> QED BY <1>2, <1>4, <1>5, <1>6, <1>7, <1>8

LEMMA CommitOthers ==
    ASSUME IInv, NEW i \in Item, NEW now \in Times, Commits(i, now),
           NEW p \in Posts, p # i.post
    PROVE  PostInv(p)'
<1>1. /\ Upserts(p)' = Upserts(p) /\ post'[p] = post[p]
      /\ \A k \in Upserts(p) : log'[k] = log[k]
    BY CommitFacts
<1>2. TopUpserts(p)' = TopUpserts(p)
    BY <1>1 DEF TopUpserts, IsTop
<1>3. PostInv(p)
    BY DEF IInv
<1>4. \A k \in TopUpserts(p) : log'[k] = log[k]
    BY <1>1 DEF TopUpserts
<1>5. SightingInv(p) => SightingInv(p)'
    BY <1>1, <1>2, <1>4 DEF SightingInv, IsTop
<1>6. StampInv(p) => StampInv(p)'
  <2>1. \A j \in Upserts(p) : IsFirst(p, j)' <=> IsFirst(p, j)
    BY <1>1 DEF IsFirst
  <2>2. \A k \in Upserts(p) : Disagrees(p, k)' <=> Disagrees(p, k)
    BY <1>1 DEF Disagrees, IsPrevious, IsFirst
  <2> QED BY <1>1, <2>1, <2>2 DEF StampInv, StampedByLastChange
<1>7. NewInv(p) => NewInv(p)'
    BY <1>1 DEF NewInv
<1> QED BY <1>1, <1>3, <1>5, <1>6, <1>7 DEF PostInv

LEMMA CommitSightings ==
    ASSUME IInv, NEW i \in Item, NEW now \in Times, Commits(i, now)
    PROVE  SightingInv(i.post)'
<1> DEFINE p == i.post
           n == Len(log) + 1
           r == UpsertedRow(i, now)
           e == EffectiveRank(i)
<1>1. /\ Upserts(p)' = Upserts(p) \cup {n} /\ log'[n].item = i /\ post'[p] = r
      /\ \A k \in Upserts(p) : log'[k] = log[k] /\ k # n
    BY CommitFacts, ItemType
<1>2. p \in Posts /\ PostInv(p)
    BY ItemType DEF IInv
<1>3. TopUpserts(p)' = IF IsTop(i) THEN TopUpserts(p) \cup {n} ELSE TopUpserts(p)
    BY <1>1 DEF TopUpserts, IsTop
<1>4. \A k \in TopUpserts(p) : log'[k] = log[k] /\ log[k].item.rank \in Nat
  <2>1. \A k \in TopUpserts(p) : k \in 1 .. Len(log) /\ k \in Upserts(p)
    BY DEF TopUpserts, Upserts
  <2>2. \A k \in 1 .. Len(log) : log[k] \in Committed
    BY DEF IInv, TypeOK
  <2>3. \A k \in TopUpserts(p) : log[k].item \in Item
    BY <2>1, <2>2 DEF Committed
  <2> QED BY <1>1, <2>1, <2>3, ItemType
<1>5. (\E k \in Upserts(p)' : ~IsTop(log'[k].item))
          <=> (\E k \in Upserts(p) : ~IsTop(log[k].item)) \/ ~IsTop(i)
    BY <1>1
<1> HIDE DEF p, n, r, e
<1>6. CASE post[p] = None
  <2>1. Upserts(p) = {} /\ TopUpserts(p) = {}
    BY <1>2, <1>6 DEF PostInv, TopUpserts
  <2>2. r.seenInTop = IsTop(i) /\ r.seenInRecent = ~IsTop(i) /\ r.bestTopRank = e
    BY <1>6, RowWritten DEF p, r, e
  <2>3. i.rank \in Nat /\ (e = None <=> ~IsTop(i)) /\ (IsTop(i) => e = i.rank)
    BY ItemType DEF e
  <2>4. CASE IsTop(i)
    <3>1. TopUpserts(p)' = {n} /\ Upserts(p)' = {n}
        BY <1>1, <1>3, <2>1, <2>4
    <3>2. r.seenInTop /\ ~r.seenInRecent /\ r.bestTopRank = i.rank /\ i.rank # None
        BY <2>2, <2>3, <2>4, NoneAssumption
    <3> QED BY <1>1, <2>3, <2>4, <3>1, <3>2 DEF SightingInv, p, IsTop
  <2>5. CASE ~IsTop(i)
    <3>1. TopUpserts(p)' = {} /\ Upserts(p)' = {n}
        BY <1>1, <1>3, <2>1, <2>5
    <3>2. ~r.seenInTop /\ r.seenInRecent /\ r.bestTopRank = None
        BY <2>2, <2>3, <2>5
    <3> QED BY <1>1, <2>5, <3>1, <3>2 DEF SightingInv, p, IsTop
  <2> QED BY <2>4, <2>5
<1>7. CASE post[p] # None
  <2>1. SightingInv(p) /\ post[p] \in Row
    BY <1>2, <1>7 DEF PostInv, IInv, TypeOK
  <2>2. post[p].bestTopRank \in Ranks \cup {None} /\ e \in Ranks \cup {None}
    BY <2>1, ItemType DEF Row, e
  <2>3. /\ r.seenInTop = (post[p].seenInTop \/ IsTop(i))
        /\ r.seenInRecent = (post[p].seenInRecent \/ ~IsTop(i))
        /\ r.bestTopRank = Least(post[p].bestTopRank, e)
    BY <1>7, RowWritten DEF p, r, e
  <2>4. i.rank \in Nat /\ (e = None <=> ~IsTop(i)) /\ (IsTop(i) => e = i.rank)
    BY ItemType DEF e
  <2>5. /\ r.bestTopRank \in Ranks \cup {None}
        /\ r.bestTopRank = None <=> post[p].bestTopRank = None /\ e = None
        /\ r.bestTopRank \in {post[p].bestTopRank, e}
        /\ post[p].bestTopRank # None => r.bestTopRank <= post[p].bestTopRank
        /\ e # None => r.bestTopRank <= e
    BY <2>2, <2>3, LeastFact
  <2>6. (r.seenInTop <=> TopUpserts(p)' # {}) /\ (r.bestTopRank = None <=> TopUpserts(p)' = {})
    BY <1>3, <2>1, <2>3, <2>4, <2>5 DEF SightingInv
  <2>7. r.seenInRecent <=> \E k \in Upserts(p)' : ~IsTop(log'[k].item)
    BY <1>5, <2>1, <2>3 DEF SightingInv
  <2>8. \A k \in TopUpserts(p)' : r.bestTopRank <= log'[k].item.rank
    <3> SUFFICES ASSUME NEW k \in TopUpserts(p)'
                 PROVE  r.bestTopRank <= log'[k].item.rank
        OBVIOUS
    <3>1. CASE k \in TopUpserts(p)
      <4>1. /\ post[p].bestTopRank # None /\ r.bestTopRank # None
            /\ post[p].bestTopRank <= log[k].item.rank
        BY <2>1, <2>5, <3>1 DEF SightingInv
      <4>2. log'[k].item.rank = log[k].item.rank /\ log[k].item.rank \in Nat
        BY <1>4, <3>1
      <4>3. post[p].bestTopRank \in Nat /\ r.bestTopRank \in Nat
        BY <2>2, <2>5, <4>1 DEF Ranks
      <4> QED BY <2>5, <4>1, <4>2, <4>3
    <3>2. CASE k = n /\ IsTop(i)
        BY <1>1, <2>4, <2>5, <3>2, NoneAssumption
    <3> QED BY <1>3, <3>1, <3>2
  <2>9. TopUpserts(p)' # {} => \E k \in TopUpserts(p)' : r.bestTopRank = log'[k].item.rank
    <3> SUFFICES ASSUME TopUpserts(p)' # {}
                 PROVE  \E k \in TopUpserts(p)' : r.bestTopRank = log'[k].item.rank
        OBVIOUS
    <3>1. r.bestTopRank # None
        BY <2>6
    <3>2. CASE r.bestTopRank = e
        BY <1>1, <1>3, <2>4, <3>1, <3>2
    <3>3. CASE r.bestTopRank = post[p].bestTopRank
      <4>1. PICK k \in TopUpserts(p) : post[p].bestTopRank = log[k].item.rank
        BY <2>1, <3>1, <3>3 DEF SightingInv
      <4> QED BY <1>3, <1>4, <3>3, <4>1
    <3> QED BY <2>5, <3>2, <3>3
  <2> QED BY <1>1, <2>6, <2>7, <2>8, <2>9 DEF SightingInv, p, IsTop
<1> QED BY <1>6, <1>7 DEF p

(* A commit changes nothing for the earlier upserts, and disagrees exactly *)
(* if it differs from the row.                                             *)
LEMMA CommitDisagrees ==
    ASSUME IInv, NEW i \in Item, NEW now \in Times, Commits(i, now),
           NEW p \in Posts, p = i.post, post[p] # None,
           NEW n \in Nat, n = Len(log) + 1
    PROVE  /\ \A k \in Upserts(p) : Disagrees(p, k)' <=> Disagrees(p, k)
           /\ Disagrees(p, n)' <=> ContentChanged(post[p], i)
           /\ \A j \in Upserts(p) : IsFirst(p, j)' <=> IsFirst(p, j)
<1>1. /\ Upserts(p)' = Upserts(p) \cup {n} /\ log'[n].item = i
      /\ \A k \in Upserts(p) : log'[k] = log[k] /\ k \in Nat /\ k < n
  <2>1. Len(log) \in Nat
    BY DEF IInv, TypeOK
  <2>2. Upserts(p)' = Upserts(i.post)' /\ Upserts(p) = Upserts(i.post)
    BY DEF Upserts
  <2>3. /\ log'[n].item = i /\ Upserts(i.post)' = Upserts(i.post) \cup {n}
        /\ \A q \in Posts : \A k \in Upserts(q) : log'[k] = log[k] /\ k \in 1 .. Len(log)
    BY CommitFacts
  <2>4. \A k \in Upserts(p) : log'[k] = log[k] /\ k \in 1 .. Len(log)
    BY <2>3
  <2>5. \A k \in 1 .. Len(log) : k \in Nat /\ k < n
    BY <2>1
  <2> QED BY <2>2, <2>3, <2>4, <2>5
<1>2. StampInv(p) /\ Upserts(p) # {}
    BY DEF IInv, PostInv
<1>3. \A j \in Upserts(p) : IsFirst(p, j)' <=> IsFirst(p, j)
    BY <1>1 DEF IsFirst
<1>4. \A k \in Upserts(p) : Disagrees(p, k)' <=> Disagrees(p, k)
    BY <1>1, <1>2 DEF Disagrees, IsPrevious, IsFirst
<1>5. Disagrees(p, n)' <=> ContentChanged(post[p], i)
  <2>1. PICK j \in Upserts(p) :
            (\A m \in Upserts(p) : m <= j) /\ log[j].item.caption = post[p].caption
    BY <1>2 DEF StampInv
  <2>2. PICK f \in Upserts(p) : IsFirst(p, f) /\ log[f].item.link = post[p].link
    BY <1>2 DEF StampInv
  <2>3. \A k \in Upserts(p)' : IsPrevious(p, k, n)' <=> k = j
    BY <1>1, <2>1 DEF IsPrevious
  <2>4. \A k \in Upserts(p)' : IsFirst(p, k)' <=> k = f
    BY <1>1, <2>2 DEF IsFirst
  <2>5. Disagrees(p, n)' <=>
            \E k \in Upserts(p)' :
                \/ k = j /\ log'[k].item.caption # log'[n].item.caption
                \/ k = f /\ log'[k].item.link # log'[n].item.link
    BY <2>3, <2>4 DEF Disagrees
  <2> QED BY <1>1, <2>1, <2>2, <2>5 DEF ContentChanged
<1> QED BY <1>3, <1>4, <1>5

LEMMA CommitStamp ==
    ASSUME IInv, NEW i \in Item, NEW now \in Times, Commits(i, now),
           NEW p \in Posts, p = i.post
    PROVE  StampInv(p)' /\ NewInv(p)' /\ Upserts(p)' # {} /\ post'[p] # None
<1>0. Len(log) \in Nat
    BY DEF IInv, TypeOK
<1> DEFINE r == UpsertedRow(i, now)
<1>1a. PICK n \in Nat : n = Len(log) + 1
    BY <1>0
<1>1. /\ Upserts(p)' = Upserts(p) \cup {n} /\ post'[p] = r
      /\ log'[n].item = i /\ log'[n].now = now
      /\ \A k \in Upserts(p) : log'[k] = log[k] /\ k \in Nat /\ k < n
  <2>1. Upserts(p)' = Upserts(i.post)' /\ Upserts(p) = Upserts(i.post)
    BY DEF Upserts
  <2>2. /\ Upserts(p)' = Upserts(p) \cup {n} /\ post'[p] = r
        /\ log'[n].item = i /\ log'[n].now = now
        /\ \A k \in Upserts(p) : log'[k] = log[k] /\ k \in 1 .. Len(log)
    BY <1>1a, <2>1, CommitFacts
  <2> QED BY <1>0, <1>1a, <2>2
<1>2. log'[n].isNew <=> r.firstSeenAt = now
    BY <1>1a, CommitFacts
<1>3. PostInv(p) /\ r # None /\ r.caption = i.caption
    BY RowWritten DEF IInv
<1> HIDE DEF r
<1>4. CASE post[p] = None
  <2>1. Upserts(p)' = {n}
    BY <1>1, <1>3, <1>4 DEF PostInv
  <2>2. r.link = i.link /\ r.firstSeenAt = now /\ r.contentUpdatedAt = None
    BY <1>4, RowWritten DEF r
  <2>3. StampInv(p)'
    <3>1. IsFirst(p, n)' /\ ~IsPrevious(p, n, n)' /\ n \in Upserts(p)'
        BY <1>1, <2>1 DEF IsFirst, IsPrevious
    <3>2. ~Disagrees(p, n)'
        BY <1>1, <2>1, <3>1 DEF Disagrees
    <3>3. StampedByLastChange(p)'
        BY <1>1, <2>1, <2>2, <3>2 DEF StampedByLastChange
    <3>4. \A m \in Upserts(p)' : m <= n
        BY <1>1, <2>1
    <3> QED BY <1>1, <1>3, <2>2, <3>1, <3>3, <3>4 DEF StampInv
  <2>4. NewInv(p)'
    BY <1>1, <1>2, <2>1, <2>2 DEF NewInv
  <2> QED BY <1>1, <1>3, <2>1, <2>3, <2>4
<1>5. CASE post[p] # None
  <2>1. /\ r.link = post[p].link /\ r.firstSeenAt = post[p].firstSeenAt
        /\ r.contentUpdatedAt = IF ContentChanged(post[p], i) THEN now
                                ELSE post[p].contentUpdatedAt
    BY <1>5, RowWritten DEF r
  <2>2. StampInv(p) /\ NewInv(p) /\ Upserts(p) # {}
    BY <1>3, <1>5 DEF PostInv
  <2>3. now # None
    BY NoneAssumption DEF Times
  <2>4. StampInv(p)'
    <3>1. /\ \A k \in Upserts(p) : Disagrees(p, k)' <=> Disagrees(p, k)
          /\ Disagrees(p, n)' <=> ContentChanged(post[p], i)
          /\ \A j \in Upserts(p) : IsFirst(p, j)' <=> IsFirst(p, j)
        BY <1>1a, <1>5, CommitDisagrees
    <3>2. \E j \in Upserts(p)' :
              (\A m \in Upserts(p)' : m <= j) /\ log'[j].item.caption = post'[p].caption
      <4>1. n \in Upserts(p)' /\ \A m \in Upserts(p)' : m <= n
        BY <1>1
      <4> QED BY <1>1, <1>3, <4>1
    <3>3. \E j \in Upserts(p)' : IsFirst(p, j)' /\ log'[j].item.link = post'[p].link
      <4>1. PICK f \in Upserts(p) : IsFirst(p, f) /\ log[f].item.link = post[p].link
        BY <2>2 DEF StampInv
      <4> QED BY <1>1, <2>1, <3>1, <4>1
    <3>4. \/ post[p].contentUpdatedAt = None /\ \A k \in Upserts(p) : ~Disagrees(p, k)
          \/ \E k \in Upserts(p) :
                /\ Disagrees(p, k)
                /\ \A m \in Upserts(p) : m > k => ~Disagrees(p, m)
                /\ post[p].contentUpdatedAt = log[k].now
        BY <2>2 DEF StampInv, StampedByLastChange
    <3>5. CASE ContentChanged(post[p], i)
      <4>1. post'[p].contentUpdatedAt = log'[n].now /\ n \in Upserts(p)' /\ Disagrees(p, n)'
        BY <1>1, <2>1, <3>1, <3>5
      <4>2. \A m \in Upserts(p)' : ~(m > n)
        BY <1>1
      <4>3. StampedByLastChange(p)'
        BY <4>1, <4>2 DEF StampedByLastChange
      <4> QED BY <3>2, <3>3, <4>3 DEF StampInv
    <3>6. CASE ~ContentChanged(post[p], i)
      <4>1. post'[p].contentUpdatedAt = post[p].contentUpdatedAt /\ ~Disagrees(p, n)'
        BY <1>1, <2>1, <3>1, <3>6
      <4>2. \A k \in Upserts(p) : k \in Upserts(p)' /\ log'[k].now = log[k].now
        BY <1>1
      <4>3. ASSUME post[p].contentUpdatedAt = None, \A k \in Upserts(p) : ~Disagrees(p, k)
            PROVE  StampedByLastChange(p)'
        <5>1. \A k \in Upserts(p)' : ~Disagrees(p, k)'
            BY <1>1, <3>1, <4>1, <4>3
        <5> QED BY <4>1, <4>3, <5>1 DEF StampedByLastChange
      <4>4. ASSUME NEW k \in Upserts(p), Disagrees(p, k),
                   \A m \in Upserts(p) : m > k => ~Disagrees(p, m),
                   post[p].contentUpdatedAt = log[k].now
            PROVE  StampedByLastChange(p)'
        <5>1. k \in Upserts(p)' /\ Disagrees(p, k)' /\ post'[p].contentUpdatedAt = log'[k].now
            BY <3>1, <4>1, <4>2, <4>4
        <5>2. \A m \in Upserts(p)' : m > k => ~Disagrees(p, m)'
            BY <1>1, <3>1, <4>1, <4>4
        <5> QED BY <5>1, <5>2 DEF StampedByLastChange
      <4>5. StampedByLastChange(p)'
        BY <3>4, <4>3, <4>4
      <4> QED BY <3>2, <3>3, <4>5 DEF StampInv
    <3> QED BY <3>5, <3>6
  <2>5. NewInv(p)'
    <3>1. PICK k \in Upserts(p) : log[k].isNew
        BY <2>2 DEF NewInv
    <3>2. k \in Upserts(p)' /\ log'[k].isNew
        BY <1>1, <3>1
    <3>3. \A j \in Upserts(p) : log'[j].isNew <=> log'[j].now = r.firstSeenAt
        BY <1>1, <2>1, <2>2 DEF NewInv
    <3>4. log'[n].isNew <=> log'[n].now = r.firstSeenAt
        BY <1>1, <1>2
    <3> QED BY <1>1, <3>2, <3>3, <3>4 DEF NewInv
  <2> QED BY <1>1, <1>3, <2>4, <2>5
<1> QED BY <1>4, <1>5

(***************************************************************************)
(* The history.  rows is what the commit appends: nothing, or one row.     *)
(***************************************************************************)
NewRow(i, now) == [post |-> i.post, run |-> i.run, value |-> Tracked(i), capturedAt |-> now]

LEMMA NewRowType ==
    ASSUME NEW i \in Item, NEW now \in Times
    PROVE  /\ NewRow(i, now) \in HistoryRow
           /\ NewRow(i, now).post = i.post /\ NewRow(i, now).run = i.run
           /\ NewRow(i, now).value = Tracked(i) /\ NewRow(i, now).capturedAt = now
           /\ Tracked(i).caption = i.caption /\ Tracked(i).likes = i.likes
<1>1. Tracked(i) \in TrackedValues
    BY ItemType DEF Tracked, TrackedValues
<1>2. Tracked(i).caption = i.caption /\ Tracked(i).likes = i.likes
    BY DEF Tracked
<1> QED BY <1>1, <1>2, ItemType DEF NewRow, HistoryRow

(* Either a new row is appended, and the run had none; or the run has one  *)
(* already; or a newest row says the same.                                 *)
LEMMA HistoryStep ==
    ASSUME NEW i \in Item, NEW now \in Times, Commits(i, now)
    PROVE  \/ ~HasRow(i.post, i.run) /\ history' = history \cup {NewRow(i, now)}
           \/ HasRow(i.post, i.run) /\ history' = history
           \/ history' = history /\ \E h \in Newest(i.post) : h.value = Tracked(i)
<1>1. PICK rows \in NewHistory(i, now) : history' = history \cup rows
    BY DEF Commits
<1>2. Appended(i, now) = IF HasRow(i.post, i.run) THEN {} ELSE {NewRow(i, now)}
    BY DEF Appended, NewRow
<1>3. rows = Appended(i, now) \/ (rows = {} /\ \E h \in Newest(i.post) : ~Differs(h, i))
    BY <1>1 DEF NewHistory
<1>4. CASE rows = Appended(i, now)
    BY <1>1, <1>2, <1>4
<1>5. CASE rows = {} /\ \E h \in Newest(i.post) : ~Differs(h, i)
    BY <1>1, <1>5 DEF Differs
<1> QED BY <1>3, <1>4, <1>5

LEMMA CommitHistory ==
    ASSUME IInv, NEW i \in Item, NEW now \in Times, Commits(i, now)
    PROVE  HistoryInv' /\ history' \subseteq HistoryRow
<1> DEFINE n == Len(log) + 1
<1>1. /\ n \in Nat /\ Len(log') = n
      /\ \A k \in 1 .. Len(log) : log'[k] = log[k]
      /\ log'[n].item = i /\ log'[n].now = now
      /\ Upserts(i.post)' = Upserts(i.post) \cup {n}
      /\ \A p \in Posts : p # i.post => Upserts(p)' = Upserts(p)
      /\ \A p \in Posts : \A k \in Upserts(p) : log'[k] = log[k]
    BY CommitFacts
<1>2. /\ history \subseteq HistoryRow /\ i.post \in Posts
      /\ \A h \in history : h.post \in Posts
    BY ItemType DEF IInv, TypeOK, HistoryRow
<1>3. history \subseteq history' /\ history' \subseteq history \cup {NewRow(i, now)}
    BY HistoryStep
<1>4. NewRow(i, now) \in history' \ history => ~HasRow(i.post, i.run)
    BY HistoryStep
<1>5. history' \subseteq HistoryRow
    BY <1>2, <1>3, NewRowType
<1>6. \A h \in history' : \E k \in Upserts(h.post)' : WrittenBy(h, k)'
  <2> TAKE h \in history'
  <2>1. CASE h \in history
    <3>1. PICK k \in Upserts(h.post) : WrittenBy(h, k)
        BY <2>1 DEF IInv, HistoryInv
    <3>2. k \in Upserts(h.post)' /\ log'[k] = log[k]
        BY <1>1, <1>2, <2>1
    <3> QED BY <3>1, <3>2 DEF WrittenBy
  <2>2. CASE h = NewRow(i, now)
    <3>1. h.post = i.post /\ h.run = i.run /\ h.capturedAt = now
        BY <2>2, NewRowType
    <3>2. n \in Upserts(h.post)'
        BY <1>1, <3>1
    <3> QED BY <1>1, <3>1, <3>2 DEF WrittenBy
  <2> QED BY <1>3, <2>1, <2>2
<1>7. OneHistoryRowPerRun'
  <2> SUFFICES ASSUME NEW g \in history', NEW h \in history', g.post = h.post, g.run = h.run
               PROVE  g = h
    BY DEF OneHistoryRowPerRun
  <2>1. CASE g \in history /\ h \in history
    BY <2>1 DEF IInv, HistoryInv, OneHistoryRowPerRun
  <2>2. CASE g \in history /\ h \notin history
    <3>1. h = NewRow(i, now) /\ ~HasRow(i.post, i.run)
        BY <1>3, <1>4, <2>2
    <3> QED BY <2>2, <3>1, NewRowType DEF HasRow, HistoryOf
  <2>3. CASE h \in history /\ g \notin history
    <3>1. g = NewRow(i, now) /\ ~HasRow(i.post, i.run)
        BY <1>3, <1>4, <2>3
    <3> QED BY <2>3, <3>1, NewRowType DEF HasRow, HistoryOf
  <2>4. CASE g \notin history /\ h \notin history
    BY <1>3, <2>4
  <2> QED BY <2>1, <2>2, <2>3, <2>4
<1>8. FirstSightingIsRecorded'
  <2> SUFFICES ASSUME NEW k \in 1 .. n, FirstOfItsRun(k)'
               PROVE  \E h \in history' : /\ h.post = log'[k].item.post
                                           /\ h.value = Tracked(log'[k].item)
    BY <1>1 DEF FirstSightingIsRecorded, HistoryOf, Tracked, EffectiveRank, IsTop
  <2>1. CASE k \in 1 .. Len(log)
    <3>1. FirstOfItsRun(k)
      <4>1. \A j \in 1 .. k - 1 : j \in 1 .. Len(log)
        BY <1>1, <2>1
      <4> QED BY <1>1, <2>1, <4>1 DEF FirstOfItsRun
    <3>2. PICK h \in history : h.post = log[k].item.post /\ h.value = Tracked(log[k].item)
        BY <2>1, <3>1 DEF IInv, HistoryInv, FirstSightingIsRecorded, HistoryOf
    <3> QED BY <1>1, <1>3, <2>1, <3>2
  <2>2. CASE k = n
    <3>1. ~HasRow(i.post, i.run)
      <4> SUFFICES ASSUME NEW h \in history, h.post = i.post, h.run = i.run
                   PROVE  FALSE
        BY DEF HasRow, HistoryOf
      <4>1. PICK j \in Upserts(h.post) : WrittenBy(h, j)
        BY DEF IInv, HistoryInv
      <4>2. j \in 1 .. Len(log) /\ log[j].item.post = i.post /\ log[j].item.run = i.run
        BY <4>1 DEF Upserts, WrittenBy
      <4>3. j \in 1 .. n - 1 /\ log'[j] = log[j]
        BY <1>1, <4>2
      <4> QED BY <1>1, <2>2, <4>2, <4>3 DEF FirstOfItsRun
    <3>2. CASE history' = history \cup {NewRow(i, now)}
        BY <1>1, <2>2, <3>2, NewRowType
    <3>3. CASE \E h \in Newest(i.post) : h.value = Tracked(i)
        BY <1>1, <1>3, <2>2, <3>3 DEF Newest, HistoryOf
    <3> QED BY <3>1, <3>2, <3>3, HistoryStep
  <2> QED BY <1>1, <2>1, <2>2
<1> QED BY <1>5, <1>6, <1>7, <1>8 DEF HistoryInv

LEMMA CommitNewest ==
    ASSUME IInv, NEW i \in Item, NEW now \in Times, Commits(i, now), NEW p \in Posts
    PROVE  NewestInv(p)'
<1> DEFINE n == Len(log) + 1
<1>1. /\ n \in Nat /\ Len(log) \in Nat
      /\ log'[n].item = i /\ log'[n].now = now
      /\ Upserts(i.post)' = Upserts(i.post) \cup {n}
      /\ \A q \in Posts : q # i.post => Upserts(q)' = Upserts(q) /\ post'[q] = post[q]
      /\ \A q \in Posts : \A k \in Upserts(q) : log'[k] = log[k] /\ k \in 1 .. Len(log)
      /\ post'[i.post] = UpsertedRow(i, now)
  <2>1. Len(log) \in Nat
    BY DEF IInv, TypeOK
  <2> QED BY <2>1, CommitFacts
<1>2. \A h \in history : h.capturedAt \in Nat
    BY DEF IInv, TypeOK, HistoryRow, Times
<1> SUFFICES ASSUME post'[p] # None, Orderly(p)'
             PROVE  \E h \in Newest(p)' : /\ h.value.caption = post'[p].caption
                                           /\ h.value.likes = post'[p].likes
    BY DEF NewestInv
<1>3. CASE p # i.post
  <2>1. HistoryOf(p)' = HistoryOf(p)
    BY <1>3, HistoryStep, NewRowType DEF HistoryOf
  <2>2. Newest(p)' = Newest(p)
    BY <2>1 DEF Newest
  <2>3. Orderly(p)
    BY <1>1, <1>3 DEF Orderly
  <2>4. PICK h \in Newest(p) : h.value.caption = post[p].caption /\ h.value.likes = post[p].likes
    BY <1>1, <1>3, <2>3 DEF IInv, NewestInv
  <2> QED BY <1>1, <1>3, <2>2, <2>4
<1>4. CASE p = i.post
  <2>1. post'[p].caption = i.caption /\ post'[p].likes = i.likes
    BY <1>1, <1>4, RowWritten
  <2>2. \A k \in Upserts(p) : log[k].now < now /\ log[k].item.run # i.run
    BY <1>1, <1>4 DEF Orderly
  <2>3. \A h \in HistoryOf(p) : h.capturedAt < now /\ h.run # i.run
    <3> TAKE h \in HistoryOf(p)
    <3>1. PICK k \in Upserts(p) : WrittenBy(h, k)
        BY DEF IInv, HistoryInv, HistoryOf
    <3> QED BY <2>2, <3>1 DEF WrittenBy
  <2>4. ~HasRow(i.post, i.run)
    BY <1>4, <2>3 DEF HasRow
  <2>5. CASE history' = history \cup {NewRow(i, now)}
    <3>1. HistoryOf(p)' = HistoryOf(p) \cup {NewRow(i, now)}
        BY <1>4, <2>5, NewRowType DEF HistoryOf
    <3>2. NewRow(i, now).capturedAt = now /\ now \in Nat
        BY NewRowType DEF Times
    <3>3. \A g \in HistoryOf(p) : g.capturedAt <= now
        BY <1>2, <2>3, <3>2 DEF HistoryOf
    <3>4. NewRow(i, now) \in Newest(p)'
        BY <3>1, <3>2, <3>3 DEF Newest
    <3> QED BY <2>1, <3>4, NewRowType
  <2>6. CASE history' = history /\ \E h \in Newest(i.post) : h.value = Tracked(i)
    <3>1. PICK h \in Newest(p) : h.value = Tracked(i)
        BY <1>4, <2>6
    <3>2. h \in Newest(p)'
        BY <2>6 DEF Newest, HistoryOf
    <3> QED BY <2>1, <3>1, <3>2, NewRowType
  <2> QED BY <2>4, <2>5, <2>6, HistoryStep
<1> QED BY <1>3, <1>4

LEMMA CommitStep ==
    ASSUME IInv, NEW w \in Writers, Commit(w)
    PROVE  IInv'
<1> DEFINE i == tx[w].item
           now == tx[w].now
<1>1. tx[w] \in [item : Item, now : Times]
    BY DEF Commit, IInv, TypeOK
<1>2. i \in Item /\ now \in Times
    BY <1>1
<1>3. Commits(i, now)
    BY DEF Commit, Commits
<1> HIDE DEF i, now
<1>4. UpsertedRow(i, now) \in Row /\ i.post \in Posts
    BY <1>2, RowWritten, ItemType
<1>5. history' \subseteq HistoryRow /\ HistoryInv'
    BY <1>2, <1>3, CommitHistory
<1>6. TypeOK'
  <2>1. post' \in [Posts -> Row \cup {None}]
    BY <1>3, <1>4 DEF Commits, IInv, TypeOK
  <2>2. log' \in Seq(Committed)
    BY <1>2, <1>3, <1>4, LogGrows DEF IInv
  <2>3. todo' \in [Writers -> SUBSET Item] /\ tx' \in [Writers -> [item : Item, now : Times] \cup {None}]
    BY DEF Commit, IInv, TypeOK
  <2> QED BY <1>5, <2>1, <2>2, <2>3 DEF Commit, IInv, TypeOK
<1>7. \A p \in Posts : PostInv(p)'
  <2> TAKE p \in Posts
  <2>1. CASE p # i.post
    BY <1>2, <1>3, <2>1, CommitOthers
  <2>2. CASE p = i.post
    BY <1>2, <1>3, <2>2, CommitSightings, CommitStamp DEF PostInv
  <2> QED BY <2>1, <2>2
<1>8. \A p \in Posts : NewestInv(p)'
    BY <1>2, <1>3, CommitNewest
<1> QED BY <1>5, <1>6, <1>7, <1>8 DEF IInv

-----------------------------------------------------------------------------
(* The invariant of the two tables: every upsert, aborted or committed in  *)
(* any order, every replay and every sweep of stale posts keeps it.        *)
THEOREM TablesInvariant == Spec => []IInv
<1>1. IInv /\ [Next]_vars => IInv'
  <2> SUFFICES ASSUME IInv, [Next]_vars PROVE IInv'
    OBVIOUS
  <2>1. ASSUME NEW w \in Writers, WriterStep(w)
        PROVE  IInv'
    BY <2>1, WriterMoves, CommitStep DEF WriterStep
  <2>2. CASE \E t \in Times : MarkStaleBefore(t)
    BY <2>2, SweepStep
  <2>3. CASE Tick
    BY <2>3, TickStep
  <2>4. CASE UNCHANGED vars
    <3>1. TypeOK'
        BY <2>4 DEF vars, IInv, TypeOK
    <3> QED BY <2>4, <3>1, TablesUntouched DEF vars
  <2> QED BY <2>1, <2>2, <2>3, <2>4 DEF Next
<1> QED BY InitInv, <1>1, PTL DEF Spec

(* The rows of both tables and the upserts in progress keep their types.   *)
THEOREM TypeCorrect == Spec => []TypeOK
<1>1. IInv => TypeOK
    BY DEF IInv
<1> QED BY <1>1, TablesInvariant, PTL

(* seenInTop, seenInRecent and bestTopRank are exactly what all upserts of *)
(* the post together say, for any order of commits.                        *)
THEOREM SightingsMerge == Spec => []MergedFromAllSightings
<1>1. IInv => MergedFromAllSightings
  <2> SUFFICES ASSUME IInv, NEW p \in Posts, post[p] # None
               PROVE  LET top == {k \in Upserts(p) : IsTop(log[k].item)}
                      IN  /\ post[p].seenInTop <=> top # {}
                          /\ post[p].seenInRecent <=> Upserts(p) \ top # {}
                          /\ post[p].bestTopRank = None <=> top = {}
                          /\ \A k \in top : post[p].bestTopRank <= log[k].item.rank
                          /\ top # {} => \E k \in top : post[p].bestTopRank = log[k].item.rank
    BY DEF MergedFromAllSightings
  <2>1. SightingInv(p)
    BY DEF IInv, PostInv
  <2>2. (Upserts(p) \ TopUpserts(p) # {}) <=> \E k \in Upserts(p) : ~IsTop(log[k].item)
    BY DEF TopUpserts
  <2> QED BY <2>1, <2>2 DEF SightingInv, TopUpserts
<1> QED BY <1>1, TablesInvariant, PTL

(* contentUpdatedAt is the time of the last upsert whose caption differed  *)
(* from the one before it or whose permalink or type differed from the     *)
(* first one's, and NULL if there is none.                                 *)
THEOREM StampTruthful == Spec => []ContentStampIsTruthful
<1>1. IInv => ContentStampIsTruthful
    BY DEF IInv, PostInv, StampInv, ContentStampIsTruthful
<1> QED BY <1>1, TablesInvariant, PTL

(* All upserts of a post that report it as new read the same millisecond,  *)
(* and one of them exists.                                                 *)
THEOREM NewOnce == Spec => []NewIsReportedOnce
<1>1. IInv => NewIsReportedOnce
    BY DEF IInv, PostInv, NewInv, NewIsReportedOnce
<1> QED BY <1>1, TablesInvariant, PTL

(* A post has at most one history row of a run, however often the run's    *)
(* items are delivered, replayed or committed out of order.                *)
THEOREM HistoryOnce == Spec => []OneHistoryRowPerRun
<1>1. IInv => OneHistoryRowPerRun
    BY DEF IInv, HistoryInv
<1> QED BY <1>1, TablesInvariant, PTL

(* What a run saw of a post at its first upsert is in the history.         *)
THEOREM SightingRecorded == Spec => []FirstSightingIsRecorded
<1>1. IInv => FirstSightingIsRecorded
    BY DEF IInv, HistoryInv
<1> QED BY <1>1, TablesInvariant, PTL

(* When every run upserts a post once and in the order of the time stamps, *)
(* the newest history row carries the post's current values.               *)
THEOREM CurrentInHistory == Spec => []CurrentIsNewest
<1>1. IInv => CurrentIsNewest
    BY DEF IInv, NewestInv, CurrentIsNewest
<1> QED BY <1>1, TablesInvariant, PTL
=============================================================================
