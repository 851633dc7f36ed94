----------------------------- MODULE MediaUpsert -----------------------------
(* MediaRepository.upsertMedia and the tables media_posts and              *)
(* media_post_history, written to by syncs and by the replay command.      *)
(*                                                                         *)
(* upsertMedia reads the clock, then runs one transaction.  Its first      *)
(* statement locks the post's row until the commit, so transactions on one *)
(* post happen one after the other, each atomic, but not necessarily in    *)
(* the order in which they read the clock.                                 *)
EXTENDS Naturals, FiniteSets, Sequences

CONSTANTS
    Writers,     \* syncs and replay commands that may run at once
    Posts,
    Runs,
    TopRuns,     \* the runs of the top_media edge; the others are recent
    Captions,
    Links,       \* permalink and media type
    Likes,       \* like and comment counts
    MaxRank,
    MaxTime,     \* bound on the clock
    MaxItems,    \* bound on the items Meta returns
    MaxUpserts,  \* bound on the committed upserts
    None         \* an SQL NULL, a missing row, no transaction

ASSUME RunsAssumption == TopRuns \subseteq Runs
ASSUME BoundsAssumption ==
    {MaxRank, MaxTime, MaxItems, MaxUpserts} \subseteq Nat \ {0}
ASSUME NoneAssumption == None \notin Nat

VARIABLES
    clock,       \* milliseconds
    dataPoints,  \* raw items as Meta returned them
    todo,        \* items a writer still has to upsert
    tx,          \* the writer's upsert whose transaction has not committed
    post,        \* media_posts
    history,     \* media_post_history
    log          \* history variable: the committed upserts, in commit order

vars == <<clock, dataPoints, todo, tx, post, history, log>>

Ranks == 1 .. MaxRank
Times == 1 .. MaxTime

(* An item of a page; its rank is its position in the whole run.           *)
Item == [post : Posts, run : Runs, caption : Captions, link : Links,
         likes : Likes, rank : Ranks]

(* Equal values are written to metricsUpdatedAt and lastSeenAt; the signed *)
(* URL and the arrays parsed from the caption are left out.                *)
Row == [caption : Captions, link : Links, likes : Likes,
        firstSeenAt : Times, lastSeenAt : Times,
        contentUpdatedAt : Times \cup {None},
        seenInTop : BOOLEAN, seenInRecent : BOOLEAN,
        bestTopRank : Ranks \cup {None}, isStale : BOOLEAN]

ASSUME NullAssumption == None \notin Row

(* The fields compared to decide whether a history row is warranted.       *)
TrackedValues == [caption : Captions, link : Links, likes : Likes,
                  rank : Ranks \cup {None}]

HistoryRow == [post : Posts, run : Runs, value : TrackedValues, capturedAt : Times]

Committed == [item : Item, now : Times, isNew : BOOLEAN]

(* The type invariant of the tables and of the upserts in progress.        *)
TypeOK ==
    /\ clock \in Times
    /\ dataPoints \subseteq Item
    /\ todo \in [Writers -> SUBSET Item]
    /\ tx \in [Writers -> [item : Item, now : Times] \cup {None}]
    /\ post \in [Posts -> Row \cup {None}]
    /\ history \subseteq HistoryRow
    /\ log \in Seq(Committed)

Init ==
    /\ clock = 1
    /\ dataPoints = {}
    /\ todo = [w \in Writers |-> {}]
    /\ tx = [w \in Writers |-> None]
    /\ post = [p \in Posts |-> None]
    /\ history = {}
    /\ log = << >>

----------------------------------------------------------------------------
Idle(w) == todo[w] = {} /\ tx[w] = None

(* A sync lands an item in data_points before it touches the curated       *)
(* tables.                                                                 *)
FetchItem(w, i) ==
    /\ Idle(w)
    /\ Cardinality(dataPoints \cup {i}) <= MaxItems
    /\ dataPoints' = dataPoints \cup {i}
    /\ todo' = [todo EXCEPT ![w] = {i}]
    /\ UNCHANGED <<clock, tx, post, history, log>>

(* replay reads all raw items of a run; a run without any is refused.      *)
Replay(w, r) ==
    LET payloads == {i \in dataPoints : i.run = r}
    IN  /\ Idle(w)
        /\ payloads # {}
        /\ todo' = [todo EXCEPT ![w] = payloads]
        /\ UNCHANGED <<clock, dataPoints, tx, post, history, log>>

(* The items are taken in the order of their positions.                    *)
IsNext(w, i) == i \in todo[w] /\ \A j \in todo[w] : i.rank <= j.rank

(* A stored item that no longer passes validation is skipped.              *)
SkipInvalid(w, i) ==
    /\ IsNext(w, i)
    /\ tx[w] = None
    /\ todo' = [todo EXCEPT ![w] = @ \ {i}]
    /\ UNCHANGED <<clock, dataPoints, tx, post, history, log>>

(* The time stamp is taken before the transaction starts.                  *)
Begin(w, i) ==
    /\ IsNext(w, i)
    /\ tx[w] = None
    /\ Len(log) < MaxUpserts
    /\ tx' = [tx EXCEPT ![w] = [item |-> i, now |-> clock]]
    /\ UNCHANGED <<clock, dataPoints, todo, post, history, log>>

----------------------------------------------------------------------------
IsTop(i) == i.run \in TopRuns

EffectiveRank(i) == IF IsTop(i) THEN i.rank ELSE None

(* SQL's LEAST ignores NULL.                                               *)
Least(a, b) ==
    IF a = None THEN b ELSE IF b = None THEN a ELSE IF a < b THEN a ELSE b

(* mutant: metric changes count as edits.                                  *)
AnythingChanged(old, i) ==
    \/ old.caption # i.caption \/ old.link # i.link \/ old.likes # i.likes

ContentChanged(old, i) == old.caption # i.caption \/ old.link # i.link

InsertedRow(i, now) ==
    [caption |-> i.caption, link |-> i.link, likes |-> i.likes,
     firstSeenAt |-> now, lastSeenAt |-> now, contentUpdatedAt |-> None,
     seenInTop |-> IsTop(i), seenInRecent |-> ~IsTop(i),
     bestTopRank |-> EffectiveRank(i), isStale |-> FALSE]

(* mutant: the flags say where the post was seen last.                     *)
UpdatedRowNotSticky(old, i, now) ==
    [InsertedRow(i, now) EXCEPT !.link = old.link, !.firstSeenAt = old.firstSeenAt]

(* ON CONFLICT DO UPDATE; permalink and media type are not in its list.    *)
UpdatedRow(old, i, now) ==
    [old EXCEPT !.caption = i.caption,
                !.likes = i.likes,
                !.lastSeenAt = now,
                !.seenInTop = @ \/ IsTop(i),
                !.seenInRecent = @ \/ ~IsTop(i),
                !.bestTopRank = Least(@, EffectiveRank(i)),
                !.isStale = FALSE,
                !.contentUpdatedAt = IF ContentChanged(old, i) THEN now ELSE @]

(* mutant: the creation time is refreshed with the row.                    *)
UpsertedRowReseen(i, now) ==
    IF post[i.post] = None THEN InsertedRow(i, now)
    ELSE [UpdatedRow(post[i.post], i, now) EXCEPT !.firstSeenAt = now]

UpsertedRow(i, now) ==
    IF post[i.post] = None THEN InsertedRow(i, now)
    ELSE UpdatedRow(post[i.post], i, now)

Tracked(i) == [caption |-> i.caption, link |-> i.link, likes |-> i.likes,
               rank |-> EffectiveRank(i)]

HistoryOf(p) == {h \in history : h.post = p}

(* Rows of equal time may come first in either order.                      *)
Newest(p) == {h \in HistoryOf(p) : \A g \in HistoryOf(p) : g.capturedAt <= h.capturedAt}

HasRow(p, r) == \E h \in HistoryOf(p) : h.run = r

(* UNIQUE (media_id, sync_run_id), ON CONFLICT DO NOTHING.                 *)
Appended(i, now) ==
    IF HasRow(i.post, i.run) THEN {}
    ELSE {[post |-> i.post, run |-> i.run, value |-> Tracked(i), capturedAt |-> now]}

(* mutant: the rank is not compared.                                       *)
DiffersInContent(h, i) ==
    [h.value EXCEPT !.rank = None] # [Tracked(i) EXCEPT !.rank = None]

(* mutant: the metrics are not compared.                                   *)
DiffersInCaption(h, i) == h.value.caption # i.caption

Differs(h, i) == h.value # Tracked(i)

(* A row is appended when the item differs from the newest one.            *)
NewHistory(i, now) ==
    IF HistoryOf(i.post) = {} THEN {Appended(i, now)}
    ELSE {IF Differs(h, i) THEN Appended(i, now) ELSE {} : h \in Newest(i.post)}

Commit(w) ==
    /\ tx[w] # None
    /\ LET i == tx[w].item
           now == tx[w].now
           row == UpsertedRow(i, now)
       IN  /\ post' = [post EXCEPT ![i.post] = row]
           /\ \E rows \in NewHistory(i, now) : history' = history \cup rows
           /\ log' = Append(log, [item |-> i, now |-> now,
                                   isNew |-> row.firstSeenAt = now])
           /\ todo' = [todo EXCEPT ![w] = @ \ {i}]
    /\ tx' = [tx EXCEPT ![w] = None]
    /\ UNCHANGED <<clock, dataPoints>>

(* The transaction fails, or its process dies: nothing is written, and the *)
(* sync or the command ends.                                               *)
Abort(w) ==
    /\ tx[w] # None
    /\ tx' = [tx EXCEPT ![w] = None]
    /\ todo' = [todo EXCEPT ![w] = {}]
    /\ UNCHANGED <<clock, dataPoints, post, history, log>>

(* The sweep the repository offers; no caller exists yet.                  *)
MarkStaleBefore(threshold) ==
    /\ post' = [p \in Posts |->
                  IF post[p] # None /\ post[p].lastSeenAt < threshold
                  THEN [post[p] EXCEPT !.isStale = TRUE]
                  ELSE post[p]]
    /\ UNCHANGED <<clock, dataPoints, todo, tx, history, log>>

Tick ==
    /\ clock < MaxTime
    /\ clock' = clock + 1
    /\ UNCHANGED <<dataPoints, todo, tx, post, history, log>>

WriterStep(w) ==
    \/ \E i \in Item : FetchItem(w, i)
    \/ \E r \in Runs : Replay(w, r)
    \/ \E i \in todo[w] : SkipInvalid(w, i) \/ Begin(w, i)
    \/ Commit(w)
    \/ Abort(w)

Next ==
    \/ \E w \in Writers : WriterStep(w)
    \/ \E t \in Times : MarkStaleBefore(t)
    \/ Tick

Spec == Init /\ [][Next]_vars
----------------------------------------------------------------------------
Upserts(p) == {k \in 1 .. Len(log) : log[k].item.post = p}

(* Whatever the order of commits, of both edges and of replays, a row      *)
(* tells exactly in which edges its post was ever seen and the best rank   *)
(* it ever had in top_media (the sticky flags and LEAST of upsertMedia).   *)
MergedFromAllSightings ==
    \A p \in Posts : post[p] # None =>
        LET top == {k \in Upserts(p) : IsTop(log[k].item)}
        IN  /\ post[p].seenInTop <=> top # {}
            /\ post[p].seenInRecent <=> Upserts(p) \ top # {}
            /\ post[p].bestTopRank = None <=> top = {}
            /\ \A k \in top : post[p].bestTopRank <= log[k].item.rank
            /\ top # {} => \E k \in top : post[p].bestTopRank = log[k].item.rank

(* Upsert j is the last one of its post before upsert k; it is the first   *)
(* one.                                                                    *)
IsPrevious(p, j, k) == j < k /\ \A m \in Upserts(p) : m <= j \/ k <= m
IsFirst(p, j) == \A m \in Upserts(p) : j <= m

(* Upsert k brings another caption than the one before it, or another      *)
(* permalink or type than the upsert that created the row: these two are   *)
(* never stored again.                                                     *)
Disagrees(p, k) ==
    \E j \in Upserts(p) :
        \/ IsPrevious(p, j, k) /\ log[j].item.caption # log[k].item.caption
        \/ IsFirst(p, j) /\ log[j].item.link # log[k].item.link

StampedByLastChange(p) ==
    \/ /\ post[p].contentUpdatedAt = None
       /\ \A k \in Upserts(p) : ~Disagrees(p, k)
    \/ \E k \in Upserts(p) :
          /\ Disagrees(p, k)
          /\ \A m \in Upserts(p) : m > k => ~Disagrees(p, m)
          /\ post[p].contentUpdatedAt = log[k].now

(* contentUpdatedAt is the time of the last upsert that disagreed with     *)
(* what the row said, NULL when there was none: whatever the order of      *)
(* commits and replays, and however the metrics and ranks move, no other   *)
(* upsert marks a post as edited and no edit goes unmarked.                *)
ContentStampIsTruthful ==
    \A p \in Posts : post[p] # None => StampedByLastChange(p)

(* "Only bumped when durable content actually differs"                     *)
(* (MediaRepository.ts:121): the stamp is the time of an upsert that       *)
(* brought another caption, permalink or type than the one before it.  Not *)
(* so: permalink and type are compared with the row but missing from the   *)
(* ON CONFLICT list, so that after one change of either every further sync *)
(* marks the post as edited.                                               *)
StampMeansEdit ==
    \A p \in Posts : post[p] # None /\ post[p].contentUpdatedAt # None =>
        \E j, k \in Upserts(p) :
            /\ IsPrevious(p, j, k)
            /\ post[p].contentUpdatedAt = log[k].now
            /\ \/ log[j].item.caption # log[k].item.caption
               \/ log[j].item.link # log[k].item.link

(* isNew, derived from firstSeenAt without a second query, is reported by  *)
(* the upsert that created the row and by no other, except one that read   *)
(* the clock in the same millisecond.                                      *)
NewIsReportedOnce ==
    \A p \in Posts : post[p] # None =>
        /\ \E k \in Upserts(p) : log[k].isNew
        /\ \A j, k \in Upserts(p) :
              log[j].isNew /\ log[k].isNew => log[j].now = log[k].now

(* A run appends at most one history row per post, however often its items *)
(* are redelivered or replayed.                                            *)
OneHistoryRowPerRun ==
    \A g, h \in history : g.post = h.post /\ g.run = h.run => g = h

FirstOfItsRun(k) ==
    \A j \in 1 .. k - 1 : ~ (/\ log[j].item.post = log[k].item.post
                             /\ log[j].item.run = log[k].item.run)

(* What a run saw of a post when it first upserted it is in the history,   *)
(* in a row of this run or in the row that was the newest then.            *)
FirstSightingIsRecorded ==
    \A k \in 1 .. Len(log) : FirstOfItsRun(k) =>
        \E h \in HistoryOf(log[k].item.post) : h.value = Tracked(log[k].item)

(* The upserts of a post committed in the order of their time stamps, and  *)
(* no run upserted it twice.                                               *)
Orderly(p) ==
    \A j, k \in Upserts(p) : j < k =>
        log[j].now < log[k].now /\ log[j].item.run # log[k].item.run

(* The values on the post are those of its newest history row, if every    *)
(* run upserted it once and in the order of the time stamps.  A replay, an *)
(* item that Meta lists twice in one run, or an upsert that was overtaken  *)
(* leaves older values on the post or newer ones out of the history.       *)
CurrentIsNewest ==
    \A p \in Posts : post[p] # None /\ Orderly(p) =>
        \E h \in Newest(p) : /\ h.value.caption = post[p].caption
                             /\ h.value.likes = post[p].likes
=============================================================================
