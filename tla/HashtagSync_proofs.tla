------------------------- MODULE HashtagSync_proofs -------------------------
(***************************************************************************)
(* Proofs about HashtagSync for any number of workers, hashtags, runs,     *)
(* posts and faults.                                                       *)
(***************************************************************************)
EXTENDS HashtagSync, TLAPS

PageSteps == {"raw", "item", "asset", "enqueue", "progress"}
ItemSteps == {"item", "asset", "enqueue"}
RunSteps == TrySteps \cup CatchSteps

(* What the worker in the try block knows of the run it works on: its      *)
(* counters mirror the row, and everything before its cursor is persisted. *)
RunView(w) ==
    LET t == task[w]
    IN  /\ pc[w] # "mark" => runs[t.run].status = "running"
        /\ t.seen = runs[t.run].itemsSeen
        /\ runs[t.run].lastCursor <= t.cursor
        /\ \A i \in Items : i <= t.cursor => Covered(t.run, i)

(* What it knows of the page it is persisting. *)
PageView(w) ==
    LET t == task[w]
    IN  /\ t.cursor <= t.at /\ t.at <= t.end /\ t.end <= FeedLen
        /\ t.seen < MaxItems
        /\ ~t.more \/ t.end = t.cursor => t.end = FeedLen
        /\ pc[w] = "raw" => t.at = t.cursor
        /\ pc[w] = "progress" => t.at = t.end
        /\ pc[w] \in ItemSteps => t.at < t.end
        /\ pc[w] # "raw" => \A i \in Items : t.cursor < i /\ i <= t.end => <<t.run, i>> \in raw
        /\ \A i \in Items : t.cursor < i /\ i <= t.at => Covered(t.run, i)
        /\ pc[w] \in {"asset", "enqueue"} => t.at + 1 \in posts
        /\ pc[w] = "enqueue" => asset[t.at + 1] # "none"

WorkerInv(w) ==
    /\ pc[w] # "idle" => lock[task[w].key] = w
    /\ pc[w] \in RunSteps => /\ task[w].run \in RunIds
                             /\ runs[task[w].run].key = task[w].key
                             /\ runs[task[w].run].status # "unused"
    /\ pc[w] \in TrySteps => RunView(w)
    /\ pc[w] \in PageSteps => PageView(w)
    /\ pc[w] = "finish" => task[w].seen >= MaxItems \/ task[w].cursor >= FeedLen

(* An asset row that no longer waits for a download job had one.           *)
AssetInv ==
    \A i \in Items : /\ asset[i] = "taken" => i \in jobs
                     /\ asset[i] = "skipped" => i \notin WithUrl

UnusedInv ==
    \A r \in RunIds : runs[r].status = "unused" =>
                          runs[r].itemsSeen = 0 /\ runs[r].lastCursor = 0

TableInv == /\ AssetInv /\ UnusedInv /\ OneRunningRun
            /\ CursorNeverAhead /\ SucceededIsComplete

IInv == TypeOK /\ TableInv /\ \A w \in Workers : WorkerInv(w)

-----------------------------------------------------------------------------
(* Nothing that was persisted is taken back. *)
Grows ==
    /\ raw \subseteq raw' /\ posts \subseteq posts' /\ jobs \subseteq jobs'
    /\ \A i \in Items : asset[i] # "none" => asset'[i] # "none"

LEMMA CoveredStays ==
    ASSUME Grows, NEW r, NEW i \in Items, Covered(r, i)
    PROVE  Covered(r, i)'
BY DEF Grows, Covered

(* A worker whose own state, lock and run a step leaves alone keeps its view. *)
LEMMA FrameOne ==
    ASSUME Grows, NEW v \in Workers, WorkerInv(v),
           pc'[v] = pc[v], task'[v] = task[v],
           pc[v] # "idle" => lock'[task[v].key] = lock[task[v].key],
           pc[v] \in RunSteps => runs'[task[v].run] = runs[task[v].run],
           pc[v] \in ItemSteps => task[v].at + 1 \in Items
    PROVE  WorkerInv(v)'
<1>1. \A i \in Items : Covered(task[v].run, i) => Covered(task[v].run, i)'
    BY CoveredStays
<1>2. pc[v] \in TrySteps => RunView(v)'
    BY <1>1 DEF WorkerInv, RunView, RunSteps, Covered
<1>3. pc[v] \in PageSteps => PageView(v)'
    <2> SUFFICES ASSUME pc[v] \in PageSteps PROVE PageView(v)'
        OBVIOUS
    <2>1. PageView(v)
        BY DEF WorkerInv
    <2> QED BY <1>1, <2>1 DEF PageView, Grows, ItemSteps, Covered
<1> QED BY <1>2, <1>3 DEF WorkerInv

LEMMA AtInItems ==
    ASSUME IInv, NEW v \in Workers, pc[v] \in ItemSteps
    PROVE  task[v].at + 1 \in Items
<1>1. PageView(v) /\ task[v] \in Task
    BY DEF IInv, WorkerInv, ItemSteps, PageSteps, TypeOK
<1> QED BY <1>1, SyncAssumption DEF PageView, Task, Items

LEMMA OthersKeep ==
    ASSUME IInv, NEW w \in Workers, Grows,
           \A v \in Workers : v # w => pc'[v] = pc[v] /\ task'[v] = task[v],
           \A k \in Keys : lock'[k] = lock[k] \/ lock[k] = NoWorker \/ lock[k] = w,
           \A r \in RunIds : \/ runs'[r] = runs[r]
                             \/ runs[r].status = "unused"
                             \/ pc[w] \in RunSteps /\ r = task[w].run
    PROVE  \A v \in Workers : v # w => WorkerInv(v)'
<1> SUFFICES ASSUME NEW v \in Workers, v # w PROVE WorkerInv(v)'
    OBVIOUS
<1>1. WorkerInv(v) /\ WorkerInv(w) /\ task[v].key \in Keys
    BY DEF IInv, TypeOK, Task
<1>2. pc[v] # "idle" => lock'[task[v].key] = lock[task[v].key]
    BY <1>1, SyncAssumption DEF WorkerInv
<1>3. pc[v] \in RunSteps => runs'[task[v].run] = runs[task[v].run]
    <2> SUFFICES ASSUME pc[v] \in RunSteps PROVE runs'[task[v].run] = runs[task[v].run]
        OBVIOUS
    <2>1. pc[v] # "idle" /\ (pc[w] \in RunSteps => pc[w] # "idle")
        BY DEF RunSteps, TrySteps, CatchSteps
    <2>2. lock[task[v].key] = v /\ task[v].run \in RunIds
        BY <1>1, <2>1 DEF WorkerInv
    <2>3. ASSUME pc[w] \in RunSteps, task[v].run = task[w].run PROVE FALSE
        BY <1>1, <2>1, <2>2, <2>3 DEF WorkerInv
    <2> QED BY <1>1, <2>2, <2>3 DEF WorkerInv
<1>4. pc[v] \in ItemSteps => task[v].at + 1 \in Items
    BY AtInItems
<1> QED BY <1>1, <1>2, <1>3, <1>4, FrameOne

LEMMA TablesKeep ==
    ASSUME IInv, Grows, AssetInv', runs' = runs
    PROVE  TableInv'
<1>1. \A r \in RunIds, i \in Items : Covered(r, i) => Covered(r, i)'
    BY CoveredStays
<1>2. CursorNeverAhead' /\ SucceededIsComplete'
    BY <1>1 DEF IInv, TableInv, CursorNeverAhead, SucceededIsComplete
<1> QED BY <1>2 DEF IInv, TableInv, UnusedInv, OneRunningRun

(* Steps that write no row another step depends on. *)
LEMMA QuietKeep ==
    ASSUME IInv, NEW w \in Workers, TypeOK',
           UNCHANGED <<runs, raw, posts, asset, jobs>>,
           \A v \in Workers : v # w => pc'[v] = pc[v] /\ task'[v] = task[v],
           \A k \in Keys : lock'[k] = lock[k] \/ lock[k] = NoWorker \/ lock[k] = w,
           WorkerInv(w)'
    PROVE  IInv'
<1>1. Grows
    BY DEF Grows
<1>2. AssetInv'
    BY DEF IInv, TableInv, AssetInv
<1>3. TableInv'
    BY <1>1, <1>2, TablesKeep
<1>4. \A v \in Workers : v # w => WorkerInv(v)'
    BY <1>1, OthersKeep
<1> QED BY <1>3, <1>4 DEF IInv

LEMMA AnyKeyOk == AnyKey \in Keys
<1>1. PICK h \in Hashtags : TRUE
    BY SyncAssumption
<1>2. <<h, "top">> \in Keys
    BY DEF Keys, Kinds
<1> QED BY <1>2 DEF AnyKey

LEMMA NewTaskOk == \A k \in Keys : NewTask(k) \in Task /\ NewTask(k).key = k
BY DEF NewTask, Task

LEMMA AcquireStep ==
    ASSUME IInv, NEW w \in Workers, NEW k \in Keys, Acquire(w, k)
    PROVE  IInv'
<1>1. TypeOK'
    BY NewTaskOk DEF IInv, TypeOK, Acquire, Goto, Steps, tables
<1>2. pc'[w] = "resolve" /\ task'[w].key = k /\ lock'[k] = w
    BY NewTaskOk DEF IInv, TypeOK, Acquire, Goto
<1>3. WorkerInv(w)'
    BY <1>2 DEF WorkerInv, RunSteps, TrySteps, CatchSteps, PageSteps
<1> QED BY <1>1, <1>3, QuietKeep DEF IInv, TypeOK, Acquire, Goto, tables

LEMMA ReleaseStep ==
    ASSUME IInv, NEW w \in Workers, Unlock(w) \/ UnlockFails(w) \/ Crash(w)
    PROVE  IInv'
<1>1. TypeOK'
    <2>1. leaked' \subseteq Keys
        BY DEF IInv, TypeOK, Task, Unlock, UnlockFails, Crash
    <2> QED BY <2>1, NewTaskOk, AnyKeyOk
            DEF IInv, TypeOK, Unlock, UnlockFails, Crash, Goto, Steps, tables
<1>2. pc'[w] = "idle"
    BY DEF IInv, TypeOK, Unlock, UnlockFails, Crash, Goto
<1>3. WorkerInv(w)'
    BY <1>2 DEF WorkerInv, RunSteps, TrySteps, CatchSteps, PageSteps
<1>4. lock[task[w].key] = w
    BY DEF IInv, WorkerInv, Unlock, UnlockFails, Crash
<1> QED BY <1>1, <1>3, <1>4, QuietKeep
        DEF IInv, TypeOK, Unlock, UnlockFails, Crash, Goto, tables

(* Steps outside the try and catch blocks, and out of them. *)
LEMMA OutsideStep ==
    ASSUME IInv, NEW w \in Workers,
           \/ Resolve(w) \/ FailBeforeRun(w) \/ FailInCatch(w)
           \/ MarkSyncSucceeded(w) \/ MarkSyncFailed(w)
    PROVE  IInv'
<1>1. TypeOK'
    <2>1. task[w].key[1] \in Hashtags
        BY DEF IInv, TypeOK, Task, Keys
    <2>2. resolved' \subseteq Hashtags /\ failures' \in [Hashtags -> Nat]
        BY <2>1 DEF IInv, TypeOK, Resolve, FailBeforeRun, FailInCatch, MarkSyncSucceeded,
                    MarkSyncFailed, tables
    <2> QED BY <2>2 DEF IInv, TypeOK, Resolve, FailBeforeRun, FailInCatch,
                        MarkSyncSucceeded, MarkSyncFailed, Goto, Steps, tables
<1>2. pc[w] # "idle" /\ pc'[w] \in {"load", "unlock"} /\ UNCHANGED <<lock, task>>
    BY DEF IInv, TypeOK, Resolve, FailBeforeRun, FailInCatch, MarkSyncSucceeded,
           MarkSyncFailed, Goto, CatchSteps
<1>3. WorkerInv(w)'
    BY <1>2 DEF IInv, WorkerInv, RunSteps, TrySteps, CatchSteps, PageSteps
<1>4. UNCHANGED <<runs, raw, posts, asset, jobs>>
    BY DEF Resolve, FailBeforeRun, FailInCatch, MarkSyncSucceeded, MarkSyncFailed, tables
<1>5. \A v \in Workers : v # w => pc'[v] = pc[v] /\ task'[v] = task[v]
    BY <1>2 DEF IInv, TypeOK, Resolve, FailBeforeRun, FailInCatch, MarkSyncSucceeded,
                MarkSyncFailed, Goto
<1> QED BY <1>1, <1>2, <1>3, <1>4, <1>5, QuietKeep

LEMMA FailStep ==
    ASSUME IInv, NEW w \in Workers, Fail(w)
    PROVE  IInv'
<1> DEFINE t == task[w]
<1>1. t \in Task /\ pc[w] \in TrySteps /\ WorkerInv(w)
    BY DEF IInv, TypeOK, Fail
<1>2. SeenNow(t) \in Nat \/ pc[w] # "progress"
    BY <1>1 DEF SeenNow, PageLen, WorkerInv, PageView, PageSteps, Task
<1>3. TypeOK'
    BY <1>1, <1>2 DEF IInv, TypeOK, Fail, Goto, Steps, CatchSteps, Task, tables
<1>4. /\ pc'[w] = "fail" /\ lock' = lock /\ runs' = runs
      /\ task'[w].key = t.key /\ task'[w].run = t.run
    BY <1>1 DEF IInv, TypeOK, Fail, Goto, Task, tables
<1>5. WorkerInv(w)'
    BY <1>1, <1>4 DEF WorkerInv, RunSteps, TrySteps, CatchSteps, PageSteps
<1> QED BY <1>3, <1>5, QuietKeep DEF IInv, TypeOK, Fail, Goto, tables

LEMMA FetchStep ==
    ASSUME IInv, NEW w \in Workers, NEW n \in 0 .. MaxPage, NEW more \in BOOLEAN,
           Fetch(w, n, more)
    PROVE  IInv'
<1> USE SyncAssumption
<1> DEFINE t == task[w]
<1>1. t \in Task /\ pc[w] = "fetch" /\ WorkerInv(w) /\ RunView(w) /\ n \in Nat
    BY DEF IInv, TypeOK, Fetch, WorkerInv, TrySteps
<1>2. t.cursor \in Nat /\ t.seen \in Nat /\ t.cursor + n \in Nat
    BY <1>1 DEF Task
<1>3. TypeOK'
    BY <1>1, <1>2 DEF IInv, TypeOK, Fetch, Goto, Steps, TrySteps, Task, tables
<1>4. task'[w] = [t EXCEPT !.end = t.cursor + n, !.at = t.cursor, !.more = more]
    BY DEF IInv, TypeOK, Fetch
<1>5. /\ task'[w].key = t.key /\ task'[w].run = t.run /\ task'[w].seen = t.seen
      /\ task'[w].cursor = t.cursor /\ task'[w].end = t.cursor + n
      /\ task'[w].at = t.cursor /\ task'[w].more = more
    BY <1>1, <1>4 DEF Task
<1>6. pc'[w] = "raw" /\ UNCHANGED <<runs, raw, posts, asset, jobs, lock>>
    BY DEF IInv, TypeOK, Fetch, Goto, tables
<1>7. \A r \in RunIds, i \in Items : Covered(r, i)' <=> Covered(r, i)
    BY <1>6 DEF Covered
<1>8. t.run \in RunIds /\ runs[t.run].key = t.key /\ runs[t.run].status # "unused"
      /\ lock[t.key] = w
    BY <1>1 DEF WorkerInv, RunSteps, TrySteps
<1>9. RunView(w)'
    BY <1>1, <1>5, <1>6, <1>7, <1>8 DEF RunView
<1>10. PageView(w)'
    <2>2. t.seen < MaxItems
        BY DEF Fetch
    <2>3. t.cursor + n <= FeedLen
        BY DEF Fetch
    <2>4. ~more \/ t.cursor + n = t.cursor => t.cursor + n = FeedLen
        BY <1>1, <1>2 DEF Fetch
    <2>5. t.cursor <= t.cursor + n
        BY <1>1, <1>2
    <2>6. \A i \in Items : ~(t.cursor < i /\ i <= t.cursor)
        BY <1>2 DEF Items
    <2> QED BY <1>2, <1>5, <1>6, <2>2, <2>3, <2>4, <2>5, <2>6 DEF PageView, ItemSteps
<1>11. WorkerInv(w)'
    BY <1>5, <1>6, <1>8, <1>9, <1>10 DEF WorkerInv
<1> QED BY <1>3, <1>6, <1>11, QuietKeep DEF IInv, TypeOK, Fetch, Goto, tables

LEMMA CapStep ==
    ASSUME IInv, NEW w \in Workers, CapAlreadyReached(w)
    PROVE  IInv'
<1>1. TypeOK'
    BY DEF IInv, TypeOK, CapAlreadyReached, Goto, Steps, TrySteps, tables
<1>2. /\ pc[w] = "fetch" /\ pc'[w] = "finish" /\ task[w].seen >= MaxItems
      /\ UNCHANGED <<runs, raw, posts, asset, jobs, lock, task>>
    BY DEF IInv, TypeOK, CapAlreadyReached, Goto, tables
<1>3. WorkerInv(w) /\ RunView(w)
    BY <1>2 DEF IInv, WorkerInv, TrySteps
<1>4. RunView(w)'
    BY <1>2, <1>3 DEF RunView, Covered
<1>5. WorkerInv(w)'
    BY <1>2, <1>3, <1>4 DEF WorkerInv, RunSteps, TrySteps, PageSteps
<1> QED BY <1>1, <1>2, <1>5, QuietKeep DEF IInv, TypeOK, CapAlreadyReached, Goto, tables

-----------------------------------------------------------------------------
(* Steps that write rows of the page: the run's row stays as it is. *)
LEMMA WriteKeep ==
    ASSUME IInv, NEW w \in Workers, TypeOK', Grows, AssetInv', runs' = runs, lock' = lock,
           \A v \in Workers : v # w => pc'[v] = pc[v] /\ task'[v] = task[v],
           WorkerInv(w)'
    PROVE  IInv'
<1>1. TableInv'
    BY TablesKeep
<1>2. \A v \in Workers : v # w => WorkerInv(v)'
    BY OthersKeep
<1> QED BY <1>1, <1>2 DEF IInv

LEMMA RecordPageStep ==
    ASSUME IInv, NEW w \in Workers, RecordPage(w)
    PROVE  IInv'
<1> USE SyncAssumption
<1> DEFINE t == task[w]
<1>1. /\ t \in Task /\ pc[w] = "raw" /\ WorkerInv(w) /\ RunView(w) /\ PageView(w)
      /\ t.run \in RunIds
    BY DEF IInv, TypeOK, RecordPage, WorkerInv, TrySteps, PageSteps, RunSteps
<1>2. t.cursor \in Nat /\ t.at \in Nat /\ t.end \in Nat
    BY <1>1 DEF Task
<1>3. pc'[w] \in {"item", "progress"} /\ (pc'[w] = "item" <=> t.at # t.end)
    BY DEF IInv, TypeOK, RecordPage, Goto, NextItem
<1>4. \A i \in (t.at + 1) .. t.end : i \in Items
    BY <1>1, <1>2 DEF PageView, Items
<1>5. raw' = raw \cup {<<t.run, i>> : i \in (t.at + 1) .. t.end}
    BY DEF RecordPage
<1>6. raw' \subseteq RunIds \X Items
    BY <1>1, <1>4, <1>5 DEF IInv, TypeOK
<1>7. TypeOK'
    BY <1>3, <1>6 DEF IInv, TypeOK, RecordPage, Goto, Steps, TrySteps
<1>8. UNCHANGED <<runs, posts, asset, jobs, lock, task>>
    BY DEF RecordPage
<1>9. Grows
    BY <1>5, <1>8 DEF Grows
<1>10. RunView(w)'
    BY <1>1, <1>3, <1>8, <1>9, CoveredStays DEF RunView
<1>11. PageView(w)'
    <2>1. \A i \in Items : t.cursor < i /\ i <= t.end => <<t.run, i>> \in raw'
        BY <1>1, <1>2, <1>5 DEF PageView, Items
    <2>2. \A i \in Items : ~(t.cursor < i /\ i <= t.at)
        BY <1>1, <1>2 DEF PageView, Items
    <2>3. t.at # t.end => t.at < t.end
        BY <1>1, <1>2 DEF PageView
    <2> QED BY <1>1, <1>3, <1>8, <2>1, <2>2, <2>3 DEF PageView, ItemSteps
<1>12. WorkerInv(w)'
    BY <1>1, <1>3, <1>8, <1>10, <1>11 DEF WorkerInv, RunSteps, TrySteps
<1>13. AssetInv'
    BY <1>8 DEF IInv, TableInv, AssetInv
<1> QED BY <1>7, <1>8, <1>9, <1>12, <1>13, WriteKeep DEF IInv, TypeOK, RecordPage, Goto

LEMMA UpsertStep ==
    ASSUME IInv, NEW w \in Workers, UpsertMedia(w)
    PROVE  IInv'
<1> DEFINE t == task[w]
<1>1. /\ t \in Task /\ pc[w] = "item" /\ WorkerInv(w) /\ RunView(w) /\ PageView(w)
      /\ t.at + 1 \in Items
    BY AtInItems DEF IInv, TypeOK, UpsertMedia, WorkerInv, TrySteps, PageSteps, ItemSteps
<1>2. /\ pc'[w] = "asset" /\ posts' = posts \cup {t.at + 1}
      /\ UNCHANGED <<runs, raw, asset, jobs, lock, task>>
    BY DEF IInv, TypeOK, UpsertMedia, Goto
<1>3. TypeOK'
    BY <1>1 DEF IInv, TypeOK, UpsertMedia, Goto, Steps, TrySteps
<1>4. Grows
    BY <1>2 DEF Grows
<1>5. RunView(w)'
    BY <1>1, <1>2, <1>4, CoveredStays DEF RunView
<1>6. PageView(w)'
    <2>1. \A r, i : i \in Items /\ Covered(r, i) => Covered(r, i)'
        BY <1>4, CoveredStays
    <2> QED BY <1>1, <1>2, <2>1 DEF PageView, ItemSteps
<1>7. WorkerInv(w)'
    BY <1>1, <1>2, <1>5, <1>6 DEF WorkerInv, RunSteps, TrySteps
<1>8. AssetInv'
    BY <1>2 DEF IInv, TableInv, AssetInv
<1> QED BY <1>2, <1>3, <1>4, <1>7, <1>8, WriteKeep DEF IInv, TypeOK, UpsertMedia, Goto

(* The post the worker is at is persisted, and it moves to the next. *)
LEMMA ItemDoneView ==
    ASSUME IInv, NEW w \in Workers, Grows, pc[w] \in ItemSteps,
           ItemDone(w), runs' = runs, lock' = lock,
           NEW r \in RunIds, r = task[w].run,
           NEW j \in Items, j = task[w].at + 1, Covered(r, j)'
    PROVE  /\ WorkerInv(w)'
           /\ pc'[w] \in {"item", "progress"} /\ task' \in [Workers -> Task]
           /\ \A v \in Workers : v # w => pc'[v] = pc[v] /\ task'[v] = task[v]
<1> USE SyncAssumption
<1> DEFINE t == task[w]
           u == [t EXCEPT !.at = t.at + 1]
<1>1. /\ t \in Task /\ WorkerInv(w) /\ RunView(w) /\ PageView(w) /\ t.run \in RunIds
      /\ t.cursor \in Nat /\ t.at \in Nat /\ t.end \in Nat
    BY DEF IInv, TypeOK, WorkerInv, TrySteps, PageSteps, ItemSteps, RunSteps, Task
<1>2. u \in Task /\ task'[w] = u /\ pc'[w] = NextItem(u)
    BY <1>1 DEF IInv, TypeOK, ItemDone, Goto, Task
<1>3. /\ u.key = t.key /\ u.run = t.run /\ u.seen = t.seen /\ u.cursor = t.cursor
      /\ u.end = t.end /\ u.more = t.more /\ u.at = t.at + 1
    BY <1>1 DEF Task
<1> HIDE DEF u
<1>4. pc'[w] \in {"item", "progress"} /\ (pc'[w] = "item" <=> t.at + 1 # t.end)
    BY <1>2, <1>3 DEF NextItem
<1>5. \A i \in Items : Covered(r, i) => Covered(r, i)'
    BY CoveredStays
<1>6. RunView(w)'
    BY <1>1, <1>2, <1>3, <1>4, <1>5 DEF RunView, TrySteps, ItemSteps
<1>7. PageView(w)'
    <2>1. t.at < t.end /\ pc[w] # "raw"
        BY <1>1 DEF PageView, ItemSteps
    <2>2. t.at + 1 <= t.end /\ (t.at + 1 # t.end => t.at + 1 < t.end) /\ t.cursor <= t.at + 1
        BY <1>1, <2>1 DEF PageView
    <2>3. \A i \in Items : t.cursor < i /\ i <= t.end => <<t.run, i>> \in raw'
        BY <1>1, <2>1 DEF PageView, Grows
    <2>4. \A i \in Items : t.cursor < i /\ i <= t.at + 1 => Covered(r, i)'
        <3> SUFFICES ASSUME NEW i \in Items, t.cursor < i, i <= t.at + 1
                     PROVE  Covered(r, i)'
            OBVIOUS
        <3>1. CASE i <= t.at
            BY <1>1, <1>5, <3>1 DEF PageView
        <3>2. CASE i = t.at + 1
            BY <3>2
        <3> QED BY <1>1, <3>1, <3>2 DEF Items
    <2> QED BY <1>1, <1>2, <1>3, <1>4, <2>2, <2>3, <2>4 DEF PageView, ItemSteps
<1>8. WorkerInv(w)'
    BY <1>1, <1>2, <1>3, <1>4, <1>6, <1>7 DEF WorkerInv, RunSteps, TrySteps, ItemSteps
<1> QED BY <1>2, <1>4, <1>8 DEF IInv, TypeOK, ItemDone, Goto

LEMMA EnsurePendingStep ==
    ASSUME IInv, NEW w \in Workers, EnsurePending(w)
    PROVE  IInv'
<1> DEFINE t == task[w]
           i == t.at + 1
<1>1. /\ t \in Task /\ pc[w] = "asset" /\ WorkerInv(w) /\ RunView(w) /\ PageView(w)
      /\ i \in Items /\ i \in posts /\ t.run \in RunIds
    BY AtInItems DEF IInv, TypeOK, EnsurePending, WorkerInv, TrySteps, PageSteps,
                     ItemSteps, PageView, RunSteps
<1>2. UNCHANGED <<runs, raw, posts, jobs, resolved, failures, lock, leaked, faults>>
    BY DEF EnsurePending
<1>3. asset' = [asset EXCEPT ![i] = IF asset[i] # "none" THEN asset[i]
                                    ELSE IF i \in WithUrl THEN "pending" ELSE "skipped"]
    BY DEF EnsurePending
<1>4. /\ asset' \in [Items -> {"none", "pending", "skipped", "taken"}]
      /\ asset'[i] # "none"
      /\ \A j \in Items : asset[j] # "none" => asset'[j] = asset[j]
      /\ \A j \in Items : asset'[j] = asset[j] \/ asset'[j] = "pending"
                           \/ (asset'[j] = "skipped" /\ j \notin WithUrl)
    BY <1>1, <1>3 DEF IInv, TypeOK
<1>5. Grows
    BY <1>2, <1>4 DEF Grows
<1>6. AssetInv'
    BY <1>2, <1>4 DEF IInv, TableInv, AssetInv
<1>7. CASE WantsDownload(i)
    <2>1. pc'[w] = "enqueue" /\ task' = task /\ \A v \in Workers : v # w => pc'[v] = pc[v]
        BY <1>7 DEF IInv, TypeOK, EnsurePending, Goto
    <2>2. TypeOK'
        BY <1>2, <1>4, <1>7 DEF IInv, TypeOK, EnsurePending, Goto, Steps, TrySteps
    <2>3. RunView(w)'
        BY <1>1, <1>2, <1>5, <2>1, CoveredStays DEF RunView
    <2>4. PageView(w)'
        <3>1. \A r, j : j \in Items /\ Covered(r, j) => Covered(r, j)'
            BY <1>5, CoveredStays
        <3> QED BY <1>1, <1>2, <1>4, <2>1, <3>1 DEF PageView, ItemSteps
    <2>5. WorkerInv(w)'
        BY <1>1, <1>2, <2>1, <2>3, <2>4 DEF WorkerInv, RunSteps, TrySteps
    <2> QED BY <1>2, <1>5, <1>6, <2>1, <2>2, <2>5, WriteKeep
<1>8. CASE ~WantsDownload(i)
    <2>1. ItemDone(w)
        BY <1>8 DEF EnsurePending
    <2>2. i \in WithUrl => i \in jobs
        BY <1>1, <1>8 DEF WantsDownload, IInv, TypeOK, TableInv, AssetInv
    <2>3. <<t.run, i>> \in raw
        <3>1. t.cursor < i /\ i <= t.end
            BY <1>1 DEF PageView, ItemSteps, Task
        <3> QED BY <1>1, <3>1 DEF PageView
    <2>4. PICK r \in RunIds, j \in Items : r = t.run /\ j = i
        BY <1>1
    <2>5. Covered(r, j)'
        BY <1>1, <1>2, <1>4, <2>2, <2>3, <2>4 DEF Covered
    <2>6. /\ WorkerInv(w)'
          /\ pc'[w] \in {"item", "progress"} /\ task' \in [Workers -> Task]
          /\ \A v \in Workers : v # w => pc'[v] = pc[v] /\ task'[v] = task[v]
        BY <1>1, <1>2, <1>5, <2>1, <2>4, <2>5, ItemDoneView DEF ItemSteps
    <2>7. TypeOK'
        BY <1>2, <1>4, <2>1, <2>6 DEF IInv, TypeOK, ItemDone, Goto, Steps, TrySteps
    <2> QED BY <1>2, <1>5, <1>6, <2>6, <2>7, WriteKeep
<1> QED BY <1>7, <1>8

LEMMA EnqueueStep ==
    ASSUME IInv, NEW w \in Workers, EnqueueDownload(w)
    PROVE  IInv'
<1> DEFINE t == task[w]
           i == t.at + 1
<1>1. /\ t \in Task /\ pc[w] = "enqueue" /\ WorkerInv(w) /\ PageView(w)
      /\ i \in Items /\ i \in posts /\ asset[i] # "none" /\ t.run \in RunIds
    BY AtInItems DEF IInv, TypeOK, EnqueueDownload, WorkerInv, TrySteps, PageSteps,
                     ItemSteps, PageView, RunSteps
<1>2. /\ jobs' = jobs \cup {i} /\ ItemDone(w)
      /\ UNCHANGED <<runs, raw, posts, asset, resolved, failures, lock, leaked, faults>>
    BY DEF EnqueueDownload
<1>3. Grows
    BY <1>2 DEF Grows
<1>4. AssetInv'
    BY <1>2 DEF IInv, TableInv, AssetInv
<1>0. PICK r \in RunIds, j \in Items : r = t.run /\ j = i
    BY <1>1
<1>5. Covered(r, j)'
    <2>1. t.cursor < i /\ i <= t.end
        BY <1>1 DEF PageView, ItemSteps, Task
    <2> QED BY <1>0, <1>1, <1>2, <2>1 DEF Covered, PageView
<1>6. /\ WorkerInv(w)'
      /\ pc'[w] \in {"item", "progress"} /\ task' \in [Workers -> Task]
      /\ \A v \in Workers : v # w => pc'[v] = pc[v] /\ task'[v] = task[v]
    BY <1>0, <1>1, <1>2, <1>3, <1>5, ItemDoneView DEF ItemSteps
<1>7. TypeOK'
    BY <1>1, <1>2, <1>6 DEF IInv, TypeOK, ItemDone, Goto, Steps, TrySteps
<1> QED BY <1>2, <1>3, <1>4, <1>6, <1>7, WriteKeep

-----------------------------------------------------------------------------
(* Steps that write the run's row. *)
LEMMA TaskBegins ==
    \A t \in Task, r \in RunIds, a, b, c \in Nat :
        [t EXCEPT !.run = r, !.base = a, !.seen = b, !.cursor = c] \in Task
BY DEF Task

LEMMA TaskAdvances ==
    \A t \in Task, a, b \in Nat, c \in BOOLEAN :
        [t EXCEPT !.seen = a, !.cursor = b, !.capped = c] \in Task
BY DEF Task

LEMMA ResumeStep ==
    ASSUME IInv, NEW w \in Workers, NEW r \in RunIds, Resume(w, r)
    PROVE  IInv'
<1> DEFINE t == task[w]
<1>1. /\ t \in Task /\ pc[w] = "load" /\ WorkerInv(w) /\ runs[r] \in Run
      /\ runs[r].key = t.key /\ runs[r].status = "running"
      /\ UNCHANGED <<runs, raw, posts, asset, jobs, resolved, failures, lock, leaked, faults>>
    BY DEF IInv, TypeOK, Resume, Begin, FindResumableRun, Running
<1>2. runs[r].itemsSeen \in Nat /\ runs[r].lastCursor \in Nat
    BY <1>1 DEF Run
<1>3. /\ pc'[w] = "fetch"
      /\ task'[w] = [t EXCEPT !.run = r, !.base = runs[r].itemsSeen,
                              !.seen = runs[r].itemsSeen, !.cursor = runs[r].lastCursor]
      /\ \A v \in Workers : v # w => pc'[v] = pc[v] /\ task'[v] = task[v]
    BY <1>1 DEF IInv, TypeOK, Resume, Begin, Goto
<1>4. /\ task'[w].key = t.key /\ task'[w].run = r /\ task'[w].seen = runs[r].itemsSeen
      /\ task'[w].cursor = runs[r].lastCursor
    BY <1>1, <1>3 DEF Task
<1>5. TypeOK'
    BY <1>1, <1>2 DEF IInv, TypeOK, Resume, Begin, Goto, Steps, TrySteps, Task
<1>6. RunView(w)'
    <2>1. \A i \in Items : i <= runs[r].lastCursor => Covered(r, i)'
        BY <1>1 DEF IInv, TableInv, CursorNeverAhead, Covered
    <2> QED BY <1>1, <1>2, <1>3, <1>4, <2>1 DEF RunView
<1>7. WorkerInv(w)'
    BY <1>1, <1>3, <1>4, <1>6 DEF WorkerInv, PageSteps
<1> QED BY <1>1, <1>3, <1>5, <1>7, QuietKeep

LEMMA StartRunStep ==
    ASSUME IInv, NEW w \in Workers, NEW r \in RunIds, StartRun(w, r)
    PROVE  IInv'
<1> USE SyncAssumption
<1> DEFINE t == task[w]
           new == [FreeRun(t.key) EXCEPT !.status = "running"]
<1>1. /\ t \in Task /\ pc[w] = "load" /\ WorkerInv(w) /\ t.key \in Keys
      /\ runs[r].status = "unused" /\ Running(t.key) = {}
      /\ UNCHANGED <<raw, posts, asset, jobs, resolved, failures, lock, leaked, faults>>
    BY DEF IInv, TypeOK, StartRun, Begin, FindResumableRun, Unused, Task
<1>2. /\ new \in Run /\ new.key = t.key /\ new.status = "running"
      /\ new.itemsSeen = 0 /\ new.lastCursor = 0
    BY <1>1 DEF FreeRun, Run, Statuses
<1> HIDE DEF new
<1>3. /\ runs' = [runs EXCEPT ![r] = new] /\ runs'[r] = new
      /\ \A q \in RunIds : q # r => runs'[q] = runs[q]
    BY DEF StartRun, IInv, TypeOK, new
<1>4. /\ pc'[w] = "fetch"
      /\ task'[w] = [t EXCEPT !.run = r, !.base = 0, !.seen = 0, !.cursor = 0]
      /\ \A v \in Workers : v # w => pc'[v] = pc[v] /\ task'[v] = task[v]
    BY <1>1, <1>2, <1>3 DEF IInv, TypeOK, StartRun, Begin, Goto
<1>5. /\ task'[w].key = t.key /\ task'[w].run = r /\ task'[w].seen = 0
      /\ task'[w].cursor = 0
    BY <1>1, <1>4 DEF Task
<1>6. TypeOK'
    <2>1. runs' \in [RunIds -> Run]
        BY <1>2, <1>3 DEF IInv, TypeOK
    <2>2. task' \in [Workers -> Task]
        <3>1. task'[w] \in Task
            <4>1. 0 \in Nat /\ t \in Task
                BY <1>1
            <4> HIDE DEF t
            <4>2. [t EXCEPT !.run = r, !.base = 0, !.seen = 0, !.cursor = 0] \in Task
                BY <4>1, TaskBegins, Zenon
            <4> QED BY <1>4, <4>2, Zenon
        <3>2. \E x : task' = [task EXCEPT ![w] = x]
            BY Zenon DEF StartRun, Begin
        <3>4. task' = [v \in Workers |-> task'[v]]
            BY <3>2 DEF IInv, TypeOK
        <3>3. \A v \in Workers : task'[v] \in Task
            BY <1>4, <3>1 DEF IInv, TypeOK
        <3> QED BY <3>4, <3>3
    <2> QED BY <1>1, <2>1, <2>2 DEF IInv, TypeOK, StartRun, Begin, Goto, Steps, TrySteps
<1>7. Grows
    BY <1>1 DEF Grows
<1>8. \A q \in RunIds, i \in Items : Covered(q, i)' <=> Covered(q, i)
    BY <1>1 DEF Covered
<1>9. \A i \in Items : ~(i <= 0)
    BY DEF Items
<1>10. TableInv'
    <2>1. AssetInv' /\ UnusedInv'
        BY <1>1, <1>2, <1>3 DEF IInv, TableInv, AssetInv, UnusedInv
    <2>2. OneRunningRun'
        BY <1>1, <1>2, <1>3 DEF IInv, TableInv, OneRunningRun, Running
    <2>3. CursorNeverAhead'
        BY <1>2, <1>3, <1>8, <1>9 DEF IInv, TableInv, CursorNeverAhead
    <2>4. SucceededIsComplete'
        BY <1>2, <1>3, <1>8 DEF IInv, TableInv, SucceededIsComplete
    <2> QED BY <2>1, <2>2, <2>3, <2>4 DEF TableInv
<1>11. RunView(w)'
    BY <1>2, <1>3, <1>4, <1>5, <1>9 DEF RunView
<1>12. WorkerInv(w)'
    BY <1>1, <1>2, <1>3, <1>4, <1>5, <1>11 DEF WorkerInv, PageSteps
<1>13. \A v \in Workers : v # w => WorkerInv(v)'
    BY <1>1, <1>3, <1>4, <1>7, OthersKeep
<1> QED BY <1>6, <1>10, <1>12, <1>13 DEF IInv

LEMMA ProgressStep ==
    ASSUME IInv, NEW w \in Workers, RecordPageProgress(w)
    PROVE  IInv'
<1> USE SyncAssumption
<1> DEFINE t == task[w]
<1>0. PICK r \in RunIds : r = t.run
    BY DEF IInv, WorkerInv, RecordPageProgress, RunSteps, TrySteps
<1> DEFINE n == t.end - t.cursor
           cur == NewCursor(t, runs[r].lastCursor)
           new == [runs[r] EXCEPT !.itemsSeen = runs[r].itemsSeen + n, !.lastCursor = cur]
<1>1. /\ t \in Task /\ pc[w] = "progress" /\ WorkerInv(w) /\ RunView(w) /\ PageView(w)
      /\ runs[r] \in Run /\ runs[r].key = t.key /\ runs[r].status = "running"
      /\ lock[t.key] = w
      /\ UNCHANGED <<raw, posts, asset, jobs, resolved, failures, lock, leaked, faults>>
    BY <1>0 DEF IInv, TypeOK, RecordPageProgress, WorkerInv, RunView, RunSteps, TrySteps,
                PageSteps
<1>2. /\ t.cursor \in Nat /\ t.end \in Nat /\ t.seen \in Nat /\ t.at = t.end
      /\ t.cursor <= t.end /\ t.end <= FeedLen /\ n \in Nat
      /\ runs[r].itemsSeen = t.seen /\ runs[r].lastCursor \in Nat
      /\ runs[r].lastCursor <= t.cursor
      /\ t.seen + n \in Nat
    BY <1>0, <1>1 DEF Task, PageView, RunView, Run
<1>3. cur \in Nat /\ runs[r].lastCursor <= cur /\ cur <= t.end
    BY <1>1, <1>2 DEF NewCursor, Task
<1>4. SeenNow(t) = t.seen + n
    BY DEF SeenNow, PageLen
<1>5. /\ new \in Run /\ new.key = t.key /\ new.status = "running"
      /\ new.itemsSeen = t.seen + n /\ new.lastCursor = cur
    BY <1>1, <1>2, <1>3 DEF Run
<1>6. runs' = [runs EXCEPT ![r] = new]
    BY <1>0 DEF RecordPageProgress, IInv, TypeOK, PageLen
<1>7. /\ runs'[r] = new /\ \A q \in RunIds : q # r => runs'[q] = runs[q]
      /\ runs' \in [RunIds -> Run]
    BY <1>5, <1>6 DEF IInv, TypeOK
<1>8. /\ pc'[w] = (IF t.seen + n >= MaxItems \/ LastPage(t) THEN "finish" ELSE "fetch")
      /\ task'[w] = [t EXCEPT !.seen = t.seen + n, !.cursor = t.end,
                              !.capped = (t.seen + n >= MaxItems)]
      /\ \A v \in Workers : v # w => pc'[v] = pc[v] /\ task'[v] = task[v]
    BY <1>4 DEF IInv, TypeOK, RecordPageProgress, Goto
<1>9. /\ task'[w].key = t.key /\ task'[w].run = r /\ task'[w].seen = t.seen + n
      /\ task'[w].cursor = t.end
    BY <1>0, <1>1, <1>8 DEF Task
<1>10. TypeOK'
    <2>1. task' \in [Workers -> Task]
        <3>1. task'[w] \in Task
            <4>1. (t.seen + n >= MaxItems) \in BOOLEAN
                OBVIOUS
            <4>2. t \in Task /\ t.seen + n \in Nat /\ t.end \in Nat
                BY <1>1, <1>2
            <4> HIDE DEF t, n
            <4>3. [t EXCEPT !.seen = t.seen + n, !.cursor = t.end,
                            !.capped = (t.seen + n >= MaxItems)] \in Task
                BY <4>1, <4>2, TaskAdvances, Zenon
            <4> QED BY <1>8, <4>3, Zenon
        <3>2. task' = [v \in Workers |-> task'[v]]
            BY DEF IInv, TypeOK, RecordPageProgress
        <3>3. \A v \in Workers : task'[v] \in Task
            BY <1>8, <3>1 DEF IInv, TypeOK
        <3> QED BY <3>2, <3>3
    <2> QED BY <1>1, <1>7, <2>1 DEF IInv, TypeOK, RecordPageProgress, Goto, Steps, TrySteps
<1> HIDE DEF new, n, cur
<1>11. Grows
    BY <1>1 DEF Grows
<1>12. \A q \in RunIds, i \in Items : Covered(q, i)' <=> Covered(q, i)
    BY <1>1 DEF Covered
<1>13. \A i \in Items : i <= t.end => Covered(r, i)
    BY <1>0, <1>1, <1>2 DEF RunView, PageView, Items
<1>14. TableInv'
    <2>1. AssetInv' /\ UnusedInv'
        BY <1>1, <1>5, <1>7 DEF IInv, TableInv, AssetInv, UnusedInv
    <2>2. OneRunningRun'
        BY <1>1, <1>5, <1>7 DEF IInv, TableInv, OneRunningRun
    <2>4. \A i \in Items : i <= cur => Covered(r, i)
        BY <1>2, <1>3, <1>13 DEF Items
    <2>5. CursorNeverAhead'
        BY <1>5, <1>7, <1>12, <2>4 DEF IInv, TableInv, CursorNeverAhead
    <2>6. SucceededIsComplete'
        BY <1>5, <1>7, <1>12 DEF IInv, TableInv, SucceededIsComplete
    <2> QED BY <2>1, <2>2, <2>5, <2>6 DEF TableInv
<1>15. RunView(w)'
    <2>1. \A i \in Items : i <= t.end => Covered(r, i)'
        BY <1>12, <1>13
    <2>2. cur <= t.end
        BY <1>3
    <2> QED BY <1>5, <1>7, <1>8, <1>9, <2>1, <2>2 DEF RunView
<1>16. pc'[w] = "finish" => t.seen + n >= MaxItems \/ t.end >= FeedLen
    <2>1. LastPage(t) => t.end = FeedLen
        <3>1. t.end - t.cursor = 0 => t.end = t.cursor
            BY <1>2
        <3> QED BY <1>1, <3>1 DEF LastPage, PageLen, PageView
    <2> QED BY <1>2, <1>8, <2>1
<1>17. WorkerInv(w)'
    BY <1>1, <1>5, <1>7, <1>8, <1>9, <1>15, <1>16 DEF WorkerInv, PageSteps
<1>18. \A v \in Workers : v # w => WorkerInv(v)'
    BY <1>0, <1>1, <1>7, <1>8, <1>11, OthersKeep DEF RunSteps, TrySteps
<1> QED BY <1>10, <1>14, <1>17, <1>18 DEF IInv

LEMMA FinishStep ==
    ASSUME IInv, NEW w \in Workers, FinishSucceeded(w) \/ FinishFailed(w)
    PROVE  IInv'
<1> USE SyncAssumption
<1> DEFINE t == task[w]
<1>0. PICK r \in RunIds : r = t.run
    BY DEF IInv, WorkerInv, FinishSucceeded, FinishFailed, RunSteps, TrySteps, CatchSteps
<1>1. PICK status \in {"succeeded", "partial", "failed"} :
          /\ FinishRun(w, status)
          /\ status = "succeeded" <=> pc[w] = "finish"
    BY DEF FinishSucceeded, FinishFailed
<1> DEFINE new == [runs[r] EXCEPT !.status = status, !.hitItemCap = t.capped]
<1>2. /\ t \in Task /\ pc[w] \in {"finish", "fail"} /\ WorkerInv(w)
      /\ pc'[w] = (IF pc[w] = "finish" THEN "mark" ELSE "markFailed")
      /\ runs[r] \in Run /\ runs[r].key = t.key /\ runs[r].status # "unused"
      /\ lock[t.key] = w
      /\ UNCHANGED <<raw, posts, asset, jobs, resolved, failures, lock, leaked, task, faults>>
      /\ \A v \in Workers : v # w => pc'[v] = pc[v]
    BY <1>0 DEF IInv, TypeOK, FinishSucceeded, FinishFailed, Goto, WorkerInv, RunSteps,
                TrySteps, CatchSteps
<1>3. /\ new \in Run /\ new.key = t.key /\ new.status = status
      /\ new.itemsSeen = runs[r].itemsSeen /\ new.lastCursor = runs[r].lastCursor
    BY <1>2 DEF Run, Statuses, Task
<1>4. runs' = [runs EXCEPT ![r] = new]
    BY <1>0, <1>1 DEF FinishRun, IInv, TypeOK
<1>5. /\ runs'[r] = new /\ \A q \in RunIds : q # r => runs'[q] = runs[q]
      /\ runs' \in [RunIds -> Run]
    BY <1>3, <1>4 DEF IInv, TypeOK
<1> HIDE DEF new
<1>6. TypeOK'
    BY <1>2, <1>5 DEF IInv, TypeOK, FinishSucceeded, FinishFailed, Goto, Steps, TrySteps,
                      CatchSteps
<1>7. Grows
    BY <1>2 DEF Grows
<1>8. \A q \in RunIds, i \in Items : Covered(q, i)' <=> Covered(q, i)
    BY <1>2 DEF Covered
<1>9. TableInv'
    <2>1. AssetInv' /\ UnusedInv' /\ OneRunningRun'
        BY <1>2, <1>3, <1>5 DEF IInv, TableInv, AssetInv, UnusedInv, OneRunningRun
    <2>2. CursorNeverAhead'
        BY <1>3, <1>5, <1>8 DEF IInv, TableInv, CursorNeverAhead
    <2>3. pc[w] = "finish" =>
              runs[r].itemsSeen >= MaxItems \/ \A i \in Items : Covered(r, i)
        <3> SUFFICES ASSUME pc[w] = "finish", ~(runs[r].itemsSeen >= MaxItems)
                     PROVE  \A i \in Items : Covered(r, i)
            OBVIOUS
        <3>1. RunView(w) /\ t.cursor >= FeedLen
            BY <1>0, <1>2 DEF WorkerInv, RunView, TrySteps
        <3>2. \A i \in Items : i <= t.cursor
            BY <1>2, <3>1 DEF Items, Task
        <3> QED BY <1>0, <3>1, <3>2 DEF RunView
    <2>4. SucceededIsComplete'
        BY <1>1, <1>3, <1>5, <1>8, <2>3 DEF IInv, TableInv, SucceededIsComplete
    <2> QED BY <2>1, <2>2, <2>4 DEF TableInv
<1>10. pc[w] = "finish" => RunView(w)'
    BY <1>0, <1>2, <1>3, <1>5, <1>8 DEF WorkerInv, RunView, TrySteps
<1>11. WorkerInv(w)'
    BY <1>0, <1>1, <1>2, <1>3, <1>5, <1>10 DEF WorkerInv, RunSteps, TrySteps, CatchSteps,
                                              PageSteps
<1>12. \A v \in Workers : v # w => WorkerInv(v)'
    BY <1>0, <1>2, <1>5, <1>7, OthersKeep DEF RunSteps, TrySteps, CatchSteps
<1> QED BY <1>6, <1>9, <1>11, <1>12 DEF IInv

LEMMA DownloadStep ==
    ASSUME IInv, NEW i \in Items, DownloadStarts(i)
    PROVE  IInv'
<1>1. /\ asset' = [asset EXCEPT ![i] = "taken"] /\ i \in jobs
      /\ UNCHANGED <<runs, raw, posts, jobs, lock, pc, task>>
    BY DEF DownloadStarts
<1>2. TypeOK'
    BY DEF IInv, TypeOK, DownloadStarts
<1>3. Grows
    BY <1>1 DEF IInv, TypeOK, Grows
<1>4. AssetInv'
    BY <1>1 DEF IInv, TypeOK, TableInv, AssetInv
<1>5. TableInv'
    BY <1>1, <1>3, <1>4, TablesKeep
<1>6. \A v \in Workers : WorkerInv(v)'
    <2> TAKE v \in Workers
    <2>1. pc[v] \in ItemSteps => task[v].at + 1 \in Items
        BY AtInItems
    <2> QED BY <1>1, <1>3, <2>1, FrameOne DEF IInv
<1> QED BY <1>2, <1>5, <1>6 DEF IInv

-----------------------------------------------------------------------------
LEMMA InitEstablishes == Init => IInv
<1> SUFFICES ASSUME Init PROVE IInv
    OBVIOUS
<1> USE SyncAssumption
<1>1. TypeOK
    <2>1. FreeRun(AnyKey) \in Run /\ NewTask(AnyKey) \in Task
        BY AnyKeyOk, NewTaskOk DEF FreeRun, Run, Statuses
    <2> QED BY <2>1 DEF Init, TypeOK, Steps
<1>2. \A r \in RunIds : /\ runs[r].status = "unused" /\ runs[r].itemsSeen = 0
                        /\ runs[r].lastCursor = 0
    BY DEF Init, FreeRun
<1>3. \A i \in Items : ~(i <= 0) /\ asset[i] = "none"
    BY DEF Init, Items
<1>4. TableInv
    BY <1>2, <1>3 DEF TableInv, AssetInv, UnusedInv, OneRunningRun, CursorNeverAhead,
                      SucceededIsComplete
<1>5. \A w \in Workers : pc[w] = "idle"
    BY DEF Init
<1>6. \A w \in Workers : WorkerInv(w)
    BY <1>5 DEF WorkerInv, RunSteps, TrySteps, CatchSteps, PageSteps
<1> QED BY <1>1, <1>4, <1>6 DEF IInv

(* The end of a session that no worker uses frees nothing a worker holds.   *)
LEMMA IdleStep ==
    ASSUME IInv, UNCHANGED vars \/ \E k \in Keys : SessionEnds(k)
    PROVE  IInv'
<1>1. /\ UNCHANGED <<runs, raw, posts, asset, jobs, resolved, failures, lock, pc, task, faults>>
      /\ leaked' \subseteq leaked
    BY DEF vars, tables, SessionEnds
<1>2. TypeOK'
    BY <1>1 DEF IInv, TypeOK
<1>3. Grows /\ AssetInv'
    BY <1>1 DEF IInv, TableInv, Grows, AssetInv
<1>4. TableInv'
    BY <1>1, <1>3, TablesKeep
<1>5. \A v \in Workers : WorkerInv(v)'
    <2> TAKE v \in Workers
    <2>1. pc[v] \in ItemSteps => task[v].at + 1 \in Items
        BY AtInItems
    <2> QED BY <1>1, <1>3, <2>1, FrameOne DEF IInv
<1> QED BY <1>2, <1>4, <1>5 DEF IInv

LEMMA InvStep == IInv /\ [Next]_vars => IInv'
<1> SUFFICES ASSUME IInv, [Next]_vars PROVE IInv'
    OBVIOUS
<1>1. ASSUME NEW w \in Workers, NEW k \in Keys, Acquire(w, k) PROVE IInv'
    BY <1>1, AcquireStep
<1>2. ASSUME NEW w \in Workers, WorkerStep(w) PROVE IInv'
    <2>1. ASSUME NEW r \in RunIds, Resume(w, r) \/ StartRun(w, r) PROVE IInv'
        BY <2>1, ResumeStep, StartRunStep
    <2>2. ASSUME NEW n \in 0 .. MaxPage, NEW more \in BOOLEAN, Fetch(w, n, more) PROVE IInv'
        BY <2>2, FetchStep
    <2>3. CASE Resolve(w) \/ MarkSyncSucceeded(w) \/ MarkSyncFailed(w)
        BY <2>3, OutsideStep
    <2>4. CASE RecordPage(w) \/ UpsertMedia(w) \/ EnsurePending(w) \/ EnqueueDownload(w)
        BY <2>4, RecordPageStep, UpsertStep, EnsurePendingStep, EnqueueStep
    <2>5. CASE CapAlreadyReached(w) \/ RecordPageProgress(w)
        BY <2>5, CapStep, ProgressStep
    <2>6. CASE FinishSucceeded(w) \/ FinishFailed(w) \/ Unlock(w)
        BY <2>6, FinishStep, ReleaseStep
    <2> QED BY <1>2, <2>1, <2>2, <2>3, <2>4, <2>5, <2>6 DEF WorkerStep
<1>3. ASSUME NEW w \in Workers, Fault(w) PROVE IInv'
    BY <1>3, OutsideStep, FailStep, ReleaseStep DEF Fault
<1>4. ASSUME NEW i \in Items, DownloadStarts(i) PROVE IInv'
    BY <1>4, DownloadStep
<1>5. CASE UNCHANGED vars \/ \E k \in Keys : SessionEnds(k)
    BY <1>5, IdleStep
<1> QED BY <1>1, <1>2, <1>3, <1>4, <1>5 DEF Next

-----------------------------------------------------------------------------
(* The inductive invariant: types, the tables, and every worker's view.     *)
THEOREM Invariance == Spec => []IInv
BY InitEstablishes, InvStep, PTL DEF Spec

(* The tables and every worker's local variables stay well typed; the page  *)
(* a worker persists never runs past the end of the edge.                   *)
THEOREM TypeCorrect == Spec => []TypeOK
<1>1. IInv => TypeOK
    BY DEF IInv
<1> QED BY Invariance, <1>1, PTL

(* Every post before a run's cursor is fully persisted, its download job    *)
(* included, whatever failed or died on the way: resuming loses nothing.    *)
THEOREM ResumeLosesNothing == Spec => []CursorNeverAhead
<1>1. IInv => CursorNeverAhead
    BY DEF IInv, TableInv
<1> QED BY Invariance, <1>1, PTL

(* A run that finishRun recorded as succeeded drained the edge or reached   *)
(* the item cap.                                                            *)
THEOREM SuccessMeansComplete == Spec => []SucceededIsComplete
<1>1. IInv => SucceededIsComplete
    BY DEF IInv, TableInv
<1> QED BY Invariance, <1>1, PTL

(* Per hashtag and kind at most one run is running, so an interrupted run   *)
(* is always the one that is resumed.                                       *)
THEOREM RunningRunIsUnique == Spec => []OneRunningRun
<1>1. IInv => OneRunningRun
    BY DEF IInv, TableInv
<1> QED BY Invariance, <1>1, PTL

(* The advisory lock keeps two workers from syncing the same edge at once.  *)
THEOREM SyncsAreExclusive == Spec => []NoConcurrentSync
<1>1. IInv => NoConcurrentSync
    BY DEF IInv, WorkerInv, NoConcurrentSync
<1> QED BY Invariance, <1>1, PTL

(* What a step does to the counters of the runs: they only grow, and the    *)
(* item count only below the cap.                                           *)
Kept ==
    \A r \in RunIds :
        /\ runs'[r].lastCursor >= runs[r].lastCursor
        /\ runs'[r].itemsSeen >= runs[r].itemsSeen
        /\ runs'[r].itemsSeen # runs[r].itemsSeen => runs[r].itemsSeen < MaxItems

LEMMA CountersStep == IInv /\ [Next]_vars => Kept
<1>1. ASSUME IInv, runs' = runs PROVE Kept
    BY <1>1 DEF Kept, IInv, TypeOK, Run
<1>2. ASSUME IInv, NEW w \in Workers, NEW r \in RunIds, StartRun(w, r) PROVE Kept
    <2>1. runs[r].itemsSeen = 0 /\ runs[r].lastCursor = 0
        BY <1>2 DEF IInv, TableInv, UnusedInv, StartRun, Unused
    <2>2. runs'[r].itemsSeen = 0 /\ runs'[r].lastCursor = 0
        BY <1>2 DEF IInv, TypeOK, StartRun, FreeRun
    <2>3. \A q \in RunIds : q # r => runs'[q] = runs[q]
        BY <1>2 DEF IInv, TypeOK, StartRun
    <2>4. \A q \in RunIds : runs[q].itemsSeen \in Nat /\ runs[q].lastCursor \in Nat
        BY <1>2 DEF IInv, TypeOK, Run
    <2> QED BY <2>1, <2>2, <2>3, <2>4 DEF Kept
<1>3. ASSUME IInv, NEW w \in Workers, RecordPageProgress(w) PROVE Kept
    <2> DEFINE t == task[w]
    <2>1. /\ t \in Task /\ t.run \in RunIds /\ RunView(w) /\ PageView(w)
          /\ runs[t.run] \in Run
        BY <1>3 DEF IInv, TypeOK, RecordPageProgress, WorkerInv, RunSteps, TrySteps, PageSteps
    <2>2. /\ t.end - t.cursor \in Nat /\ runs[t.run].lastCursor <= t.end
          /\ runs[t.run].itemsSeen \in Nat /\ runs[t.run].lastCursor \in Nat
          /\ runs[t.run].itemsSeen < MaxItems
        BY <2>1, SyncAssumption DEF Task, PageView, RunView, Run
    <2>3. /\ runs'[t.run].itemsSeen = runs[t.run].itemsSeen + (t.end - t.cursor)
          /\ runs'[t.run].lastCursor = NewCursor(t, runs[t.run].lastCursor)
          /\ \A q \in RunIds : q # t.run => runs'[q] = runs[q]
        BY <1>3, <2>1 DEF IInv, TypeOK, RecordPageProgress, PageLen, Run
    <2>4. \A q \in RunIds : runs[q].itemsSeen \in Nat /\ runs[q].lastCursor \in Nat
        BY <1>3 DEF IInv, TypeOK, Run
    <2>5. /\ runs'[t.run].itemsSeen >= runs[t.run].itemsSeen
          /\ runs'[t.run].lastCursor >= runs[t.run].lastCursor
        BY <2>1, <2>2, <2>3 DEF NewCursor, Task
    <2> QED BY <2>2, <2>3, <2>4, <2>5 DEF Kept
<1>4. ASSUME IInv, NEW w \in Workers, FinishSucceeded(w) \/ FinishFailed(w) PROVE Kept
    <2>1. task[w].run \in RunIds
        BY <1>4 DEF IInv, WorkerInv, FinishSucceeded, FinishFailed, RunSteps, TrySteps, CatchSteps
    <2>2. \A q \in RunIds : /\ runs'[q].itemsSeen = runs[q].itemsSeen
                            /\ runs'[q].lastCursor = runs[q].lastCursor
        BY <1>4, <2>1 DEF IInv, TypeOK, FinishSucceeded, FinishFailed, FinishRun, Run
    <2>3. \A q \in RunIds : runs[q].itemsSeen \in Nat /\ runs[q].lastCursor \in Nat
        BY <1>4 DEF IInv, TypeOK, Run
    <2> QED BY <2>2, <2>3 DEF Kept
<1>5. ASSUME IInv, [Next]_vars PROVE Kept
    <2> DEFINE Writes(w) == \/ \E r \in RunIds : StartRun(w, r)
                            \/ RecordPageProgress(w)
                            \/ FinishSucceeded(w) \/ FinishFailed(w)
    <2>1. ASSUME NEW w \in Workers, NEW k \in Keys, Acquire(w, k) PROVE runs' = runs
        BY <2>1 DEF Acquire, tables
    <2>2. ASSUME NEW w \in Workers, Fault(w) PROVE runs' = runs
        BY <2>2 DEF Fault, FailBeforeRun, Fail, FailInCatch, UnlockFails, Crash,
                    tables
    <2>3. ASSUME NEW i \in Items, DownloadStarts(i) PROVE runs' = runs
        BY <2>3 DEF DownloadStarts
    <2>4. ASSUME NEW w \in Workers, NEW n \in 0 .. MaxPage, NEW more \in BOOLEAN,
                 Fetch(w, n, more)
          PROVE  runs' = runs
        BY <2>4 DEF Fetch, tables
    <2>5. ASSUME NEW w \in Workers, NEW r \in RunIds, Resume(w, r) PROVE runs' = runs
        BY <2>5 DEF Resume
    <2>6. ASSUME NEW w \in Workers,
                 \/ Resolve(w) \/ CapAlreadyReached(w) \/ RecordPage(w) \/ UpsertMedia(w)
                 \/ EnsurePending(w) \/ EnqueueDownload(w) \/ MarkSyncSucceeded(w)
                 \/ MarkSyncFailed(w) \/ Unlock(w)
          PROVE  runs' = runs
        BY <2>6 DEF Resolve, CapAlreadyReached, RecordPage, UpsertMedia, EnsurePending,
                    EnqueueDownload, MarkSyncSucceeded, MarkSyncFailed, Unlock, tables
    <2>7. ASSUME NEW w \in Workers, WorkerStep(w) PROVE runs' = runs \/ Writes(w)
        BY <2>4, <2>5, <2>6, <2>7 DEF WorkerStep
    <2>8. CASE UNCHANGED vars \/ \E k \in Keys : SessionEnds(k)
        <3>1. runs' = runs BY <2>8 DEF vars, SessionEnds, tables
        <3> QED BY <1>1, <1>5, <3>1
    <2>9. ASSUME NEW w \in Workers, WorkerStep(w) PROVE Kept
        BY <1>1, <1>2, <1>3, <1>4, <1>5, <2>7, <2>9
    <2>10. CASE Next
        <3>1. ASSUME NEW w \in Workers, NEW k \in Keys, Acquire(w, k) PROVE Kept
            BY <1>1, <1>5, <2>1, <3>1
        <3>2. ASSUME NEW w \in Workers, Fault(w) PROVE Kept
            BY <1>1, <1>5, <2>2, <3>2
        <3>3. ASSUME NEW i \in Items, DownloadStarts(i) PROVE Kept
            BY <1>1, <1>5, <2>3, <3>3
        <3> QED BY <2>8, <2>9, <2>10, <3>1, <3>2, <3>3 DEF Next
    <2> QED BY <1>5, <2>8, <2>10
<1> QED BY <1>5

(* Neither the cursor nor the item count of a run ever goes back.           *)
THEOREM ProgressIsMonotone == Spec => ProgressIsKept
<1>1. IInv /\ [Next]_vars => \A r \in RunIds : /\ runs'[r].lastCursor >= runs[r].lastCursor
                                               /\ runs'[r].itemsSeen >= runs[r].itemsSeen
    BY CountersStep DEF Kept
<1> QED BY <1>1, Invariance, PTL DEF Spec, ProgressIsKept

(* No attempt takes a page once the pages of all attempts have reached the  *)
(* cap, however many posts Meta puts on a page.                             *)
THEOREM CapHolds == Spec => CapBoundsTheRun
<1>1. IInv /\ [Next]_vars =>
          \A r \in RunIds :
              runs'[r].itemsSeen # runs[r].itemsSeen => runs[r].itemsSeen < MaxItems
    BY CountersStep DEF Kept
<1> QED BY <1>1, Invariance, PTL DEF Spec, CapBoundsTheRun
-----------------------------------------------------------------------------
(* The refinement of ResumableScan needs more of a worker's view: its run   *)
(* is the one run of its edge that may be running, up to its last page its  *)
(* cursor is the stored one, and a run that fails was not given up before.  *)
ScanView(w) ==
    pc[w] \in RunSteps =>
       /\ \A q \in RunIds : runs[q].status = "running" /\ runs[q].key = task[w].key
                               => q = task[w].run
       /\ pc[w] \in {"fetch"} \cup PageSteps =>
             runs[task[w].run].lastCursor = task[w].cursor
       /\ pc[w] = "mark" => runs[task[w].run].status = "succeeded"
       /\ pc[w] = "fail" => runs[task[w].run].status \in {"running", "succeeded"}

ScanInv == \A w \in Workers : ScanView(w)

(* A step of w writes the rows of its own edge only. *)
LEMMA OthersScan ==
    ASSUME IInv, ScanInv, NEW w \in Workers,
           \A v \in Workers : v # w => pc'[v] = pc[v] /\ task'[v] = task[v],
           \A r \in RunIds : \/ runs'[r] = runs[r]
                             \/ /\ pc[w] # "idle" /\ runs'[r].key = task[w].key
                                /\ \/ runs[r].status = "unused"
                                   \/ pc[w] \in RunSteps /\ r = task[w].run
    PROVE  \A v \in Workers : v # w => ScanView(v)'
<1> SUFFICES ASSUME NEW v \in Workers, v # w, pc[v] \in RunSteps
             PROVE  ScanView(v)'
    BY DEF ScanView
<1>1. WorkerInv(v) /\ WorkerInv(w) /\ ScanView(v) /\ pc[v] # "idle"
    BY DEF IInv, ScanInv, RunSteps, TrySteps, CatchSteps
<1>2. pc[w] # "idle" => task[w].key # task[v].key
    BY <1>1 DEF WorkerInv
<1>3. task[v].run \in RunIds /\ runs[task[v].run].key = task[v].key
      /\ runs[task[v].run].status # "unused"
    BY <1>1 DEF WorkerInv
<1>4. pc[w] \in RunSteps => pc[w] # "idle" /\ runs[task[w].run].key = task[w].key
    BY <1>1 DEF WorkerInv, RunSteps, TrySteps, CatchSteps
<1>5. runs'[task[v].run] = runs[task[v].run]
    BY <1>2, <1>3, <1>4
<1>6. ASSUME NEW q \in RunIds, runs'[q].status = "running", runs'[q].key = task[v].key
      PROVE  q = task[v].run
    <2>1. runs'[q] = runs[q]
        BY <1>2, <1>6
    <2> QED BY <1>1, <1>6, <2>1 DEF ScanView
<1> QED BY <1>1, <1>5, <1>6 DEF ScanView

(* The steps that leave sync_runs alone. *)
LEMMA QuietScan ==
    ASSUME IInv, ScanInv, NEW w \in Workers, runs' = runs,
           \A v \in Workers : v # w => pc'[v] = pc[v] /\ task'[v] = task[v],
           ScanView(w)'
    PROVE  ScanInv'
<1>1. \A v \in Workers : v # w => ScanView(v)'
    BY OthersScan
<1> QED BY <1>1 DEF ScanInv

LEMMA OutsideScan ==
    ASSUME IInv, ScanInv, NEW w \in Workers, NEW k \in Keys,
           \/ Acquire(w, k) \/ Resolve(w) \/ FailBeforeRun(w) \/ MarkSyncSucceeded(w)
           \/ MarkSyncFailed(w) \/ FailInCatch(w) \/ Unlock(w) \/ UnlockFails(w)
           \/ Crash(w)
    PROVE  ScanInv'
<1>1. /\ runs' = runs /\ pc'[w] \notin RunSteps
      /\ \A v \in Workers : v # w => pc'[v] = pc[v] /\ task'[v] = task[v]
    BY DEF IInv, TypeOK, Acquire, Resolve, FailBeforeRun, MarkSyncSucceeded, MarkSyncFailed,
           FailInCatch, Unlock, UnlockFails, Crash, Goto, tables, RunSteps, TrySteps, CatchSteps
<1>2. ScanView(w)'
    BY <1>1 DEF ScanView
<1> QED BY <1>1, <1>2, QuietScan

LEMMA PageScan ==
    ASSUME IInv, ScanInv, NEW w \in Workers,
           \/ \E n \in 0 .. MaxPage, more \in BOOLEAN : Fetch(w, n, more)
           \/ CapAlreadyReached(w) \/ RecordPage(w) \/ UpsertMedia(w)
           \/ EnsurePending(w) \/ EnqueueDownload(w)
    PROVE  ScanInv'
<1>1. /\ runs' = runs
      /\ \A v \in Workers : v # w => pc'[v] = pc[v] /\ task'[v] = task[v]
      /\ pc[w] \in {"fetch"} \cup PageSteps
      /\ pc'[w] \in PageSteps \cup {"finish"}
    <2>1. pc \in [Workers -> Steps] /\ task \in [Workers -> Task]
        BY DEF IInv, TypeOK
    <2>2. CASE \E n \in 0 .. MaxPage, more \in BOOLEAN : Fetch(w, n, more)
        BY <2>1, <2>2 DEF Fetch, Goto, tables, PageSteps
    <2>3. CASE CapAlreadyReached(w)
        BY <2>1, <2>3 DEF CapAlreadyReached, Goto, tables
    <2>4. CASE RecordPage(w) \/ UpsertMedia(w)
        BY <2>1, <2>4 DEF RecordPage, UpsertMedia, NextItem, Goto, PageSteps
    <2>5. CASE EnsurePending(w)
        BY <2>1, <2>5 DEF EnsurePending, ItemDone, NextItem, Goto, PageSteps
    <2>6. CASE EnqueueDownload(w)
        BY <2>1, <2>6 DEF EnqueueDownload, ItemDone, NextItem, Goto, PageSteps
    <2> QED BY <2>2, <2>3, <2>4, <2>5, <2>6
<1>2. /\ task'[w].key = task[w].key /\ task'[w].run = task[w].run
      /\ task'[w].cursor = task[w].cursor
    <2>1. task \in [Workers -> Task] /\ task[w] \in Task
        BY DEF IInv, TypeOK
    <2>2. CASE \E n \in 0 .. MaxPage, more \in BOOLEAN : Fetch(w, n, more)
        <3>1. PICK n \in 0 .. MaxPage, more \in BOOLEAN : Fetch(w, n, more)
            BY <2>2
        <3>2. task'[w] = [task[w] EXCEPT !.end = task[w].cursor + n, !.at = task[w].cursor,
                                         !.more = more]
            BY <2>1, <3>1 DEF Fetch
        <3> QED BY <2>1, <3>2 DEF Task
    <2>3. CASE ItemDone(w)
        BY <2>1, <2>3 DEF ItemDone, Task
    <2> QED
        BY <2>2, <2>3 DEF CapAlreadyReached, RecordPage, UpsertMedia, EnsurePending,
                          EnqueueDownload
<1>3. ScanView(w) /\ pc[w] \in RunSteps
    BY <1>1 DEF ScanInv, RunSteps, TrySteps, PageSteps
<1>4. ScanView(w)'
    BY <1>1, <1>2, <1>3 DEF ScanView, PageSteps
<1> QED BY <1>1, <1>4, QuietScan

LEMMA FailScan ==
    ASSUME IInv, ScanInv, NEW w \in Workers, Fail(w)
    PROVE  ScanInv'
<1>1. /\ runs' = runs /\ pc[w] \in TrySteps /\ pc'[w] = "fail"
      /\ \A v \in Workers : v # w => pc'[v] = pc[v] /\ task'[v] = task[v]
      /\ task'[w].key = task[w].key /\ task'[w].run = task[w].run
    BY DEF IInv, TypeOK, Task, Fail, Goto, tables
<1>2. ScanView(w) /\ RunView(w) /\ pc[w] \in RunSteps
    BY <1>1 DEF IInv, ScanInv, WorkerInv, RunSteps
<1>3. runs[task[w].run].status \in {"running", "succeeded"}
    BY <1>2 DEF ScanView, RunView
<1>4. ScanView(w)'
    BY <1>1, <1>2, <1>3 DEF ScanView, PageSteps
<1> QED BY <1>1, <1>4, QuietScan

LEMMA BeginScan ==
    ASSUME IInv, ScanInv, NEW w \in Workers, NEW r \in RunIds, Resume(w, r) \/ StartRun(w, r)
    PROVE  ScanInv'
<1>1. /\ pc[w] = "load" /\ pc'[w] = "fetch"
      /\ \A v \in Workers : v # w => pc'[v] = pc[v] /\ task'[v] = task[v]
      /\ task'[w].key = task[w].key /\ task'[w].run = r
      /\ task'[w].cursor = runs'[r].lastCursor
    <2>1. /\ pc \in [Workers -> Steps] /\ task \in [Workers -> Task] /\ task[w] \in Task
          /\ pc[w] = "load" /\ Begin(w, r)
        BY DEF IInv, TypeOK, Resume, StartRun
    <2>2. task'[w] = [task[w] EXCEPT !.run = r, !.base = runs'[r].itemsSeen,
                                     !.seen = runs'[r].itemsSeen,
                                     !.cursor = runs'[r].lastCursor]
        BY <2>1 DEF Begin
    <2>3. /\ task'[w].key = task[w].key /\ task'[w].run = r
          /\ task'[w].cursor = runs'[r].lastCursor
        BY <2>1, <2>2 DEF Task
    <2> QED BY <2>1, <2>3 DEF Begin, Goto
<1>2. CASE Resume(w, r)
    <2>1. /\ runs' = runs /\ runs[r].key = task[w].key /\ runs[r].status = "running"
        BY <1>2 DEF Resume, FindResumableRun, Running
    <2>2. ScanView(w)'
        BY <1>1, <2>1 DEF IInv, TableInv, OneRunningRun, ScanView, PageSteps
    <2> QED BY <1>1, <2>1, <2>2, QuietScan
<1>3. CASE StartRun(w, r)
    <2>1. /\ runs[r].status = "unused" /\ Running(task[w].key) = {}
          /\ runs'[r].key = task[w].key
          /\ \A q \in RunIds : q # r => runs'[q] = runs[q]
        BY <1>3 DEF IInv, TypeOK, StartRun, FindResumableRun, Unused, FreeRun
    <2>2. \A q \in RunIds : runs'[q].status = "running" /\ runs'[q].key = task[w].key => q = r
        BY <2>1 DEF Running
    <2>3. ScanView(w)'
        BY <1>1, <2>2 DEF ScanView, PageSteps
    <2>4. \A v \in Workers : v # w => ScanView(v)'
        BY <1>1, <2>1, OthersScan
    <2> QED BY <2>3, <2>4 DEF ScanInv
<1> QED BY <1>2, <1>3

(* What writing the row of its run leaves of it. *)
LEMMA RowWritten ==
    ASSUME IInv, NEW w \in Workers,
           RecordPageProgress(w) \/ FinishSucceeded(w) \/ FinishFailed(w)
    PROVE  /\ pc[w] \in RunSteps /\ task[w].run \in RunIds
           /\ runs[task[w].run] \in Run /\ runs[task[w].run].key = task[w].key
           /\ \A q \in RunIds : q # task[w].run => runs'[q] = runs[q]
           /\ runs'[task[w].run].key = runs[task[w].run].key
           /\ \A v \in Workers : v # w => pc'[v] = pc[v] /\ task'[v] = task[v]
           /\ task'[w].key = task[w].key /\ task'[w].run = task[w].run
<1>1. pc[w] \in RunSteps
    BY DEF RecordPageProgress, FinishSucceeded, FinishFailed, RunSteps, TrySteps, CatchSteps
<1>2. /\ task[w].run \in RunIds /\ runs[task[w].run].key = task[w].key
      /\ runs[task[w].run] \in Run /\ task[w] \in Task
    BY <1>1 DEF IInv, TypeOK, WorkerInv
<1>3. /\ \A q \in RunIds : q # task[w].run => runs'[q] = runs[q]
      /\ runs'[task[w].run].key = runs[task[w].run].key
    BY <1>2 DEF IInv, TypeOK, Run, RecordPageProgress, FinishSucceeded, FinishFailed, FinishRun
<1>4. /\ \A v \in Workers : v # w => pc'[v] = pc[v] /\ task'[v] = task[v]
      /\ task'[w].key = task[w].key /\ task'[w].run = task[w].run
    <2>1. pc \in [Workers -> Steps] /\ task \in [Workers -> Task]
        BY DEF IInv, TypeOK
    <2>2. CASE RecordPageProgress(w)
        <3>1. task'[w] = [task[w] EXCEPT !.seen = SeenNow(task[w]), !.cursor = task[w].end,
                                         !.capped = SeenNow(task[w]) >= MaxItems]
            BY <2>1, <2>2 DEF RecordPageProgress
        <3> QED BY <1>2, <2>1, <2>2, <3>1 DEF RecordPageProgress, Goto, Task
    <2>3. CASE FinishSucceeded(w) \/ FinishFailed(w)
        BY <2>1, <2>3 DEF FinishSucceeded, FinishFailed, Goto
    <2> QED BY <2>2, <2>3
<1> QED BY <1>1, <1>2, <1>3, <1>4

LEMMA WriteScan ==
    ASSUME IInv, ScanInv, NEW w \in Workers,
           RecordPageProgress(w) \/ FinishSucceeded(w) \/ FinishFailed(w)
    PROVE  ScanInv'
<1> DEFINE t == task[w]
<1>1. ScanView(w) /\ WorkerInv(w) /\ pc[w] # "idle" /\ runs[t.run].key = t.key
    BY RowWritten DEF IInv, ScanInv, RunSteps, TrySteps, CatchSteps
<1>2. \A v \in Workers : v # w => ScanView(v)'
    BY <1>1, RowWritten, OthersScan
<1>3. \A q \in RunIds : runs'[q].status = "running" /\ runs'[q].key = t.key => q = t.run
    BY <1>1, RowWritten DEF ScanView
<1>4. CASE RecordPageProgress(w)
    <2>1. /\ pc'[w] \in {"fetch", "finish"}
          /\ pc'[w] = "fetch" => t.more
          /\ runs'[t.run].lastCursor = NewCursor(t, runs[t.run].lastCursor)
          /\ task'[w].cursor = t.end
        <3>1. pc \in [Workers -> Steps] /\ task \in [Workers -> Task] /\ t \in Task
              /\ runs \in [RunIds -> Run]
            BY DEF IInv, TypeOK
        <3>2. task'[w] = [t EXCEPT !.seen = SeenNow(t), !.cursor = t.end,
                                   !.capped = SeenNow(t) >= MaxItems]
            BY <1>4, <3>1 DEF RecordPageProgress
        <3>3. task'[w].cursor = t.end
            BY <3>1, <3>2 DEF Task
        <3>4. /\ pc'[w] \in {"fetch", "finish"}
              /\ pc'[w] = "fetch" => t.more
            BY <1>4, <3>1 DEF RecordPageProgress, Goto, LastPage
        <3>5. runs'[t.run].lastCursor = NewCursor(t, runs[t.run].lastCursor)
            BY <1>4, <3>1, RowWritten DEF RecordPageProgress, Run
        <3> QED BY <3>3, <3>4, <3>5
    <2>2. ScanView(w)'
        BY <1>3, <2>1, RowWritten DEF ScanView, NewCursor, PageSteps
    <2> QED BY <1>2, <2>2 DEF ScanInv
<1>5. CASE FinishSucceeded(w)
    <2>1. pc'[w] = "mark" /\ runs'[t.run].status = "succeeded"
        BY <1>5, RowWritten DEF IInv, TypeOK, Run, FinishSucceeded, FinishRun, Goto
    <2>2. ScanView(w)'
        BY <1>3, <2>1, RowWritten DEF ScanView, PageSteps
    <2> QED BY <1>2, <2>2 DEF ScanInv
<1>6. CASE FinishFailed(w)
    <2>1. pc'[w] = "markFailed"
        BY <1>6 DEF IInv, TypeOK, FinishFailed, Goto
    <2>2. ScanView(w)'
        BY <1>3, <2>1, RowWritten DEF ScanView, PageSteps
    <2> QED BY <1>2, <2>2 DEF ScanInv
<1> QED BY <1>4, <1>5, <1>6

LEMMA ScanInvStep == IInv /\ ScanInv /\ [Next]_vars => ScanInv'
<1> SUFFICES ASSUME IInv, ScanInv, [Next]_vars PROVE ScanInv'
    OBVIOUS
<1>1. ASSUME NEW w \in Workers, NEW k \in Keys, Acquire(w, k) PROVE ScanInv'
    BY <1>1, OutsideScan
<1>2. ASSUME NEW w \in Workers, WorkerStep(w) PROVE ScanInv'
    <2>1. ASSUME NEW r \in RunIds, Resume(w, r) \/ StartRun(w, r) PROVE ScanInv'
        BY <2>1, BeginScan
    <2>2. CASE Resolve(w) \/ MarkSyncSucceeded(w) \/ MarkSyncFailed(w) \/ Unlock(w)
        BY <2>2, OutsideScan, AnyKeyOk
    <2>3. CASE \/ \E n \in 0 .. MaxPage, more \in BOOLEAN : Fetch(w, n, more)
               \/ CapAlreadyReached(w) \/ RecordPage(w) \/ UpsertMedia(w)
               \/ EnsurePending(w) \/ EnqueueDownload(w)
        BY <2>3, PageScan
    <2>4. CASE RecordPageProgress(w) \/ FinishSucceeded(w) \/ FinishFailed(w)
        BY <2>4, WriteScan
    <2> QED BY <1>2, <2>1, <2>2, <2>3, <2>4 DEF WorkerStep
<1>3. ASSUME NEW w \in Workers, Fault(w) PROVE ScanInv'
    BY <1>3, OutsideScan, FailScan, AnyKeyOk DEF Fault
<1>4. CASE \/ \E i \in Items : DownloadStarts(i)
           \/ \E k \in Keys : SessionEnds(k)
           \/ UNCHANGED vars
    <2>1. UNCHANGED <<runs, pc, task>>
        BY <1>4 DEF DownloadStarts, SessionEnds, vars, tables
    <2> QED BY <2>1 DEF ScanInv, ScanView
<1> QED BY <1>1, <1>2, <1>3, <1>4 DEF Next

LEMMA ScanInvariant == Spec => [](IInv /\ ScanInv)
<1>1. Init => ScanInv
    BY DEF Init, ScanInv, ScanView, RunSteps, TrySteps, CatchSteps
<1> QED BY <1>1, InitEstablishes, InvStep, ScanInvStep, PTL DEF Spec

-----------------------------------------------------------------------------
(* The phases of a run. *)
LEMMA Phases ==
    /\ PhaseOf("unused") = "unused" /\ PhaseOf("running") = "open"
    /\ PhaseOf("succeeded") = "complete"
    /\ PhaseOf("partial") = "abandoned" /\ PhaseOf("failed") = "abandoned"
    /\ \A status \in Statuses : PhaseOf(status) = "open" => status = "running"
BY DEF PhaseOf, Statuses

(* A run as the row of a scan. *)
LEMMA RowOf ==
    ASSUME NEW r \in RunIds
    PROVE  /\ scanBar[r] = [key |-> runs[r].key, phase |-> PhaseOf(runs[r].status),
                            at |-> runs[r].lastCursor, count |-> runs[r].itemsSeen]
           /\ scanBar[r].key = runs[r].key /\ scanBar[r].phase = PhaseOf(runs[r].status)
           /\ scanBar[r].at = runs[r].lastCursor /\ scanBar[r].count = runs[r].itemsSeen
           /\ \A i \in Items : i \in fetchedBar[r] <=> <<r, i>> \in raw
           /\ \A i \in Items : i \in fetchedBar[r] \cap storedBar <=> Covered(r, i)
BY DEF scanBar, fetchedBar, storedBar, Covered

(* The row of r changes alone. *)
LEMMA RowChanges ==
    ASSUME NEW r \in RunIds, \A q \in RunIds : q # r => runs'[q] = runs[q]
    PROVE  scanBar' = [scanBar EXCEPT ![r] = scanBar'[r]]
BY DEF scanBar

LEMMA NoRivals ==
    ASSUME IInv, NEW r \in RunIds, NEW k,
           \A q \in RunIds : runs[q].status = "running" /\ runs[q].key = k => q = r
    PROVE  Scan!Rivals(r, k) = {}
<1>1. \A q \in RunIds : runs[q].status \in Statuses
    BY DEF IInv, TypeOK, Run
<1> QED BY <1>1, RowOf, Phases DEF Scan!Rivals, Scan!IsOpen

(* Steps the scan does not see. *)
LEMMA HiddenStep ==
    ASSUME UNCHANGED <<runs, raw, posts, asset, jobs>>
    PROVE  UNCHANGED Scan!vars
BY DEF Scan!vars, scanBar, fetchedBar, storedBar

LEMMA DownloadHidden ==
    ASSUME IInv, NEW i \in Items, DownloadStarts(i)
    PROVE  UNCHANGED Scan!vars
<1>1. /\ UNCHANGED <<runs, raw, posts, jobs>>
      /\ \A j \in Items : asset'[j] # "none" <=> asset[j] # "none"
    BY DEF DownloadStarts, IInv, TypeOK
<1>2. UNCHANGED storedBar
    BY <1>1 DEF storedBar, IInv, TypeOK
<1> QED BY <1>1, <1>2 DEF Scan!vars, scanBar, fetchedBar

LEMMA StartOpens ==
    ASSUME IInv, NEW w \in Workers, NEW r \in RunIds, StartRun(w, r)
    PROVE  Scan!Next
<1> DEFINE k == task[w].key
<1>1. /\ k \in Keys /\ runs[r].status = "unused" /\ Running(k) = {}
      /\ runs' = [runs EXCEPT ![r] = [FreeRun(k) EXCEPT !.status = "running"]]
      /\ UNCHANGED <<raw, posts, asset, jobs>>
    BY DEF IInv, TypeOK, Task, StartRun, Begin, FindResumableRun, Unused
<1>2. runs'[r] = [FreeRun(k) EXCEPT !.status = "running"]
      /\ \A q \in RunIds : q # r => runs'[q] = runs[q]
    BY <1>1 DEF IInv, TypeOK
<1>3. /\ runs'[r].key = k /\ runs'[r].status = "running"
      /\ runs'[r].lastCursor = 0 /\ runs'[r].itemsSeen = 0
    BY <1>2 DEF FreeRun
<1>4. scanBar'[r] = Scan!Row(k, "open", 0, 0)
    BY <1>3, Phases DEF scanBar, Scan!Row
<1>5. Scan!Rivals(r, k) = {}
    BY <1>1, NoRivals DEF Running
<1>6. UNCHANGED <<fetchedBar, storedBar>>
    BY <1>1 DEF fetchedBar, storedBar
<1>7. Scan!Open(r, k)
    BY <1>1, <1>2, <1>4, <1>5, <1>6, RowOf, RowChanges, Phases DEF Scan!Open
<1> QED BY <1>1, <1>7 DEF Scan!Next, Scan!Step

(* What a worker that persists a page knows of the open scan. *)
LEMMA ScanOfPage ==
    ASSUME IInv, ScanInv, NEW w \in Workers, pc[w] \in PageSteps
    PROVE  /\ task[w].run \in RunIds /\ task[w] \in Task
           /\ Scan!IsOpen(task[w].run)
           /\ scanBar[task[w].run].at = task[w].cursor
           /\ scanBar[task[w].run].count = task[w].seen
           /\ Scan!Allowed(task[w].run, task[w].end)
           /\ PageView(w) /\ RunView(w)
           /\ task[w].end \in 0 .. FeedLen
<1> DEFINE t == task[w]
<1>1. pc[w] \in TrySteps /\ pc[w] \in RunSteps /\ pc[w] # "mark"
    BY DEF PageSteps, TrySteps, RunSteps
<1>2. /\ t.run \in RunIds /\ t \in Task /\ RunView(w) /\ PageView(w)
      /\ runs[t.run].lastCursor = t.cursor
    BY <1>1 DEF IInv, TypeOK, WorkerInv, ScanInv, ScanView
<1>3. /\ runs[t.run].status = "running" /\ runs[t.run].itemsSeen = t.seen
    BY <1>1, <1>2 DEF RunView
<1>4. /\ scanBar[t.run].at = t.cursor /\ scanBar[t.run].count = t.seen
      /\ scanBar[t.run].phase = "open"
    BY <1>2, <1>3, RowOf, Phases
<1>5. /\ t.cursor <= t.end /\ t.end <= FeedLen /\ t.seen < MaxItems
      /\ t.end \in Nat
    BY <1>2, SyncAssumption DEF PageView, Task
<1> QED BY <1>2, <1>4, <1>5, SyncAssumption DEF Scan!IsOpen, Scan!Allowed

LEMMA PageReads ==
    ASSUME IInv, ScanInv, NEW w \in Workers, RecordPage(w)
    PROVE  Scan!Next
<1> DEFINE t == task[w]
<1>1. /\ pc[w] = "raw" /\ UNCHANGED <<runs, posts, asset, jobs>>
      /\ raw' = raw \cup {<<t.run, i>> : i \in (t.at + 1) .. t.end}
    BY DEF RecordPage
<1>2. /\ t.run \in RunIds /\ Scan!IsOpen(t.run) /\ Scan!Allowed(t.run, t.end)
      /\ scanBar[t.run].at = t.at /\ t.end \in 0 .. FeedLen
      /\ t.at \in Nat /\ t.end \in Nat /\ t.end <= FeedLen
    BY <1>1, ScanOfPage DEF PageSteps, PageView, Task
<1>3. (t.at + 1) .. t.end \subseteq Items
    BY <1>2, SyncAssumption DEF Items
<1>4. fetchedBar' = [fetchedBar EXCEPT ![t.run] = fetchedBar[t.run] \cup Scan!Ahead(t.run, t.end)]
    <2>1. Scan!Ahead(t.run, t.end) = (t.at + 1) .. t.end
        BY <1>2 DEF Scan!Ahead
    <2>2. \A r \in RunIds, i \in Items :
             <<r, i>> \in raw' <=> <<r, i>> \in raw \/ (r = t.run /\ i \in (t.at + 1) .. t.end)
        BY <1>1
    <2> QED BY <1>2, <1>3, <2>1, <2>2 DEF fetchedBar
<1>5. UNCHANGED <<scanBar, storedBar>>
    BY <1>1 DEF scanBar, storedBar
<1>6. Scan!Read(t.run, t.end)
    BY <1>2, <1>4, <1>5 DEF Scan!Read
<1> QED BY <1>2, <1>6 DEF Scan!Next, Scan!Step

(* The writes of an item concern that item. *)
LEMMA ItemStores ==
    ASSUME IInv, ScanInv, NEW w \in Workers,
           UpsertMedia(w) \/ EnsurePending(w) \/ EnqueueDownload(w)
    PROVE  Scan!Next \/ UNCHANGED Scan!vars
<1> DEFINE t == task[w]
           i == t.at + 1
<1>1. pc[w] \in ItemSteps /\ UNCHANGED <<runs, raw>>
    BY DEF UpsertMedia, EnsurePending, EnqueueDownload, ItemSteps
<1>2. i \in Items
    BY <1>1, AtInItems
<1>3. /\ posts' \in {posts, posts \cup {i}} /\ jobs' \in {jobs, jobs \cup {i}}
      /\ \A j \in Items \ {i} : asset'[j] = asset[j]
      /\ asset[i] # "none" => asset'[i] # "none"
    BY <1>2 DEF IInv, TypeOK, UpsertMedia, EnsurePending, EnqueueDownload
<1>4. storedBar' \in {storedBar, storedBar \cup {i}}
    <2>1. posts \subseteq Items /\ posts' \subseteq Items
        BY <1>2, <1>3 DEF IInv, TypeOK
    <2>2. \A j \in Items : j \in storedBar <=>
                /\ j \in posts /\ asset[j] # "none" /\ (j \in WithUrl => j \in jobs)
        BY DEF storedBar
    <2>3. \A j \in Items : j \in storedBar' <=>
                /\ j \in posts' /\ asset'[j] # "none" /\ (j \in WithUrl => j \in jobs')
        BY DEF storedBar
    <2>4. storedBar \subseteq Items /\ storedBar' \subseteq Items
        BY <2>1 DEF storedBar
    <2>5. \A j \in Items \ {i} : j \in storedBar' <=> j \in storedBar
        BY <1>3, <2>2, <2>3
    <2>6. i \in storedBar => i \in storedBar'
        BY <1>2, <1>3, <2>2, <2>3
    <2> QED BY <1>2, <2>4, <2>5, <2>6
<1>5. UNCHANGED <<scanBar, fetchedBar>>
    BY <1>1 DEF scanBar, fetchedBar
<1>6. CASE storedBar' = storedBar
    BY <1>5, <1>6 DEF Scan!vars
<1>7. CASE storedBar' = storedBar \cup {i}
    <2>1. /\ t.run \in RunIds /\ Scan!IsOpen(t.run) /\ scanBar[t.run].at = t.cursor
          /\ PageView(w) /\ t \in Task
        BY <1>1, ScanOfPage DEF PageSteps, ItemSteps
    <2>2. t.cursor < i /\ i <= t.end /\ pc[w] # "raw"
        BY <1>1, <2>1 DEF PageView, Task, ItemSteps
    <2>3. <<t.run, i>> \in raw
        BY <1>2, <2>1, <2>2 DEF PageView
    <2>4. Scan!Store(t.run, i)
        BY <1>2, <1>5, <1>7, <2>1, <2>2, <2>3, RowOf DEF Scan!Store
    <2> QED BY <1>2, <2>1, <2>4 DEF Scan!Next, Scan!Step, Items
<1> QED BY <1>4, <1>6, <1>7

LEMMA ProgressAdvances ==
    ASSUME IInv, ScanInv, NEW w \in Workers, RecordPageProgress(w)
    PROVE  Scan!Next
<1> DEFINE t == task[w]
           to == NewCursor(t, runs[t.run].lastCursor)
<1>1. pc[w] = "progress" /\ UNCHANGED <<raw, posts, asset, jobs>>
    BY DEF RecordPageProgress
<1>2. /\ t.run \in RunIds /\ Scan!IsOpen(t.run) /\ Scan!Allowed(t.run, t.end)
      /\ scanBar[t.run].at = t.cursor /\ scanBar[t.run].count = t.seen
      /\ t.end \in 0 .. FeedLen /\ t \in Task /\ PageView(w)
    BY <1>1, ScanOfPage DEF PageSteps
<1>3. t.at = t.end /\ t.cursor \in Nat /\ t.cursor <= t.end /\ (~t.more => t.end = FeedLen)
    BY <1>1, <1>2 DEF PageView, Task
<1>4. Scan!Ahead(t.run, t.end) \subseteq fetchedBar[t.run] \cap storedBar
    <2> SUFFICES ASSUME NEW i \in (t.cursor + 1) .. t.end
                 PROVE  i \in fetchedBar[t.run] \cap storedBar
        BY <1>2 DEF Scan!Ahead
    <2>1. i \in Items /\ t.cursor < i /\ i <= t.at
        BY <1>2, <1>3, SyncAssumption DEF Items
    <2>2. Covered(t.run, i)
        BY <1>2, <2>1 DEF PageView
    <2> QED BY <1>2, <2>1, <2>2, RowOf
<1>5. /\ to = t.end \/ (t.end = FeedLen /\ to = scanBar[t.run].at)
      /\ to \in 0 .. FeedLen
    <2>1. scanBar[t.run].at = runs[t.run].lastCursor
        BY <1>2, RowOf
    <2> QED BY <1>2, <1>3, <2>1, SyncAssumption DEF NewCursor, Task
<1>6. /\ runs'[t.run] = [runs[t.run] EXCEPT !.itemsSeen = runs[t.run].itemsSeen + PageLen(t),
                                            !.lastCursor = to]
      /\ \A q \in RunIds : q # t.run => runs'[q] = runs[q]
    BY <1>2 DEF IInv, TypeOK, RecordPageProgress
<1>7. /\ runs'[t.run].key = runs[t.run].key /\ runs'[t.run].status = runs[t.run].status
      /\ runs'[t.run].itemsSeen = runs[t.run].itemsSeen + PageLen(t)
      /\ runs'[t.run].lastCursor = to
    <2>1. runs[t.run] \in Run
        BY <1>2 DEF IInv, TypeOK
    <2> QED BY <1>6, <2>1 DEF Run
<1>8. scanBar'[t.run] = Scan!Row(scanBar[t.run].key, "open", to,
                             scanBar[t.run].count + (t.end - scanBar[t.run].at))
    <2>1. PageLen(t) = t.end - scanBar[t.run].at
        BY <1>2 DEF PageLen
    <2>2. scanBar'[t.run] = [key |-> runs[t.run].key, phase |-> PhaseOf(runs[t.run].status),
                             at |-> to, count |-> runs[t.run].itemsSeen + PageLen(t)]
        BY <1>2, <1>7 DEF scanBar
    <2>3. /\ scanBar[t.run].key = runs[t.run].key /\ scanBar[t.run].phase = "open"
          /\ scanBar[t.run].phase = PhaseOf(runs[t.run].status)
          /\ scanBar[t.run].count = runs[t.run].itemsSeen
        BY <1>2, RowOf DEF Scan!IsOpen
    <2> QED BY <2>1, <2>2, <2>3 DEF Scan!Row
<1>9. UNCHANGED <<fetchedBar, storedBar>>
    BY <1>1 DEF fetchedBar, storedBar
<1>10. scanBar' = [scanBar EXCEPT ![t.run] = scanBar'[t.run]]
    BY <1>2, <1>6, RowChanges
<1>11. Scan!Advance(t.run, t.end, to)
    BY <1>2, <1>4, <1>5, <1>8, <1>9, <1>10 DEF Scan!Advance
<1> QED BY <1>2, <1>5, <1>11 DEF Scan!Next, Scan!Step

(* The end of a run, written by the one sync that worked on it. *)
LEMMA FinishCloses ==
    ASSUME IInv, ScanInv, NEW w \in Workers, FinishSucceeded(w) \/ FinishFailed(w)
    PROVE  Scan!Next
<1> DEFINE t == task[w]
           status == runs'[t.run].status
<1>1. /\ t.run \in RunIds /\ t \in Task /\ pc[w] \in RunSteps /\ runs[t.run] \in Run
      /\ runs[t.run].key = t.key /\ WorkerInv(w) /\ ScanView(w)
      /\ UNCHANGED <<raw, posts, asset, jobs>>
    BY RowWritten DEF IInv, ScanInv, TypeOK, FinishSucceeded, FinishFailed
<1>2. /\ \A q \in RunIds : q # t.run => runs'[q] = runs[q]
      /\ runs'[t.run].key = runs[t.run].key
      /\ runs'[t.run].lastCursor = runs[t.run].lastCursor
      /\ runs'[t.run].itemsSeen = runs[t.run].itemsSeen
      /\ IF pc[w] = "finish" THEN status = "succeeded" ELSE status \in {"partial", "failed"}
    BY <1>1 DEF IInv, TypeOK, Run, FinishSucceeded, FinishFailed, FinishRun
<1>3. scanBar'[t.run] = [scanBar[t.run] EXCEPT !.phase = PhaseOf(status)]
    <2>1. scanBar'[t.run] = [key |-> runs[t.run].key, phase |-> PhaseOf(status),
                             at |-> runs[t.run].lastCursor, count |-> runs[t.run].itemsSeen]
        BY <1>1, <1>2 DEF scanBar
    <2>2. scanBar[t.run] = [key |-> runs[t.run].key, phase |-> PhaseOf(runs[t.run].status),
                            at |-> runs[t.run].lastCursor, count |-> runs[t.run].itemsSeen]
        BY <1>1, RowOf
    <2> QED BY <2>1, <2>2
<1>4. scanBar' = [scanBar EXCEPT ![t.run] = scanBar'[t.run]] /\ UNCHANGED <<fetchedBar, storedBar>>
    BY <1>1, <1>2, RowChanges DEF fetchedBar, storedBar
<1>5. CASE FinishSucceeded(w)
    <2>1. pc[w] = "finish" /\ RunView(w) /\ runs[t.run].status = "running"
        BY <1>1, <1>5 DEF FinishSucceeded, WorkerInv, RunView, TrySteps
    <2>2. scanBar[t.run].count >= MaxItems \/ 1 .. FeedLen \subseteq fetchedBar[t.run] \cap storedBar
        <3>1. t.seen >= MaxItems \/ t.cursor >= FeedLen
            BY <1>1, <2>1 DEF WorkerInv
        <3>2. CASE t.seen >= MaxItems
            BY <1>1, <2>1, <3>2, RowOf DEF RunView
        <3>3. CASE t.cursor >= FeedLen
            <4>1. \A i \in Items : Covered(t.run, i)
                BY <1>1, <2>1, <3>3, SyncAssumption DEF RunView, Items, Task
            <4> QED BY <1>1, <4>1, RowOf DEF Items
        <3> QED BY <3>1, <3>2, <3>3
    <2>3. Scan!IsOpen(t.run)
        BY <1>1, <2>1, RowOf, Phases DEF Scan!IsOpen
    <2>4. PhaseOf(status) = "complete"
        BY <1>2, <2>1, Phases
    <2>5. Scan!Complete(t.run)
        BY <1>3, <1>4, <2>2, <2>3, <2>4 DEF Scan!Complete
    <2> QED BY <1>1, <2>5 DEF Scan!Next, Scan!Step
<1>6. CASE FinishFailed(w)
    <2>1. pc[w] = "fail" /\ runs[t.run].status \in {"running", "succeeded"}
        BY <1>1, <1>6 DEF FinishFailed, ScanView
    <2>2. scanBar[t.run].phase \in {"open", "complete"} /\ scanBar[t.run].key = t.key
        BY <1>1, <2>1, RowOf, Phases
    <2>3. Scan!Rivals(t.run, t.key) = {}
        BY <1>1, NoRivals DEF ScanView
    <2>4. PhaseOf(status) = "abandoned"
        BY <1>2, <2>1, Phases
    <2>5. Scan!Abandon(t.run)
        BY <1>3, <1>4, <2>2, <2>3, <2>4 DEF Scan!Abandon
    <2> QED BY <1>1, <2>5 DEF Scan!Next, Scan!Step
<1> QED BY <1>5, <1>6

LEMMA ScanStep == IInv /\ ScanInv /\ [Next]_vars => [Scan!Next]_(Scan!vars)
<1> SUFFICES ASSUME IInv, ScanInv, [Next]_vars PROVE Scan!Next \/ UNCHANGED Scan!vars
    OBVIOUS
<1> DEFINE Simulated == Scan!Next \/ UNCHANGED Scan!vars
<1>1. ASSUME NEW w \in Workers, NEW k \in Keys, Acquire(w, k) PROVE Simulated
    BY <1>1, HiddenStep DEF Acquire, tables
<1>2. ASSUME NEW w \in Workers, WorkerStep(w) PROVE Simulated
    <2>1. CASE \E n \in 0 .. MaxPage, more \in BOOLEAN : Fetch(w, n, more)
        BY <2>1, HiddenStep DEF Fetch, tables
    <2>2. CASE \/ Resolve(w) \/ CapAlreadyReached(w) \/ MarkSyncSucceeded(w)
               \/ MarkSyncFailed(w) \/ Unlock(w)
        BY <2>2, HiddenStep
        DEF Resolve, CapAlreadyReached, MarkSyncSucceeded, MarkSyncFailed, Unlock, tables
    <2>3. ASSUME NEW r \in RunIds, Resume(w, r) PROVE Simulated
        BY <2>3, HiddenStep DEF Resume, Begin
    <2>4. ASSUME NEW r \in RunIds, StartRun(w, r) PROVE Simulated
        BY <2>4, StartOpens
    <2>5. CASE RecordPage(w) \/ RecordPageProgress(w) \/ FinishSucceeded(w) \/ FinishFailed(w)
        BY <2>5, PageReads, ProgressAdvances, FinishCloses
    <2>6. CASE UpsertMedia(w) \/ EnsurePending(w) \/ EnqueueDownload(w)
        BY <2>6, ItemStores
    <2> HIDE DEF Simulated
    <2> QED BY <1>2, <2>1, <2>2, <2>3, <2>4, <2>5, <2>6 DEF WorkerStep
<1>3. ASSUME NEW w \in Workers, Fault(w) PROVE Simulated
    BY <1>3, HiddenStep DEF Fault, FailBeforeRun, Fail, FailInCatch, UnlockFails, Crash, tables
<1>4. ASSUME NEW i \in Items, DownloadStarts(i) PROVE Simulated
    BY <1>4, DownloadHidden
<1>5. ASSUME UNCHANGED vars \/ \E k \in Keys : SessionEnds(k) PROVE Simulated
    BY <1>5, HiddenStep DEF vars, SessionEnds, tables
<1> HIDE DEF Simulated
<1>6. Simulated
    BY <1>1, <1>2, <1>3, <1>4, <1>5 DEF Next
<1> QED BY <1>6 DEF Simulated

LEMMA ScanInit == Init => Scan!Init
<1> SUFFICES ASSUME Init PROVE Scan!Init
    OBVIOUS
<1>1. \A r \in RunIds : scanBar[r] = Scan!Row(AnyKey, "unused", 0, 0)
    BY Phases DEF Init, scanBar, FreeRun, Scan!Row
<1>2. scanBar \in [RunIds -> {Scan!Row(k, "unused", 0, 0) : k \in Keys}]
    BY <1>1, AnyKeyOk DEF scanBar
<1>3. fetchedBar = [r \in RunIds |-> {}] /\ storedBar = {}
    BY DEF Init, fetchedBar, storedBar
<1> QED BY <1>2, <1>3 DEF Scan!Init

(* Every step of the sync service, whatever fails, dies or runs beside it,  *)
(* is a step of one resumable scan or changes nothing such a scan knows.    *)
THEOREM ScanIsImplemented == Spec => ImplementsScan
BY ScanInvariant, ScanInit, ScanStep, PTL DEF Spec, ImplementsScan, Scan!Spec
=============================================================================
