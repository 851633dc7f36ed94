---------------------------- MODULE HashtagSync ----------------------------
(***************************************************************************)
(* A resumable sync of one edge (top or recent media) of a hashtag:        *)
(* HashtagSyncService.sync with the repositories and the advisory lock it  *)
(* calls (src/src/api/services/HashtagSyncService.ts,                      *)
(* src/src/api/repositories, src/src/database/advisoryLock.ts).            *)
(*                                                                         *)
(* Worker slots run syncs concurrently, in one process or in several.  One *)
(* action is one awaited call: the database statement or Meta request and  *)
(* the synchronous code up to the next await.  Any of them may fail, which *)
(* takes the code's own error path, and a worker may die between any two,  *)
(* which frees its session lock and leaves the tables as they are.         *)
(*                                                                         *)
(* The posts of an edge are the positions 1 .. FeedLen in the order Meta   *)
(* lists them; the cursor after post c is c, and 0 stands for no cursor.   *)
(* The same posts may be listed by every edge.  MediaPost rows and history *)
(* are reduced to whether a post was stored, downloads to their first step.*)
(***************************************************************************)
EXTENDS Naturals, FiniteSets

CONSTANTS Workers,    \* slots that run syncs
          Hashtags,
          RunIds,     \* bound: the sync_runs rows a behaviour may create
          FeedLen,    \* posts listed by an edge
          WithUrl,    \* the posts Meta returns with a media_url
          MaxItems,   \* maxMediaPerSync / SYNC_MAX_MEDIA_PER_RUN
          MaxPage,    \* bound: the posts of one answer of Meta, asked for or not
          MaxFaults,  \* bound: outages (failed calls) and dead workers
          NoWorker, NoRun

Items == 1 .. FeedLen

ASSUME SyncAssumption ==
    /\ Hashtags # {}
    /\ FeedLen \in Nat
    /\ WithUrl \subseteq Items
    /\ MaxItems \in Nat
    /\ MaxPage \in Nat \ {0}
    /\ MaxFaults \in Nat
    /\ NoWorker \notin Workers
    /\ NoRun \notin RunIds

VARIABLES runs,       \* sync_runs
          raw,        \* data_points: <<run, post>>
          posts,      \* media_posts
          asset,      \* media_assets: status of a post's row
          jobs,       \* posts a DOWNLOAD_MEDIA_ASSET job was ever enqueued for
          resolved,   \* hashtags with a stored ig_hashtag_id
          failures,   \* hashtags.consecutive_failures
          lock,       \* advisory lock of each key
          leaked,     \* keys that a session at rest in the pool still holds
          pc, task,   \* each worker's place in runSync and its local variables
          faults      \* outages and crashes so far

tables == <<runs, raw, posts, asset, jobs, resolved, failures>>
vars == <<tables, lock, leaked, pc, task, faults>>

Kinds == {"top", "recent"}
Keys == Hashtags \X Kinds

Statuses == {"unused", "running", "succeeded", "partial", "failed"}
Run == [key : Keys, status : Statuses, itemsSeen : Nat, lastCursor : Nat,
        hitItemCap : BOOLEAN]

(* key and run: what is synced; base: run.itemsSeen as loaded; seen:        *)
(* itemsSeen; cursor: the paginator's; end: last post of the current page;  *)
(* at: last post of it that is done; more: Meta announced a next page.      *)
Task == [key : Keys, run : RunIds \cup {NoRun}, base : Nat, seen : Nat,
         cursor : Nat, end : Nat, at : Nat, more : BOOLEAN, capped : BOOLEAN]

(* The steps inside the try block of runSync, then those around it.         *)
TrySteps == {"fetch", "raw", "item", "asset", "enqueue", "progress", "finish", "mark"}
CatchSteps == {"fail", "markFailed"}
Steps == {"idle", "resolve", "load", "unlock"} \cup TrySteps \cup CatchSteps

TypeOK ==
    /\ runs \in [RunIds -> Run]
    /\ raw \subseteq RunIds \X Items
    /\ posts \subseteq Items
    /\ asset \in [Items -> {"none", "pending", "skipped", "taken"}]
    /\ jobs \subseteq Items
    /\ resolved \subseteq Hashtags
    /\ failures \in [Hashtags -> Nat]
    /\ lock \in [Keys -> Workers \cup {NoWorker}]
    /\ leaked \subseteq Keys
    /\ pc \in [Workers -> Steps]
    /\ task \in [Workers -> Task]
    /\ faults \in Nat

FreeRun(k) == [key |-> k, status |-> "unused", itemsSeen |-> 0, lastCursor |-> 0,
               hitItemCap |-> FALSE]

NewTask(k) == [key |-> k, run |-> NoRun, base |-> 0, seen |-> 0, cursor |-> 0,
               end |-> 0, at |-> 0, more |-> FALSE, capped |-> FALSE]

AnyKey == CHOOSE k \in Keys : TRUE

Init ==
    /\ runs = [r \in RunIds |-> FreeRun(AnyKey)]
    /\ raw = {}
    /\ posts = {}
    /\ asset = [i \in Items |-> "none"]
    /\ jobs = {}
    /\ resolved = {}
    /\ failures = [h \in Hashtags |-> 0]
    /\ lock = [k \in Keys |-> NoWorker]
    /\ leaked = {}
    /\ pc = [w \in Workers |-> "idle"]
    /\ task = [w \in Workers |-> NewTask(AnyKey)]
    /\ faults = 0

Goto(w, step) == pc' = [pc EXCEPT ![w] = step]

-----------------------------------------------------------------------------
(***************************************************************************)
(* withAdvisoryLock: pg_try_advisory_lock, and pg_advisory_unlock in the   *)
(* finally.  When the lock is held elsewhere the sync returns "skipped"    *)
(* and changes nothing.  A failed unlock is swallowed and the connection   *)
(* goes back to the pool with its session lock: a later sync gets the lock *)
(* if it draws that very connection, and is skipped if it draws another,   *)
(* until the pool ends the session.                                        *)
(***************************************************************************)
Running(k) == {r \in RunIds : runs[r].key = k /\ runs[r].status = "running"}
Unused == {r \in RunIds : runs[r].status = "unused"}

(* Bound: a sync begins only while a sync_runs row is left for it to start. *)
RowLeft(k) ==
    \/ Running(k) # {}
    \/ Cardinality(Unused) > Cardinality({v \in Workers : /\ pc[v] \in {"resolve", "load"}
                                                         /\ Running(task[v].key) = {}})

Acquire(w, k) ==
    /\ pc[w] = "idle"
    /\ RowLeft(k)
    /\ lock[k] = NoWorker
    /\ lock' = [lock EXCEPT ![k] = w]
    /\ task' = [task EXCEPT ![w] = NewTask(k)]
    /\ Goto(w, "resolve")
    /\ UNCHANGED <<tables, leaked, faults>>

UnlockLeaks(w) ==    \* mutant: the lock is not released
    /\ pc[w] = "unlock"
    /\ task' = [task EXCEPT ![w] = NewTask(AnyKey)]
    /\ Goto(w, "idle")
    /\ UNCHANGED <<tables, lock, leaked, faults>>

(* The lock is counted per session: one level is taken off.                 *)
Unlock(w) ==
    /\ pc[w] = "unlock"
    /\ lock' = [lock EXCEPT ![task[w].key] = NoWorker]
    /\ task' = [task EXCEPT ![w] = NewTask(AnyKey)]
    /\ Goto(w, "idle")
    /\ UNCHANGED <<tables, leaked, faults>>

UnlockFails(w) ==
    /\ pc[w] = "unlock"
    /\ faults < MaxFaults
    /\ faults' = faults + 1
    /\ lock' = [lock EXCEPT ![task[w].key] = NoWorker]
    /\ leaked' = leaked \cup {task[w].key}
    /\ task' = [task EXCEPT ![w] = NewTask(AnyKey)]
    /\ Goto(w, "idle")
    /\ UNCHANGED tables

(* pg ends a session that lies idle in the pool, and its locks with it.     *)
SessionEnds(k) ==
    /\ k \in leaked
    /\ lock[k] = NoWorker
    /\ leaked' = leaked \ {k}
    /\ UNCHANGED <<tables, lock, pc, task, faults>>

(***************************************************************************)
(* runSync up to the try block: look the hashtag up, resolve and store its *)
(* Instagram id once, then resume the running run or start a new one.  A   *)
(* failure here reaches no catch and records nothing.                      *)
(***************************************************************************)
Resolve(w) ==
    /\ pc[w] = "resolve"
    /\ resolved' = resolved \cup {task[w].key[1]}
    /\ Goto(w, "load")
    /\ UNCHANGED <<runs, raw, posts, asset, jobs, failures, lock, leaked, task, faults>>

FailBeforeRun(w) ==
    /\ pc[w] \in {"resolve", "load"}
    /\ faults < MaxFaults
    /\ faults' = faults + 1
    /\ Goto(w, "unlock")
    /\ UNCHANGED <<tables, lock, leaked, task>>

FindNothingToResume(k) == {}    \* mutant
FindResumableRun(k) == Running(k)

CountsFromZero(w, r) ==    \* mutant: each attempt at a run has the whole cap
    /\ task' = [task EXCEPT ![w] = [task[w] EXCEPT !.run = r,
                                                   !.cursor = runs'[r].lastCursor]]
    /\ Goto(w, "fetch")
    /\ UNCHANGED <<raw, posts, asset, jobs, resolved, failures, lock, leaked, faults>>

Begin(w, r) ==
    /\ task' = [task EXCEPT ![w] = [task[w] EXCEPT !.run = r,
                                                   !.base = runs'[r].itemsSeen,
                                                   !.seen = runs'[r].itemsSeen,
                                                   !.cursor = runs'[r].lastCursor]]
    /\ Goto(w, "fetch")
    /\ UNCHANGED <<raw, posts, asset, jobs, resolved, failures, lock, leaked, faults>>

Resume(w, r) ==
    /\ pc[w] = "load"
    /\ r \in FindResumableRun(task[w].key)
    /\ runs' = runs
    /\ Begin(w, r)

StartRun(w, r) ==
    /\ pc[w] = "load"
    /\ FindResumableRun(task[w].key) = {}
    /\ r \in Unused
    /\ runs' = [runs EXCEPT ![r] = [FreeRun(task[w].key) EXCEPT !.status = "running"]]
    /\ Begin(w, r)

(***************************************************************************)
(* The page loop.  paginateMedia asks for a page while the cap leaves      *)
(* something, and takes what Meta returns after the cursor, also when that *)
(* is more than it asked for.  Meta may announce a next page that turns    *)
(* out to be empty.                                                        *)
(***************************************************************************)
Fetch(w, n, more) ==
    /\ pc[w] = "fetch"
    /\ task[w].seen < MaxItems
    /\ task[w].cursor + n <= FeedLen
    /\ n = 0 => task[w].cursor = FeedLen /\ ~more
    /\ ~more => task[w].cursor + n = FeedLen
    /\ task' = [task EXCEPT ![w].end = task[w].cursor + n,
                            ![w].at = task[w].cursor,
                            ![w].more = more]
    /\ Goto(w, "raw")
    /\ UNCHANGED <<tables, lock, leaked, faults>>

CapAlreadyReached(w) ==
    /\ pc[w] = "fetch"
    /\ task[w].seen >= MaxItems
    /\ Goto(w, "finish")
    /\ UNCHANGED <<tables, lock, leaked, task, faults>>

NextItem(t) == IF t.at = t.end THEN "progress" ELSE "item"

(* DataPointRepository.recordPage: the raw layer first. *)
RecordPage(w) ==
    /\ pc[w] = "raw"
    /\ raw' = raw \cup {<<task[w].run, i>> : i \in (task[w].at + 1) .. task[w].end}
    /\ Goto(w, NextItem(task[w]))
    /\ UNCHANGED <<runs, posts, asset, jobs, resolved, failures, lock, leaked, task, faults>>

UpsertMedia(w) ==
    /\ pc[w] = "item"
    /\ posts' = posts \cup {task[w].at + 1}
    /\ Goto(w, "asset")
    /\ UNCHANGED <<runs, raw, asset, jobs, resolved, failures, lock, leaked, task, faults>>

ItemDone(w) ==
    LET t == [task[w] EXCEPT !.at = task[w].at + 1]
    IN  /\ task' = [task EXCEPT ![w] = t]
        /\ Goto(w, NextItem(t))

(* MediaAssetRepository.ensurePending: a new row is pending, or skipped     *)
(* when Meta gave no URL; an existing one keeps its status.  Whatever       *)
(* created it, a row that is still pending asks for a download job.         *)
CreatedOnInsertOnly(i) == asset[i] = "none" /\ i \in WithUrl    \* mutant
WantsDownload(i) ==
    /\ asset[i] = "pending" \/ (asset[i] = "none" /\ i \in WithUrl)
    /\ i \in WithUrl

EnsurePending(w) ==
    LET i == task[w].at + 1
    IN  /\ pc[w] = "asset"
        /\ asset' = [asset EXCEPT ![i] =
                        IF asset[i] # "none" THEN asset[i]
                        ELSE IF i \in WithUrl THEN "pending" ELSE "skipped"]
        /\ IF WantsDownload(i)
             THEN Goto(w, "enqueue") /\ UNCHANGED task
             ELSE ItemDone(w)
        /\ UNCHANGED <<runs, raw, posts, jobs, resolved, failures, lock, leaked, faults>>

EnqueueDownload(w) ==
    /\ pc[w] = "enqueue"
    /\ jobs' = jobs \cup {task[w].at + 1}
    /\ ItemDone(w)
    /\ UNCHANGED <<runs, raw, posts, asset, resolved, failures, lock, leaked, faults>>

(* SyncRunRepository.recordPageProgress: the cursor last, and only when     *)
(* there is a next page.  Then the cap, then the paginator's own end.       *)
PageLen(t) == t.end - t.cursor
SeenNow(t) == t.seen + PageLen(t)

NewCursor(t, old) == IF t.more THEN t.end ELSE old

StopAtFirstShortPage(t) == PageLen(t) < MaxPage    \* mutant
LastPage(t) == ~t.more \/ PageLen(t) = 0

RecordPageProgress(w) ==
    LET t == task[w]
    IN  /\ pc[w] = "progress"
        /\ runs' = [runs EXCEPT
               ![t.run].itemsSeen = runs[t.run].itemsSeen + PageLen(t),
               ![t.run].lastCursor = NewCursor(t, runs[t.run].lastCursor)]
        /\ task' = [task EXCEPT ![w] = [t EXCEPT !.seen = SeenNow(t),
                                                 !.cursor = t.end,
                                                 !.capped = SeenNow(t) >= MaxItems]]
        /\ Goto(w, IF SeenNow(t) >= MaxItems \/ LastPage(t) THEN "finish" ELSE "fetch")
        /\ UNCHANGED <<raw, posts, asset, jobs, resolved, failures, lock, leaked, faults>>

(***************************************************************************)
(* The end of the run: finishRun and markSyncSucceeded, or the catch block *)
(* with finishRun and markSyncFailed.  A failure of either success call    *)
(* also ends in the catch; one in the catch itself is rethrown.            *)
(***************************************************************************)
FinishRun(w, status) ==
    runs' = [runs EXCEPT ![task[w].run].status = status,
                         ![task[w].run].hitItemCap = task[w].capped]

FinishSucceeded(w) ==
    /\ pc[w] = "finish"
    /\ FinishRun(w, "succeeded")
    /\ Goto(w, "mark")
    /\ UNCHANGED <<raw, posts, asset, jobs, resolved, failures, lock, leaked, task, faults>>

MarkSyncSucceeded(w) ==
    /\ pc[w] = "mark"
    /\ failures' = [failures EXCEPT ![task[w].key[1]] = 0]
    /\ Goto(w, "unlock")
    /\ UNCHANGED <<runs, raw, posts, asset, jobs, resolved, lock, leaked, task, faults>>

(* A call of the try block throws.  itemsSeen is counted before             *)
(* recordPageProgress is awaited, so the page it fails on counts as seen.   *)
Fail(w) ==
    /\ pc[w] \in TrySteps
    /\ pc[w] = "fetch" => task[w].seen < MaxItems    \* otherwise nothing is awaited
    /\ faults < MaxFaults
    /\ faults' = faults + 1
    /\ task' = [task EXCEPT ![w].seen = IF pc[w] = "progress" THEN SeenNow(task[w])
                                        ELSE task[w].seen]
    /\ Goto(w, "fail")
    /\ UNCHANGED <<tables, lock, leaked>>

FinishFailed(w) ==
    /\ pc[w] = "fail"
    /\ FinishRun(w, IF task[w].seen > task[w].base THEN "partial" ELSE "failed")
    /\ Goto(w, "markFailed")
    /\ UNCHANGED <<raw, posts, asset, jobs, resolved, failures, lock, leaked, task, faults>>

MarkSyncFailed(w) ==
    /\ pc[w] = "markFailed"
    /\ failures' = [failures EXCEPT ![task[w].key[1]] = @ + 1]
    /\ Goto(w, "unlock")
    /\ UNCHANGED <<runs, raw, posts, asset, jobs, resolved, lock, leaked, task, faults>>

(* The outage that broke the run may also break the calls of the catch      *)
(* block: it counts as one fault.                                           *)
FailInCatch(w) ==
    /\ pc[w] \in CatchSteps
    /\ Goto(w, "unlock")
    /\ UNCHANGED <<tables, lock, leaked, task, faults>>

(* The process dies: its database session ends, and with it the lock, also  *)
(* what an earlier failed unlock left of it.                                *)
Crash(w) ==
    /\ pc[w] # "idle"
    /\ faults < MaxFaults
    /\ faults' = faults + 1
    /\ lock' = [lock EXCEPT ![task[w].key] = NoWorker]
    /\ leaked' = leaked \ {task[w].key}
    /\ task' = [task EXCEPT ![w] = NewTask(AnyKey)]
    /\ Goto(w, "idle")
    /\ UNCHANGED tables

(* A download job of the queue reaches MediaAssetRepository.markDownloading, *)
(* from where the row is never pending again.                               *)
DownloadStarts(i) ==
    /\ i \in jobs
    /\ asset[i] = "pending"
    /\ asset' = [asset EXCEPT ![i] = "taken"]
    /\ UNCHANGED <<runs, raw, posts, jobs, resolved, failures, lock, leaked, pc, task, faults>>

WorkerStep(w) ==
    \/ Resolve(w)
    \/ \E r \in RunIds : Resume(w, r) \/ StartRun(w, r)
    \/ \E n \in 0 .. MaxPage, more \in BOOLEAN : Fetch(w, n, more)
    \/ CapAlreadyReached(w)
    \/ RecordPage(w)
    \/ UpsertMedia(w)
    \/ EnsurePending(w)
    \/ EnqueueDownload(w)
    \/ RecordPageProgress(w)
    \/ FinishSucceeded(w)
    \/ MarkSyncSucceeded(w)
    \/ FinishFailed(w)
    \/ MarkSyncFailed(w)
    \/ Unlock(w)

Fault(w) == FailBeforeRun(w) \/ Fail(w) \/ FailInCatch(w) \/ UnlockFails(w) \/ Crash(w)

Next ==
    \/ \E w \in Workers, k \in Keys : Acquire(w, k)
    \/ \E k \in Keys : SessionEnds(k)
    \/ \E w \in Workers : WorkerStep(w) \/ Fault(w)
    \/ \E i \in Items : DownloadStarts(i)

Spec == Init /\ [][Next]_vars

(***************************************************************************)
(* Fairness.  A worker that is alive keeps executing.  The cron schedule   *)
(* keeps dispatching recent syncs of every tracked hashtag (it dispatches  *)
(* no top sync: src/src/adapters/local/NodeCronScheduler.ts:45), so such a *)
(* sync is tried again and again; it surely gets the lock only if no other *)
(* session has it.  A session that comes back to the pool again and again  *)
(* is once left idle for the 30 s after which the pool ends it             *)
(* (src/src/database/client.ts:22).                                        *)
(***************************************************************************)
Dispatched(k) == k \notin leaked /\ \E w \in Workers : Acquire(w, k)

FairSpec ==
    /\ Spec
    /\ \A w \in Workers : WF_vars(WorkerStep(w))
    /\ \A h \in Hashtags : SF_vars(Dispatched(<<h, "recent">>))
    /\ \A k \in Keys : SF_vars(SessionEnds(k))

-----------------------------------------------------------------------------
(* What "fully persisted" means for post i in run r: the raw payload, the   *)
(* curated row, the asset row, and the download job if there is anything to *)
(* download.                                                                *)
Covered(r, i) ==
    /\ <<r, i>> \in raw
    /\ i \in posts
    /\ asset[i] # "none"
    /\ i \in WithUrl => i \in jobs

(* "Cursor last: only advance past a page that is fully persisted"          *)
(* (HashtagSyncService.ts:195): whatever fails or dies, every post before a *)
(* run's stored cursor is fully persisted, its download job included, so    *)
(* resuming from the cursor loses nothing.                                  *)
CursorNeverAhead ==
    \A r \in RunIds : \A i \in Items : i <= runs[r].lastCursor => Covered(r, i)

(* A run recorded as succeeded has either persisted every post the edge     *)
(* lists or reached its item cap ("the caller can tell which by comparing   *)
(* the item count to the cap", MetaGraphClient.ts:148-149), over any number *)
(* of crashes and resumes.                                                  *)
SucceededIsComplete ==
    \A r \in RunIds :
        runs[r].status = "succeeded" =>
            runs[r].itemsSeen >= MaxItems \/ \A i \in Items : Covered(r, i)

(* The item cap bounds a whole run, not each attempt at it: once the pages  *)
(* of all its attempts together reach maxItems no further page is taken     *)
(* (HashtagSyncService.ts:132), so a run exceeds its cap by less than the   *)
(* one page Meta filled beyond what it was asked for.                       *)
CapBoundsTheRun ==
    [][\A r \in RunIds :
          runs'[r].itemsSeen # runs[r].itemsSeen => runs[r].itemsSeen < MaxItems]_vars

(* The advisory lock serialises syncs per hashtag and kind, so no two       *)
(* workers spend quota on the same edge or write to the same run            *)
(* (HashtagSyncService.ts:62-68).                                           *)
NoConcurrentSync ==
    \A v, w \in Workers :
        v # w /\ pc[v] # "idle" /\ pc[w] # "idle" =>
            task[v].key # task[w].key

(* There is at most one running run per hashtag and kind, so "resume the    *)
(* running run" is unambiguous and no interrupted run is forgotten behind a *)
(* newer one (SyncRunRepository.ts:44-62).                                  *)
OneRunningRun ==
    \A q, r \in RunIds :
        /\ runs[q].status = "running"
        /\ runs[r].status = "running"
        /\ runs[q].key = runs[r].key
        => q = r

(* Progress of a run is never taken back: neither its cursor nor its item   *)
(* count decreases, also when the last page carries no next cursor          *)
(* (SyncRunRepository.ts:93-95).                                            *)
ProgressIsKept ==
    [][\A r \in RunIds :
          /\ runs'[r].lastCursor >= runs[r].lastCursor
          /\ runs'[r].itemsSeen >= runs[r].itemsSeen]_vars

(* The lock always becomes free: the worker gives it back on return and on  *)
(* an error of any call, it ends with a worker that dies, and when the      *)
(* unlock itself fails it is free once the pool has ended the session       *)
(* (advisoryLock.ts:46-58).                                                 *)
LockIsReleased ==
    \A k \in Keys : (lock[k] # NoWorker \/ k \in leaked)
                        ~> (lock[k] = NoWorker /\ k \notin leaked)

(* A recent run that was interrupted does not stay "running": a later       *)
(* scheduled sync resumes it and brings it to a terminal status.            *)
InterruptedRunEnds ==
    \A h \in Hashtags :
        Running(<<h, "recent">>) # {} ~> Running(<<h, "recent">>) = {}

(* "the run is resumable from its cursor" (HashtagSyncService.ts:237-239),  *)
(* "making a failed run resumable rather than restartable"                  *)
(* (SyncRun.ts:70-71): no new run of a key is started while one that        *)
(* stopped part-way still has a cursor to resume from.                      *)
PartialRunIsResumed ==
    [][\A q, r \in RunIds :
          /\ runs[r].status = "unused" /\ runs'[r].status = "running"
          /\ runs[q].status = "partial" /\ runs[q].lastCursor > 0
          => runs[q].key # runs'[r].key]_vars

-----------------------------------------------------------------------------
(* The service implements a resumable scan of the edge. *)
PhaseOf(status) ==
    CASE status = "unused"    -> "unused"
      [] status = "running"   -> "open"
      [] status = "succeeded" -> "complete"
      [] OTHER                -> "abandoned"

scanBar == [r \in RunIds |-> [key |-> runs[r].key, phase |-> PhaseOf(runs[r].status),
                              at |-> runs[r].lastCursor, count |-> runs[r].itemsSeen]]
fetchedBar == [r \in RunIds |-> {i \in Items : <<r, i>> \in raw}]
storedBar == {i \in posts : asset[i] # "none" /\ (i \in WithUrl => i \in jobs)}

Scan == INSTANCE ResumableScan WITH
            Scans <- RunIds, Length <- FeedLen, Cap <- MaxItems,
            scan <- scanBar, fetched <- fetchedBar, stored <- storedBar

(* Whatever workers interleave, fail or die, the tables evolve as one scan  *)
(* at a time of each edge would: only the open run reads, below its cap,    *)
(* its cursor passes only posts that are read and stored, a run that was    *)
(* given up is never written to again, and one that succeeded only by the   *)
(* sync that finished it, before the next one begins                        *)
(* (HashtagSyncService.ts:62-68, 195, 229-247).                             *)
ImplementsScan == Scan!Spec
=============================================================================
