# A TLA+ model of the Saral hashtag media pipeline

The repository ingests Instagram posts by hashtag: a scheduler puts jobs on a
queue, worker processes take them, page through Meta's hashtag edges, store raw
and curated rows in Postgres, and copy the media files into durable storage; an
HTTP API reads the result. The hard part is not any single function but what is
left behind when calls fail, workers die and messages come twice. That is what
this project models. Paths below are relative to the workspace (`src/` is the
repository root, so its `src/adapters` is `src/src/adapters` here).

## Inventory

| Component | State | Operations | What is hard | What makes it correct |
|---|---|---|---|---|
| In-memory queue (`adapters/local/InMemoryQueue.ts`) | waiting array, in-flight map, dead letters, closed | enqueue, receive, ack, nack, extendVisibility, close | late calls with old receipts, redrive limit | nothing lost or doubled, only the current receipt works, exact ceiling |
| SQS queue (`adapters/aws/SqsQueue.ts`) | in AWS | the same port | at-least-once delivery, visibility timeout, partial batches | consumers tolerate any redelivery |
| Job runner, worker (`worker/JobRunner.ts`, `worker.ts`) | active set, running flag | start, stop, process, heartbeat | capacity, heartbeat against timeout, failing ack, shutdown | every message settled once the work is done |
| Sync service (`api/services/HashtagSyncService.ts`) with the sync-run, data-point and hashtag repositories | `sync_runs`, `data_points`, `hashtags`, advisory lock | sync | a failure or death at each await, resume from a cursor, item cap | nothing before a cursor is missing, success means complete, one sync per key |
| Media repository | `media_posts`, `media_post_history` | upsertMedia, markStaleBefore | concurrent upserts, replay, time stamps as change signals | idempotent merge, one history row per run |
| Asset service (`api/services/MediaAssetService.ts`) with its repository and the storage drivers | `media_assets`, objects, partial files | download, putStream, exists | overlapping deliveries, two writers of one object, death while writing | a recorded object is whole, no job acked early |
| Meta client and rate limits (`lib/meta`) | learned page size per edge, last usage report | request, paginateMedia, resolveHashtagId | retries, page-size negotiation shared by concurrent syncs, shutdown during a pause | no item skipped, no error taken for the end, bounded retries and pauses |
| Consumers, schedulers (`api/consumers`, `NodeCronScheduler`, `EventBridgeScheduler`) with the hashtag repository and its commands | `hashtags`, cron, EventBridge schedule | track, untrack, tick, dispatchDueSyncs, syncMedia | redelivered or partly failed fan-out, skipped duplicates | every due hashtag is synced, untracked ones stop |
| Connection pool and session locks (`database/client.ts`, `advisoryLock.ts`) | connections and the locks on their sessions | connect, release, lock, unlock | a lock holder needs a second connection, a failed unlock goes back to the pool | exclusion, progress |
| Read API (`HashtagController`, `HashtagMediaQueryRepository`) | none (reads) | list media by cursor, count | writes between two pages and between the two queries, ties | no skip and no duplicate |
| AWS scripts (`commands/provisionAws.ts`, `deployEc2.ts`, `teardownAws.ts`) | the AWS account, the key file | provision, deploy, teardown | a call fails, or the command dies, anywhere; reruns meet what is half done | a rerun repairs, nothing is left running or dangling |

Components call each other directly inside one process; the queue, Postgres and
the object store are the only shared state between processes. `PROJECT.json`
lists every component, also those left out, and the hazards at their lines.

## Modules

| Module | Role |
|---|---|
| `QueuePort` | abstract queue the port promises: leased, settled or returned, counted, parked |
| `InMemoryQueue` | the in-memory driver; implements `QueuePort` |
| `InMemoryQueue_proofs` | its theorems |
| `ResumableScan` | what a `sync_runs` row promises: one open scan per edge, resumable at any point, whose cursor passes only what is stored |
| `HashtagSync` | the sync with its tables, lock, failures and crashes; implements `ResumableScan` |
| `HashtagSync_proofs` | its theorems |
| `MediaAsset`, `MCMediaAsset` | the download pipeline; instances for TLC |
| `MediaAsset_proofs` | its theorems |
| `JobRunner`, `MCJobRunner` | the worker over SQS: poll loop, capacity, heartbeat, shutdown; instance for TLC |
| `JobRunner_proofs` | its theorems |
| `EdgeWalk` | what the Meta client promises: a gapless stretch of the edge, and a normal end only at its end, at the cap or after an empty page |
| `MetaClient`, `MCMetaClient` | retries, throttling, page-size negotiation, shutdown; implements `EdgeWalk` |
| `MetaClient_proofs` | its theorems |
| `MediaUpsert`, `MCMediaUpsert` | the curated post rows and their history under concurrent upserts and replays |
| `MediaUpsert_proofs` | its theorems |
| `SyncDispatch`, `MCSyncDispatch` | composition of commands, schedule, queue, slots, connection pool and session locks |
| `SyncDispatch_proofs` | its theorems, and in a second part those about `Infrastructure` |
| `Listing`, `MCListing` | keyset pagination of the read API under writes |
| `Listing_proofs` | its theorems |
| `Infrastructure`, `MCInfrastructure` | provision, deploy and teardown as programs of AWS calls |

Operators marked `mutant` in a comment are deliberately wrong variants of the
definition that follows them. They are used by no specification; each shows that
some property notices the corresponding mistake.

### Queue

`messages`, `inFlight`, `deadLetters` and `closed` are the fields of the class.
`enqueued`, `receipts` and `acked` are history variables. The class has no await
inside a change, so a method call, and one scan of `receive`, is one atomic
action. Arrays are sets, because the port promises no order: a scan takes any
admissible subset of the visible messages, and only of those (`ScanMayTake` is the
loop's stopping rule). A receipt handle is the delivery it was drawn for. Consumers may call
`ack`, `nack` and `extendVisibility` with any receipt they were ever given.
`closed` makes `enqueue` fail and nothing else, as in the code.

`QueuePort` is the abstract specification: each message is unsent, ready, leased,
done or dead. The mapping reads the phase of a message off the set that holds
it; stale acks, heartbeats, the clock and `close` are stuttering steps.

### Sync

One action is one awaited call with the synchronous code up to the next await.
`pc` is the worker's place in `runSync`, `task` its locals, the other variables
are the tables. The lookup and resolution of the hashtag id are one action, since
they only set a cached id. A call in the try block may fail (`Fail`) and ends in
the catch block; one outside it, or in the catch, releases the lock and is
rethrown. `Crash` takes the worker away and with its connection the session lock;
it may happen between any two steps. The unlock query may fail too (`UnlockFails`); the
error is logged and the connection goes back to the pool with the lock (`leaked`),
where it stays until the session ends (`SessionEnds`). A sync that draws the same
session is granted the lock once more, any other finds it taken. A sync that finds
the lock taken returns `skipped` and changes nothing, so it is no action.

Meta's edge lists the posts `1 .. FeedLen`; the cursor after post `c` is `c`. A page
holds between one and `MaxPage` posts whatever was asked for: fewer, as with a
negotiated smaller size, or more, since the client cuts nothing off
(`MetaGraphClient.ts:214`; its test has Meta answer a limit of 1 with two posts). Meta may
announce a next page that is empty, but in this module is assumed to return an empty
page only at the end of the edge (the module `MetaClient` does without that). Whether a post has a `media_url` is a constant. Left out: page and
new-item counters, timestamps, the rate-limit snapshot, `attempts`, post contents.

`ResumableScan` knows no workers, locks or pages in flight. A scan is unused, open,
complete or abandoned; an open one reads ahead of its cursor, stores what it read,
and advances over what is read and stored. The mapping takes the row of a run for
the scan, its `data_points` for what the scan has read, and a post for stored once its
row, its asset row and, if it has a URL, its download job exist. Taking the lock,
resuming, fetching, failing, dying and the hashtag's own bookkeeping are stuttering
steps. A run that was just completed may still be abandoned, since the catch block
rewrites it when `markSyncSucceeded` fails, but only before another run of the edge is
open; after that no step touches it.

### Assets

`row` is `media_assets`, `msg` the queue as SQS behaves, `target` the objects at
their content-addressed keys and `temp` the `.partial` files of the local driver.
`handle` follows an open file through a rename or an unlink: a writer keeps
writing to the file wherever it has moved. A file is whole once the slot that
truncated it last has written everything (all writers of a key write the same
bytes). The storage driver and the placement of the slots in processes are chosen at
boot (`boot`); `shared` records that two slots of a process have used one partial file at the
same time. A message may become visible again
at any time while a slot works on it, since SQS may deliver twice and a heartbeat
may fail. With a superseded receipt SQS may or may not act. The row insert and
the enqueue of a sync are one action (a message can wait undelivered for any
time, so a later enqueue adds no behaviour), but a sync may die in between. A later
sync overwrites the URL, with none or with one again; the history field `bare` of a row
records that Meta has listed the post without one. Posts are never deleted by the
code, so the branch for a missing post is left out.

### Worker

`phase`, `running` and `asked` are the poll loop of each worker: at the top of the
loop, waiting in `Promise.race` (`full`), awaiting `receive` for the `asked` messages,
or awaiting `Promise.allSettled`. A task is one delivery `<<x, n>>`, the n-th of
message `x`; `step` is its place in `process`, `beat` its heartbeat timer. `left` is what
remains of a message's visibility timeout; a message with `left = 0` can be
received. SQS may also hand out a hidden message, or one that was deleted, of its own
accord (`Reappears`); `exposed` records the messages this happened to and those one of
whose heartbeats failed. Time passes in `Tick`, which never overtakes a due heartbeat, while
handlers and calls take any time. Each message has a kind, chosen when it is
sent: a job that can be done, one that always fails, one its handler declares
unprocessable, one without handler, or a body that is no job (`SqsQueue.receive`
leaves it alone). `awaited` records which task promises something has awaited:
when the ack of a dropped job fails, its promise rejects, and that ends the
process unless the promise was awaited earlier and the loop is not in
`Promise.race`. A receive can fail after SQS has handed messages out.

Left out: the pauses of the loop, and the 12-hour cap of `extendVisibility`. The
handlers' own effects are the modules above; `MediaAsset` keeps its own simpler
view of delivery, in which a message may reappear at any time.

### Meta client

`walk[w]` holds the locals of one `paginateMedia` (or `resolveHashtagId`) call and
the await it is in: one of the three sleeps, the request in flight, or the caller
working on a page. `learned` and `lastRateLimit` are the fields of the client that all
syncs of a process share. A step runs from one await to the next; `Loop`, `Try`, `Send`
and `Retry` are the synchronous code in between. `ceiling` is the page size above
which Meta answers "reduce the amount of data"; it may change at any time, and at
0 rejects every page. `ThrottleDelay`, `Backoff` and `ParseRateLimitHeaders` are
arithmetic on milliseconds as in the code; the jitter of the backoff is taken at
its largest. `Abort` is the worker's shutdown signal: a sleep that has begun throws,
one that begins later does not notice (its listener waits for an event that has
already fired), and `fetch` rejects at once, which `request` takes for a network
failure and retries. A page has any number of posts, none included, with or without a
`next`; an empty page ends the walk even with one (`MetaGraphClient.ts:229`), and `EdgeWalk` says
so. `room` is a history variable: the configured size halved at every rejection. Left out: URLs, tokens, response schemas (a refused shape is `Refused`).

### Media rows and history

`upsertMedia` reads the clock (`Begin`) and later commits one transaction (`Commit`); its
first statement locks the post's row, so transactions on a post are atomic but may
commit in another order than they read the clock. `post` and `history` are the two
tables, `log` a history variable with the committed upserts. `Replay` puts all raw
items of a run back to work, in the order of their positions. A history row is
appended when the item differs from the newest one and the run has none for that
post yet. `MarkStaleBefore` is the repository function, which has no caller so far.
Left out: the parsed arrays, the signed URL, and `metricsUpdatedAt`, which equals
`lastSeenAt`.

### Dispatch, pool and locks

`row` is where a hashtag stands in its tracking window, with `over` for one that is
closed or inactive. `waiting` is the queue as a set of jobs. A slot's record is one
handler call: `dispatchDueSyncs` (`due`, `send`, `settle`) or `syncMedia` (`find`, `run`,
`settle`). `holder` says who has checked a connection out and `locks[c]` what its session
holds, so that a lock can stay behind on a pooled connection when the unlock query
fails, be granted again to whoever draws that connection, and vanish when the
connection idles out. Short queries take and return a connection in one step and
only need one to be free. The work inside a sync is the module `HashtagSync`, how a
message is retried and parked is `JobRunner`; here a failed job comes back or is
parked, either way. Two reductions that keep every behaviour up to renaming: one idle slot stands
for all idle slots, and one of several free connections with equal locks for the
others.

### Listing

`client` is one walk: its query, its cursor and the request in progress. `List` and
`Count` are the two queries that `Promise.all` runs on two connections, so writes may
come between them. Ids are naturals in the order Postgres gives them. `First` and
`HasMore` are `ORDER BY ... LIMIT limit + 1`. The encoding of a cursor keeps the
millisecond and the id, which is all that is stored. `steady` (posts that matched
since the walk began), `seen` and `quiet` are history variables. Joined assets add columns
and no rows. The count ignores the date window, as in the code.

### AWS scripts

A command is a sequence of calls: `ensure` (create unless found, and perhaps skip the
calls that follow), `put`, `drop`, and a few of their own (`launch`, `tag`, `terminate`,
`empty`, `write`). `aws` is the set of facts that hold of the account, among them what a
deploy only looks up (`Givens`: the account id in the role's ARN, a default VPC with a
subnet, an image). Each call may fail before or after its effect, AWS refuses what its
rules forbid (a role with a policy and a bucket with objects cannot be deleted, the
name of a queue cannot be used again within a minute), and a command may die between
any two calls. `Caught` lists the errors the scripts swallow; `swallowed` remembers what
they claimed to have deleted. The cron expression is one of `CronFields`: what its two day
fields say, or another number of fields than five. Around the commands the operator's
address changes (`Moves`; `sshFrom` is the address in the group's rule), and the operator stops or
resumes the instance by hand.

AWS is assumed to show a change at once; in reality the name of a queue that is being
deleted may still be found for a moment. Waiting for IAM to propagate, a lack of
capacity and the like count as failing calls. An instance that is just stopping, which
the teardown's filter misses, counts as a stopped one. Left out: policy documents
and the boot script.

## Runs

| Run | Instance | Result |
|---|---|---|
| `queue` | 3 messages, 2 deliveries, timeout 1, delays 0 and 1, clock up to 2 | all properties hold, with liveness and refinement |
| `sync` | 2 workers, 1 hashtag with both kinds, 2 runs, 3 posts (the last with a URL), cap 2, pages of up to 2, 1 fault (an outage may also break the catch block) | all properties hold, with refinement of `ResumableScan`; the lock becomes free again and interrupted recent runs end (230 thousand states) |
| `sync_partial` | 1 worker, 3 posts | a documented claim is violated |
| `assets` | 2 slots, in one process or in two, 1 post, 1 message, 3 receives, 2 faults | all properties hold, with liveness (368 thousand states) |
| `assets_truncated` | both slots in one process | `NoTruncatedObject` is violated |
| `runner` | 1 worker, 2 jobs at a time, 2 messages of any kind, 2 receives, timeout 2 (60 s) with heartbeat 1 (30 s), 1 fault, which may be a second delivery | all properties hold, with liveness (172 thousand states) |
| `media` | 1 post, a top and a recent run, 2 writers, 2 captions, 2 permalinks, 2 raw items, 3 upserts, clock up to 2 | all properties hold (715 thousand states) |
| `media_stamp` | 1 caption, 2 permalinks, clock up to 3 | `StampMeansEdit` is violated |
| `client` | 2 walkers, 4 posts, start 1, cap 2, page size 4, pages of up to 2, ceilings 0, 1 and 4, 2 attempts, usage low or blocked for ten minutes | all properties hold, with liveness and refinement (197 thousand states) |
| `listing` | 4 posts, three of one second, pages of 1 or 2, three filters | all properties hold, with liveness (143 thousand states) |
| `dispatch` | 2 hashtags (one managed by an operator), 2 slots, 3 connections, chunks of 1, 1 fault | all properties hold, with liveness (167 thousand states) |
| `infra` | every form of the cron in a complete account, the default cron in accounts that lack one thing, 2 addresses, 1 stopped instance, 2 pages of objects, 2 faults | all properties hold (6.7 million states) |

The bounds are the constants `MaxTime`, `Delays`, `RunIds` (with `RowLeft`, which
only stops a sync for which no row is left), `MaxFaults`, `MaxFailures`, `MaxStops`, `MaxPage`, `Msgs`,
`MaxItems` and `MaxUpserts` of `MediaUpsert`, `MaxPages`. They are small but let each case happen: a message is
nacked up to and past its ceiling while an old receipt is still around; a run dies
on its first page, its last page and after its cap, is resumed by another worker,
fails in the catch block itself, and overshoots its cap with a page larger than asked
for; a download is delivered to both slots at once
while one of them dies; a worker misses a heartbeat and is handed the message it is
still working on; a permalink changes and a further upsert repeats it; an upsert is overtaken by one with a later stamp, and a replay
follows; a page size is negotiated from 4 to 1 by one walk while another writes an
older size back; a page ends between two posts of one second; a dispatch fails
between its two chunks, and a lock is left on a pooled connection; a deploy dies
after each of its calls, and a teardown and a provision follow; a group outlives the
address it was made for. Where the theorems
below apply they remove the bounds.

What the three violations show:

* a failed sync does not resume: only a run whose worker died does;
* two concurrent downloads of a repost in one process (the default concurrency is
  above one) can leave a truncated object that every later download takes for
  the stored file;
* after one change of a post's permalink or type, every further sync marks the post as
  edited: the two columns are compared with the row but never written to it
  (`MediaRepository.ts:126`), against the comment above the comparison and `instructions.md:374-377`.
  `ContentStampIsTruthful` states what the stamp means instead: the last upsert that disagreed
  with the caption before it or with the first permalink.

What the models show besides, without a run of its own:

* the in-memory queue never returns a forgotten message
  (`adapters/local/InMemoryQueue.ts:109`; its visibility timeout is only stored), unlike
  SQS, so local runs do not exercise redelivery after a timeout;
* the cap flag of a run is lost if the worker dies after its last page
  (`HashtagSyncService.ts:127`);
* a run can exceed its cap, by less than a page, when Meta returns more than it was
  asked for; `CapBoundsTheRun` says that no page is taken once the cap is reached;
* an empty page ends a walk even if Meta announces a next one (`MetaGraphClient.ts:229`), although
  `MetaGraphClient.ts:218` takes `next` for authoritative;
* a download job can be acked as skipped for a post that has a URL again by then, and no
  later sync sends another job for it: `ensurePending` (`MediaAssetRepository.ts:41-44`) asks for one
  only while the row is pending. `AckedMeansSettled` allows for it with `bare`;
* one missed heartbeat is enough for a second delivery: the next one is due at the
  moment the timeout runs out, although `JobRunner.ts:165-166` counts on one attempt being missed
  safely. `OneRunPerJob` names it as one of the two reasons for a second run;
* overlapping deliveries can move a stored asset back to downloading or failed
  (`MediaAssetRepository.ts:57`);
* on SIGTERM the worker does not wait for its jobs (`worker.ts:85`): `stop` returns at once
  and the process exits under them. The messages come back after their timeout;
* tracking a hashtag again after untracking it leaves its row inactive;
* the listing's total ignores the date window, which is why `TotalIsExact` excludes it;
* a deploy that dies between creating the instance profile and adding its role makes
  every later deploy fail at the launch, and one that dies between launch and tag
  leaves an instance neither deploy nor teardown sees; both exceptions are spelt
  out in `NothingElseWedges` and `OneWorkerPerFault`;
* a found security group keeps the rule it was created with: after the operator's
  address has changed a deploy without any failure launches an instance the operator
  cannot reach, and SSH is open to another address than "the machine running this
  script" (`deployEc2.ts:154`); the exception of `LaunchedIsEquipped`;
* a deploy does not see a stopped instance (`deployEc2.ts:375`) and launches another one;
* the teardown keeps the EC2 role, profile, security group and key pair, though
  `deployEc2.ts:476` says it removes everything; `TeardownIsComplete` is about what
  `aws:provision` created;
* a cron expression that sets both day fields, or names Sunday by 0, has no EventBridge
  form as it stands, and the conversion does not say so: the provision fails at the
  schedule, with the queues and roles made (an exception in `NothingElseWedges`). Other
  day numbers are passed on as they are and mean the day before, since EventBridge
  counts from Sunday as 1.

## Fairness

`InMemoryQueue`: a worker polls in a loop (weak fairness of `Poll`), time passes,
and `JobRunner.process` settles what it was handed, since each path ends in ack or
nack. `HashtagSync`: a live worker keeps
executing; the cron schedule keeps dispatching recent syncs, so a recent sync
that can start infinitely often starts (strong fairness), but is not assumed to draw
the one session that still has a leaked lock. A session that comes back to the pool
again and again is at some time left idle for the 30 s after which the pool ends it
(strong fairness of `SessionEnds`, `database/client.ts:22`). Nothing is assumed for top syncs, which
only an operator starts. `MediaAsset`: a live slot keeps executing,
idle slots keep polling (strong fairness of delivering a message, because slots
come and go), and SQS lets timeouts run out and applies its redrive policy.
`JobRunner`: the loop of a live worker and the container's restart policy
(`restart: unless-stopped`) keep going, handlers are assumed to end (a Meta request
has a timeout; a download in the worker is given the shutdown signal in its place,
`MediaAssetService.ts:74`, and so relies on the HTTP client's own limits), timers fire,
time passes, and SQS hands out a message that can be received again and again (strong fairness).
`MetaClient`: weak fairness of what happens of itself to a walker: timers fire, a
request times out (`NetworkFails`), the caller goes on or leaves. Nothing is assumed of
Meta's answers. `Listing`: the client keeps asking and the database answers.
`SyncDispatch`: the schedule ticks, a busy slot goes on, a waiting dispatch or recent
sync that a slot can take again and again is taken (strong fairness), and a
connection that is free again and again idles out at some time (strong fairness:
the tick period is far above the 30 s of the pool).

## Proofs

All theorems hold for arbitrary values of the constants under the named
assumptions next to their declarations.

*Queue.* The inductive invariant adds to `Conservation` that receive counts,
handles and receipts agree: an envelope that was received `n` times has the
receipts `1 .. n` and no other, and its handle names delivery `n`. From it follow
all safety properties and, action by action, the refinement of `QueuePort`.

*Sync.* No listed property is inductive alone. `IInv` describes what each worker
knows at each step: it holds its key's lock; its run is running, belongs to the
key, and the stored item count equals the local one; everything up to the local
cursor, and on the current page everything up to the item in hand, is covered.
The invariant survives a crash because the tables only grow (`Grows`) and a worker's
knowledge speaks of its own run only, which no other worker can write to while it
holds the lock.

*Scan refinement.* The simulation of `ResumableScan` needs `ScanInv` on top of `IInv`: the run a
worker holds is the only run of its edge that may be running; up to the last page the
stored cursor is the local one; and a run about to be failed is running or just
succeeded. The first fact is what allows `finishRun` in the catch block, and it is
about rows of other runs, so it is stable only because every step writes the rows of
its own edge, under that edge's lock (`OthersScan`). Each action is then a step of one
scan or hides (`ScanStep`); an item's three writes store that item when the last of them
is done (`ItemStores`).

*Assets.* `IInv` adds to the properties what a slot has established: a slot about to
ack has read a stored row or written one, a slot about to skip has read a row
without a URL. That knowledge is about a row other slots and syncs write to, so it
rests on what every step respects (`MsgFrame`, `RowFrame`): a sent message keeps its post,
and a row loses neither its key nor the record that it was listed without a URL, even
when its status goes back or the URL returns.
`StoredIsWhole` holds until `shared` is set, which happens neither with one download at a time per
process nor with S3. Until then no two slots have the same partial file (`Alone`): the
file of a slot in `write` is the one it truncated itself, it is whole when the slot
renames it, and the files at the keys are absent or whole. `assets_truncated` shows that the
exception is needed.

*Worker.* `CapacityInv` says that what was asked for still fits next to what is
active, which survives the await because tasks only end meanwhile. `LeaseInv` is
the heartbeat argument: for a message that is not `exposed`, a task works on its
latest delivery and its next heartbeat is due strictly before the message becomes
visible (`beat < left`). A tick lowers both, a heartbeat restores both, and such a
message is not handed out while `left > 0`, so two tasks of one message are the same
task (`LeaseIsUnique`). A message is exposed when SQS hands it out by itself or one of its
own heartbeat calls fails; what befalls other messages, or any other call, exposes
nothing. The premise `MinInterval < VisibilityTimeout` of `HeartbeatExcludes` is what the code needs and
does not check: `SQS_VISIBILITY_TIMEOUT` may be any positive number of seconds, and at 30 or
less the first heartbeat comes too late.

*Meta client.* `IInv` says for each place a walker can wait in what its locals mean:
the posts handed out are exactly the stretch from the resume point that `yielded`
counts (`Stretch`), the cursor is its end, a request is made below the cap only
(`RequestOK`, `LoopOK`, `PageOK`), and a page marked last reached the end of the edge or was
empty. Nothing is assumed of the number of posts in a page. The
synchronous code between two awaits gets one lemma per operator, so that each
action is a short combination of them; the same lemmas give the simulation: every
step is a step of `EdgeWalk` or leaves its variables alone. `WasteIsBounded` follows from
`size <= room`: a rejected limit is at most the size, and halving it keeps it below
the halved room.

*Media rows.* `IInv` relates each row to the log: `seenInTop`, `seenInRecent`, `bestTopRank`
(`SightingInv`), the change stamp (`StampInv`) and `firstSeenAt` (`NewInv`) are what the committed
upserts of the post determine, whatever their order; and every history row was
written by an upsert of its post in its run, at its time (`HistoryInv`). The last fact
makes `CurrentIsNewest` inductive: in an orderly log a new upsert has a later stamp than all
history rows and a run that has none yet.

*Dispatch.* `LocksDisjoint` (no advisory lock is held by two sessions) together with
`ConnInv` and `HolderInv` (a slot and its connection know each other, and its session holds
the lock of its job) gives exclusion, for colliding hashes too, and also when a
lock leaked: a leaked lock keeps others out, and the session that holds it can be
drawn by one slot only. `PoolNeverJams` counts: a slot holds at most one connection,
so with fewer slots than connections one is free. The premise is
`DOWNLOAD_CONCURRENCY < DATABASE_POOL_MAX`, which the defaults (5 and 10) satisfy and the
code does not check: the two settings may be anything up to 50 and above zero.

*Listing.* `AskingInv` and `ListedInv`: everything given out lies at the cursor or before
it, and what matched all the while was given out or lies strictly after it. A page
is defined by ranks (how many selected rows come before a row), so the proof first
shows that ranks grow along the order (`RankGrows`), that any rows have a first and a
last one (`FirstRow`, `LastRow`, from the well-foundedness of the naturals), and that a row
which does not fit implies a full page, `hasMore`, and a last row before it
(`RowsLeftOver`). A writer keeps `taken_at` of a stored post, so nothing changes sides
of a cursor. `QuietInv` compares the filters of the two queries for `TotalIsExact`.

*AWS scripts.* `AwsInv` has one part per command: the calls before the one a command is at
have been made and their effects last (`ProvisionInv`, `DeployInv`, `TeardownInv`), with the
calls that a found resource skips and the deletions whose errors are swallowed
singled out. `AddressInv` says that the group's rule names the operator's address until that
changes. `DependenceInv` says that the expiry rule exists only with its bucket and the
redrive policy only with its queue; `HalfDoneInv` that a resource which lacks what should follow its
creation stands for a fault; `WorkerInv` counts instances against faults and stops.
`NothingElseWedges` is a property of steps and follows from it: each call that AWS refuses
or the script rejects is matched with a reason in `Excuse`. The theorems hold for any
number of faults, stopped instances, pages of objects and addresses, and for any settings. They sit in the second part of
`SyncDispatch_proofs`, which extends both modules, and so the definitions of `Infrastructure` that
every specification has carry its prefix (`AwsInit`, `AwsNext`, `AwsSpec`, `AwsInv`).

Some properties are proved and in no run, since a run would only repeat a small
instance of them: the type invariants (`TypeCorrect` in each proof module and
`AccountTypeCorrect`), `OneRunningRun` (also implied by `ImplementsScan`),
`DeliveryCeiling` and `AckedStaysAcked` (also implied by `ImplementsPort`), `NoConcurrentSync`,
`ProgressIsKept`, `DispatchIsComplete`, `OneHistoryRowPerRun` and `PauseIsBounded`.

Every invariant and every safety property of a step that a passing run checks is
proved, and so are the three refinements. Only liveness is left to TLC
(`EveryMessageEnds`, `LockIsReleased`, `InterruptedRunEnds`, `AssetSettles`, `EveryJobEnds`,
`EveryWalkEnds`, `ThroughputRecovers`, `WalkEnds`, `DueIsSynced`, `UntrackedRunsDry`): the prover has no
rules for fairness.

## Plan

Done, in this order: queue, sync, downloads, worker; then the Meta client, the media
tables, dispatch with pool and locks, listing, AWS scripts; then the theorems about
the scripts and the resumable scan that the sync implements. Left:

1. The drain command, as a second consumer of `MediaAsset`'s messages.
2. `EdgeWalk` in place of the pages that `HashtagSync` draws itself.

## Not modelled

Caption parsing (character classes of Unicode regular expressions, covered by unit
tests), HTTP plumbing, health checks, logging and configuration (no state of their
own), the drain loop of the commands (a consumer like `MediaAsset`'s), policy documents
and the boot script of the instance, SQL migrations. Formatting and wording nowhere
matter to a property.
