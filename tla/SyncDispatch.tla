---------------------------- MODULE SyncDispatch ----------------------------
(* From the schedule to a finished sync: the cron tick, the fan-out over   *)
(* the due hashtags, the worker's slots, the connection pool and the       *)
(* session locks on its connections.                                       *)
(*                                                                         *)
(* The queue is the set of jobs waiting: equal messages are merged, and a  *)
(* message may be delivered twice.  Attempts are counted in JobRunner;     *)
(* here a failed job may always be parked.  The work of a sync is the      *)
(* module HashtagSync, one step here.  A query takes a connection and      *)
(* gives it back in one step; a lock keeps its connection.                 *)
EXTENDS Naturals, FiniteSets

CONSTANTS
    Hashtags,
    Managed,     \* hashtags an operator runs commands on; the others are
                 \* seeded and stay due
    Slots,       \* jobs the worker runs at once
    Conns,       \* connections of its pool
    LockOf,      \* LockOf[<<kind, h>>]: hashtext of the lock's name
    BatchLimit,  \* messages of one SendMessageBatch
    MaxFaults,   \* bound on failures, duplicates and crashes
    None

Kinds == {"top", "recent"}
Keys == Kinds \X Hashtags

ASSUME ManagedAssumption == Managed \subseteq Hashtags
ASSUME BatchAssumption == BatchLimit \in Nat \ {0} /\ MaxFaults \in Nat
ASSUME FiniteAssumption == IsFiniteSet(Hashtags) /\ IsFiniteSet(Slots) /\ IsFiniteSet(Conns)
ASSUME NoneAssumption == None \notin Slots \cup Conns \cup Hashtags
ASSUME LockAssumption == LockOf \in [Keys -> Nat]

VARIABLES
    row,       \* hashtags: "absent", "early", "due" or "over"
    waiting,   \* jobs in the queue
    slot,      \* the job a slot works on and its place in the handler
    holder,    \* the slot that has checked a connection out of the pool
    locks,     \* locks[c][k]: how often session c holds advisory lock k
    faults

vars == <<row, waiting, slot, holder, locks, faults>>

Hashes == {LockOf[k] : k \in Keys}
(* The only job of a schedule; it names no hashtag.                        *)
Dispatch == <<"dispatch", None>>
Jobs == {Dispatch} \cup Keys

Idle == [pc |-> "idle", job |-> None, conn |-> None, ok |-> FALSE,
         asked |-> {}, sent |-> {}]

NoLocks == [l \in Hashes |-> 0]

Init ==
    /\ row = [h \in Hashtags |-> IF h \in Managed THEN "absent" ELSE "due"]
    /\ waiting = {}
    /\ slot = [s \in Slots |-> Idle]
    /\ holder = [c \in Conns |-> None]
    /\ locks = [c \in Conns |-> NoLocks]
    /\ faults = 0

Fault == faults < MaxFaults /\ faults' = faults + 1

----------------------------------------------------------------------------
(* Commands and the clock *)

(* An existing row is left alone; a new one may start later.               *)
EnsureTracked(h) == IF row[h] = "absent" THEN {"early", "due"} ELSE {row[h]}

(* The row is written, then the hashtag id is resolved and a first top     *)
(* sync is sent; Meta or the queue may fail in between.                    *)
Track(h) ==
    /\ \E r \in EnsureTracked(h) : row' = [row EXCEPT ![h] = r]
    /\ \/ waiting' = waiting \cup {<<"top", h>>}
       \/ waiting' = waiting
    /\ UNCHANGED <<slot, holder, locks, faults>>

(* setActive(false).  An inactive row and one whose window is closed are   *)
(* never due again: tracking it once more does not reactivate it.          *)
Untrack(h) ==
    /\ row[h] # "absent"
    /\ row' = [row EXCEPT ![h] = "over"]
    /\ UNCHANGED <<waiting, slot, holder, locks, faults>>

(* The tracking window opens and closes.                                   *)
TimePasses(h) ==
    /\ row[h] \in {"early", "due"}
    /\ row' = [row EXCEPT ![h] = IF @ = "early" THEN "due" ELSE "over"]
    /\ UNCHANGED <<waiting, slot, holder, locks, faults>>

(* node-cron or EventBridge; a tick whose enqueue fails is only logged.    *)
CronTick ==
    /\ waiting' = waiting \cup {Dispatch}
    /\ UNCHANGED <<row, slot, holder, locks, faults>>

----------------------------------------------------------------------------
(* The worker *)

(* The slots are a count in the code: one idle slot stands for all.        *)
Ready ==
    LET idle == {s \in Slots : slot[s].pc = "idle"}
    IN  {CHOOSE s \in idle : TRUE : i \in idle}

(* A message is taken; SQS may keep a copy of it.                          *)
Deliver(s, j) ==
    /\ s \in Ready
    /\ j \in waiting
    /\ \/ waiting' = waiting \ {j} /\ UNCHANGED faults
       \/ waiting' = waiting /\ Fault
    /\ slot' = [slot EXCEPT ![s] = [Idle EXCEPT !.job = j,
                   !.pc = IF j = Dispatch THEN "due" ELSE "find"]]
    /\ UNCHANGED <<row, holder, locks>>

Free == {c \in Conns : holder[c] = None}

(* Connections whose sessions hold the same locks are the same to a job:   *)
(* one of each kind stands for the others.                                 *)
Offered == {CHOOSE d \in Free : locks[d] = locks[c] : c \in Free}

(* Steps that wait for a connection of the pool.                           *)
NeedsConn == {"due", "find", "run"}

(* mutant: neither is_active nor the window is looked at.                  *)
TrackedRows == {h \in Hashtags : row[h] # "absent"}

FindDueForSync == {h \in Hashtags : row[h] = "due"}

Due(s) ==
    /\ slot[s].pc = "due"
    /\ Free # {}
    /\ slot' = [slot EXCEPT ![s].asked = FindDueForSync, ![s].ok = TRUE,
                            ![s].pc = IF FindDueForSync = {} THEN "settle" ELSE "send"]
    /\ UNCHANGED <<row, waiting, holder, locks, faults>>

(* Both schedulers put kind "recent" in the dispatch and nothing sends one *)
(* of kind "top", so the handler's branch for it is never taken.           *)
Send(J) == waiting' = waiting \cup {<<"recent", h>> : h \in J}

AllSent(s, sent) == sent = slot[s].asked

(* One chunk of enqueueBatch.                                              *)
SendChunk(s) ==
    /\ slot[s].pc = "send"
    /\ \E chunk \in SUBSET (slot[s].asked \ slot[s].sent) :
          LET sent == slot[s].sent \cup chunk
          IN  /\ chunk # {} /\ Cardinality(chunk) <= BatchLimit
              /\ Cardinality(chunk) < BatchLimit => sent = slot[s].asked
              /\ Send(chunk)
              /\ slot' = [slot EXCEPT ![s].sent = sent,
                             ![s].pc = IF AllSent(s, sent) THEN "settle" ELSE "send"]
    /\ UNCHANGED <<row, holder, locks, faults>>

(* Only some messages of a chunk are accepted, or the answer is lost:      *)
(* enqueueBatch throws.                                                    *)
ChunkFails(s) ==
    /\ slot[s].pc = "send"
    /\ Fault
    /\ \E some \in SUBSET (slot[s].asked \ slot[s].sent) :
          Cardinality(some) <= BatchLimit /\ Send(some)
    /\ slot' = [slot EXCEPT ![s].pc = "settle", ![s].ok = FALSE]
    /\ UNCHANGED <<row, holder, locks>>

Lock(s) == LockOf[slot[s].job]

(* mutant: the lock is not asked for.                                      *)
AlwaysGranted(s, c) == TRUE

(* pg_try_advisory_lock: no other session holds it; the session that does  *)
(* is granted it again.                                                    *)
Granted(s, c) == \A d \in Conns \ {c} : locks[d][Lock(s)] = 0

(* syncMedia looks the hashtag up, whose row is never deleted, takes a     *)
(* connection out of the pool and asks for the lock on it.                 *)
Acquire(s, c) ==
    /\ slot[s].pc = "find"
    /\ c \in Offered
    /\ Granted(s, c)
    /\ holder' = [holder EXCEPT ![c] = s]
    /\ locks' = [locks EXCEPT ![c][Lock(s)] = @ + 1]
    /\ slot' = [slot EXCEPT ![s].pc = "run", ![s].conn = c]
    /\ UNCHANGED <<row, waiting, faults>>

(* mutant: the connection is kept on the early return.                     *)
KeepConn(s, c) == holder' = [holder EXCEPT ![c] = s]

Release(s, c) == holder' = [holder EXCEPT ![c] = None]

(* Held elsewhere: the sync is skipped, and the job counts as done.        *)
Skip(s, c) ==
    /\ slot[s].pc = "find"
    /\ c \in Offered
    /\ ~Granted(s, c)
    /\ Release(s, c)
    /\ slot' = [slot EXCEPT ![s].pc = "settle", ![s].ok = TRUE]
    /\ UNCHANGED <<row, waiting, locks, faults>>

(* runSync's queries need a second connection.                             *)
RunSync(s) ==
    /\ slot[s].pc = "run"
    /\ Free # {}
    /\ slot' = [slot EXCEPT ![s].pc = "settle", ![s].ok = TRUE]
    /\ UNCHANGED <<row, waiting, holder, locks, faults>>

(* A query or Meta fails, or no connection is to be had within 10 s.       *)
Fails(s) ==
    /\ slot[s].pc \in NeedsConn
    /\ IF Free = {} THEN UNCHANGED faults ELSE Fault
    /\ slot' = [slot EXCEPT ![s].pc = "settle", ![s].ok = FALSE]
    /\ UNCHANGED <<row, waiting, holder, locks>>

Unlocked(s) == [locks EXCEPT ![slot[s].conn][Lock(s)] = @ - 1]

(* The finally blocks: a failing unlock is only logged, and the connection *)
(* goes back to the pool with its lock.                                    *)
Unlock(s) ==
    /\ slot[s].conn # None
    /\ \/ locks' = Unlocked(s) /\ UNCHANGED faults
       \/ locks' = locks /\ Fault
    /\ Release(s, slot[s].conn)

(* Then JobRunner acks, or nacks; a message that failed too often is       *)
(* parked.                                                                 *)
Settle(s) ==
    /\ slot[s].pc = "settle"
    /\ Unlock(s) \/ (slot[s].conn = None /\ UNCHANGED <<holder, locks, faults>>)
    /\ \/ waiting' = waiting
       \/ ~slot[s].ok /\ waiting' = waiting \cup {slot[s].job}
    /\ slot' = [slot EXCEPT ![s] = Idle]
    /\ UNCHANGED row

(* mutant: connections are kept for ever.                                  *)
NeverCloses(c) == FALSE /\ UNCHANGED vars

(* A free connection is closed after 30 s, and its session with it.        *)
IdleTimeout(c) ==
    /\ c \in Free /\ locks[c] # NoLocks
    /\ locks' = [locks EXCEPT ![c] = NoLocks]
    /\ UNCHANGED <<row, waiting, slot, holder, faults>>

(* The worker dies; its messages become visible again.                     *)
Crash ==
    /\ Fault
    /\ waiting' = waiting \cup ({slot[s].job : s \in Slots} \ {None})
    /\ slot' = [s \in Slots |-> Idle]
    /\ holder' = [c \in Conns |-> None]
    /\ locks' = [c \in Conns |-> NoLocks]
    /\ UNCHANGED row

Work(s) ==
    \/ Due(s) \/ SendChunk(s) \/ RunSync(s) \/ Settle(s)
    \/ \E c \in Conns : Acquire(s, c) \/ Skip(s, c)

Next ==
    \/ \E h \in Managed : Track(h) \/ Untrack(h) \/ TimePasses(h)
    \/ CronTick
    \/ \E s \in Slots : \/ \E j \in waiting : Deliver(s, j)
                        \/ Work(s) \/ ChunkFails(s) \/ Fails(s)
    \/ \E c \in Conns : IdleTimeout(c)
    \/ Crash

Spec == Init /\ [][Next]_vars

(* The schedule ticks, the worker polls and goes on with its jobs, and     *)
(* between two ticks every connection is idle for long enough.  Nothing is *)
(* assumed of top syncs, which only an operator asks for.                  *)
FairSpec ==
    /\ Spec
    /\ WF_vars(CronTick)
    /\ \A s \in Slots : WF_vars(Work(s))
    /\ \A j \in Jobs : j[1] # "top" => SF_vars(\E s \in Slots : Deliver(s, j))
    /\ SF_vars(\E c \in Conns : IdleTimeout(c))

----------------------------------------------------------------------------
SlotState ==
    [pc : NeedsConn \cup {"idle", "send", "settle"},
     job : Jobs \cup {None}, conn : Conns \cup {None}, ok : BOOLEAN,
     asked : SUBSET Hashtags, sent : SUBSET Hashtags]

(* The type invariant: the place of a slot, and lock counts never negative. *)
TypeOK ==
    /\ row \in [Hashtags -> {"absent", "early", "due", "over"}]
    /\ waiting \subseteq Jobs
    /\ slot \in [Slots -> SlotState]
    /\ holder \in [Conns -> Slots \cup {None}]
    /\ locks \in [Conns -> [Hashes -> Nat]]
    /\ faults \in 0 .. MaxFaults

(* Two slots never sync the same hashtag and kind at once, although a      *)
(* message may be delivered twice, a leaked lock travels with its pooled   *)
(* connection, and the session that holds a lock is granted it again.      *)
LockExcludes ==
    \A s, t \in Slots : /\ s # t
                        /\ slot[s].pc = "run" /\ slot[t].pc = "run"
                        => slot[s].job # slot[t].job

(* With fewer slots than connections nobody ever waits for a connection    *)
(* that only waiting jobs could give back.                                 *)
PoolNeverJams ==
    (\E s \in Slots : slot[s].pc \in NeedsConn) => Free # {}

(* A dispatch is acked only when every hashtag it found due has its job,   *)
(* whatever the number of chunks.                                          *)
DispatchIsComplete ==
    \A s \in Slots : slot[s].pc = "settle" /\ slot[s].ok => slot[s].sent = slot[s].asked

Synced(h) ==
    \E s \in Slots : /\ slot[s].pc = "settle" /\ slot[s].ok /\ slot[s].conn # None
                    /\ slot[s].job = <<"recent", h>>

(* A hashtag that stays due is synced again and again: through failed and  *)
(* partly failed dispatches, skipped duplicates, leaked locks and crashes  *)
(* between any two steps.                                                  *)
DueIsSynced ==
    \A h \in Hashtags : <>[](row[h] = "due") => []<>Synced(h)

(* Once a hashtag is untracked its scheduled syncs run dry: jobs that were *)
(* queued or read as due before are worked off, and no new ones appear.    *)
UntrackedRunsDry ==
    \A h \in Managed : <>[](row[h] = "over") => <>[]~Synced(h)
=============================================================================
