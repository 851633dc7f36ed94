------------------------ MODULE SyncDispatch_proofs ------------------------
(***************************************************************************)
(* Safety of the dispatch and of the locks for any numbers of hashtags,    *)
(* slots, connections, faults and messages per batch, and for any hash of  *)
(* the lock names, collisions included; and, in the second part, safety of *)
(* the account the worker is deployed in, for any crontab, any fill of the *)
(* bucket and any number of failed calls.                                  *)
(***************************************************************************)
EXTENDS SyncDispatch, Infrastructure, FiniteSetTheorems, TLAPS

(* A job past its delivery is a job of the queue, and one that looks for   *)
(* its lock or runs under it is the sync of a hashtag.                     *)
JobInv(s) ==
    /\ slot[s].pc # "idle" => slot[s].job \in Jobs
    /\ slot[s].pc \in {"find", "run"} => slot[s].job \in Keys

(* A connection and the slot it is checked out to know each other, and     *)
(* its session holds the lock of the slot's job.                           *)
ConnInv(s) ==
    /\ slot[s].pc = "run" => slot[s].conn # None
    /\ slot[s].conn # None => /\ slot[s].pc \in {"run", "settle"}
                              /\ slot[s].job \in Keys
                              /\ holder[slot[s].conn] = s
                              /\ locks[slot[s].conn][Lock(s)] > 0

HolderInv(c) == holder[c] # None => slot[holder[c]].conn = c

(* A dispatch that has not sent anything, and one that counts as done.     *)
SentInv(s) ==
    /\ slot[s].pc = "due" => slot[s].sent = {}
    /\ slot[s].pc \in {"find", "run"} => slot[s].sent = slot[s].asked
    /\ slot[s].pc = "settle" /\ slot[s].ok => slot[s].sent = slot[s].asked

(* No lock is held by two sessions.                                        *)
LocksDisjoint ==
    \A c, d \in Conns : c # d =>
        \A l \in Hashes : locks[c][l] = 0 \/ locks[d][l] = 0

IInv ==
    /\ TypeOK
    /\ \A s \in Slots : JobInv(s) /\ ConnInv(s) /\ SentInv(s)
    /\ \A c \in Conns : HolderInv(c)
    /\ LocksDisjoint

-----------------------------------------------------------------------------
LEMMA LockType ==
    ASSUME NEW k \in Keys
    PROVE  LockOf[k] \in Hashes
BY DEF Hashes

LEMMA DispatchIsNoKey == Dispatch \notin Keys
BY DEF Dispatch, Keys, Kinds

LEMMA RecentIsKey ==
    ASSUME NEW H \in SUBSET Hashtags
    PROVE  {<<"recent", h>> : h \in H} \subseteq Jobs
BY DEF Jobs, Keys, Kinds

LEMMA FaultType ==
    ASSUME faults \in 0 .. MaxFaults, Fault \/ UNCHANGED faults
    PROVE  faults' \in 0 .. MaxFaults
BY BatchAssumption DEF Fault

(* A slot's new state, given its fields.                                   *)
LEMMA SlotType ==
    ASSUME IInv, NEW s \in Slots, NEW r \in SlotState, slot' = [slot EXCEPT ![s] = r]
    PROVE  /\ slot' \in [Slots -> SlotState]
           /\ slot'[s] = r
           /\ \A t \in Slots \ {s} : slot'[t] = slot[t]
BY DEF IInv, TypeOK

LEMMA IdleType == Idle \in SlotState
BY DEF Idle, SlotState

(* The end of a handler.                                                   *)
LEMMA ToSettle ==
    ASSUME IInv, NEW s \in Slots, NEW b \in BOOLEAN,
           slot' = [slot EXCEPT ![s].pc = "settle", ![s].ok = b]
    PROVE  /\ slot' \in [Slots -> SlotState]
           /\ \A t \in Slots \ {s} : slot'[t] = slot[t]
           /\ slot'[s].pc = "settle" /\ slot'[s].ok = b
           /\ slot'[s].job = slot[s].job /\ slot'[s].conn = slot[s].conn
           /\ slot'[s].asked = slot[s].asked /\ slot'[s].sent = slot[s].sent
<1> DEFINE r == [slot[s] EXCEPT !.pc = "settle", !.ok = b]
<1>1. slot[s] \in SlotState
    BY DEF IInv, TypeOK
<1>2. r \in SlotState
    BY <1>1 DEF SlotState
<1>3. slot' = [slot EXCEPT ![s] = r]
    BY DEF IInv, TypeOK
<1>4. /\ r.pc = "settle" /\ r.ok = b /\ r.job = slot[s].job /\ r.conn = slot[s].conn
      /\ r.asked = slot[s].asked /\ r.sent = slot[s].sent
    BY <1>1 DEF SlotState
<1> QED BY <1>2, <1>3, <1>4, SlotType

LEMMA InitInv == Init => IInv
<1> SUFFICES ASSUME Init PROVE IInv
    OBVIOUS
<1> USE DEF Init, Idle
<1>1. TypeOK
    BY BatchAssumption, ManagedAssumption, IdleType DEF TypeOK, NoLocks
<1>2. \A s \in Slots : JobInv(s) /\ ConnInv(s) /\ SentInv(s)
    BY DEF JobInv, ConnInv, SentInv
<1>3. \A c \in Conns : HolderInv(c)
    BY DEF HolderInv
<1>4. LocksDisjoint
    BY DEF LocksDisjoint, NoLocks
<1> QED BY <1>1, <1>2, <1>3, <1>4 DEF IInv

(***************************************************************************)
(* Steps that touch neither slots nor connections.                         *)
(***************************************************************************)
LEMMA SlotsUntouched ==
    ASSUME IInv, TypeOK', UNCHANGED <<slot, holder, locks>>
    PROVE  IInv'
BY DEF IInv, JobInv, ConnInv, HolderInv, SentInv, LocksDisjoint, Lock

LEMMA CommandStep ==
    ASSUME IInv, NEW h \in Managed, Track(h) \/ Untrack(h) \/ TimePasses(h)
    PROVE  IInv'
<1>1. h \in Hashtags
    BY ManagedAssumption
<1>2. <<"top", h>> \in Jobs
    BY <1>1 DEF Jobs, Keys, Kinds
<1>3. TypeOK'
  <2>1. CASE Track(h)
    BY <1>1, <1>2, <2>1 DEF IInv, TypeOK, Track, EnsureTracked
  <2>2. CASE Untrack(h)
    BY <1>1, <2>2 DEF IInv, TypeOK, Untrack
  <2>3. CASE TimePasses(h)
    BY <1>1, <2>3 DEF IInv, TypeOK, TimePasses
  <2> QED BY <2>1, <2>2, <2>3
<1> QED BY <1>3, SlotsUntouched DEF Track, Untrack, TimePasses

LEMMA TickStep ==
    ASSUME IInv, CronTick
    PROVE  IInv'
<1>1. TypeOK'
    BY DEF IInv, TypeOK, CronTick, Jobs
<1> QED BY <1>1, SlotsUntouched DEF CronTick

(***************************************************************************)
(* Steps of one slot that leave its job, its connection and the locks.     *)
(***************************************************************************)
LEMMA SlotMoves ==
    ASSUME IInv, TypeOK', NEW s \in Slots,
           UNCHANGED <<holder, locks>>,
           \A t \in Slots \ {s} : slot'[t] = slot[t],
           slot'[s].job = slot[s].job, slot'[s].conn = slot[s].conn,
           slot[s].pc # "idle", slot'[s].pc \in {"send", "settle"},
           slot[s].conn # None => slot'[s].pc = "settle",
           SentInv(s)'
    PROVE  IInv'
<1>1. \A t \in Slots : (JobInv(t) /\ ConnInv(t) /\ SentInv(t))'
  <2> TAKE t \in Slots
  <2>1. CASE t = s
    BY <2>1 DEF IInv, JobInv, ConnInv, Lock
  <2>2. CASE t # s
    BY <2>2 DEF IInv, JobInv, ConnInv, SentInv, Lock
  <2> QED BY <2>1, <2>2
<1>2. \A c \in Conns : HolderInv(c)'
    BY DEF IInv, HolderInv, TypeOK
<1>3. LocksDisjoint'
    BY DEF IInv, LocksDisjoint
<1> QED BY <1>1, <1>2, <1>3 DEF IInv

LEMMA DueStep ==
    ASSUME IInv, NEW s \in Slots, Due(s)
    PROVE  IInv'
<1> DEFINE r == [slot[s] EXCEPT !.asked = FindDueForSync, !.ok = TRUE,
                    !.pc = IF FindDueForSync = {} THEN "settle" ELSE "send"]
<1>1. slot[s] \in SlotState /\ slot[s].pc = "due" /\ slot[s].conn = None
    BY DEF Due, IInv, TypeOK, ConnInv
<1>2. FindDueForSync \in SUBSET Hashtags
    BY DEF FindDueForSync
<1>3. r \in SlotState
    BY <1>1, <1>2 DEF SlotState
<1>4. slot' = [slot EXCEPT ![s] = r]
    BY DEF Due, IInv, TypeOK
<1>5. /\ r.job = slot[s].job /\ r.conn = slot[s].conn /\ r.sent = slot[s].sent
      /\ r.asked = FindDueForSync
      /\ r.pc = IF FindDueForSync = {} THEN "settle" ELSE "send"
    BY <1>1 DEF SlotState
<1>6. TypeOK' /\ slot'[s] = r /\ \A t \in Slots \ {s} : slot'[t] = slot[t]
    BY <1>3, <1>4, SlotType DEF Due, IInv, TypeOK
<1>7. SentInv(s)'
  <2>1. slot[s].sent = {}
    BY <1>1 DEF IInv, SentInv
  <2>2. /\ slot'[s].pc \in {"settle", "send"}
        /\ slot'[s].pc = "settle" => slot'[s].asked = {}
        /\ slot'[s].sent = {}
    BY <1>5, <1>6, <2>1
  <2> QED BY <2>2 DEF SentInv
<1> QED BY <1>1, <1>5, <1>6, <1>7, SlotMoves DEF Due

LEMMA SendStep ==
    ASSUME IInv, NEW s \in Slots, SendChunk(s)
    PROVE  IInv'
<1>1. slot[s] \in SlotState /\ slot[s].pc = "send" /\ slot[s].conn = None
    BY DEF SendChunk, IInv, TypeOK, ConnInv
<1>2. PICK chunk \in SUBSET (slot[s].asked \ slot[s].sent) :
          /\ Send(chunk)
          /\ slot' = [slot EXCEPT ![s].sent = slot[s].sent \cup chunk,
                         ![s].pc = IF AllSent(s, slot[s].sent \cup chunk)
                                   THEN "settle" ELSE "send"]
    BY DEF SendChunk
<1>3. chunk \in SUBSET Hashtags /\ slot[s].sent \cup chunk \in SUBSET Hashtags
    BY <1>1, <1>2 DEF SlotState
<1> DEFINE r == [slot[s] EXCEPT !.sent = slot[s].sent \cup chunk,
                    !.pc = IF AllSent(s, slot[s].sent \cup chunk)
                           THEN "settle" ELSE "send"]
<1>4. r \in SlotState
    BY <1>1, <1>3 DEF SlotState
<1>5. slot' = [slot EXCEPT ![s] = r]
    BY <1>2 DEF IInv, TypeOK
<1>6. /\ r.job = slot[s].job /\ r.conn = slot[s].conn /\ r.asked = slot[s].asked
      /\ r.sent = slot[s].sent \cup chunk
      /\ r.pc = IF slot[s].sent \cup chunk = slot[s].asked THEN "settle" ELSE "send"
    BY <1>1 DEF SlotState, AllSent
<1>7. waiting' \subseteq Jobs
    BY <1>2, <1>3, RecentIsKey DEF Send, IInv, TypeOK
<1>8. TypeOK' /\ slot'[s] = r /\ \A t \in Slots \ {s} : slot'[t] = slot[t]
    BY <1>4, <1>5, <1>7, SlotType DEF SendChunk, IInv, TypeOK
<1>9. SentInv(s)'
    BY <1>6, <1>8 DEF SentInv
<1> QED BY <1>1, <1>6, <1>8, <1>9, SlotMoves DEF SendChunk

LEMMA ChunkFailsStep ==
    ASSUME IInv, NEW s \in Slots, ChunkFails(s)
    PROVE  IInv'
<1>1. slot[s] \in SlotState /\ slot[s].pc = "send" /\ slot[s].conn = None
    BY DEF ChunkFails, IInv, TypeOK, ConnInv
<1>2. PICK some \in SUBSET (slot[s].asked \ slot[s].sent) : Send(some)
    BY DEF ChunkFails
<1>3. waiting' \subseteq Jobs
  <2>1. some \in SUBSET Hashtags
    BY <1>1, <1>2 DEF SlotState
  <2> QED BY <1>2, <2>1, RecentIsKey DEF Send, IInv, TypeOK
<1>4. faults' \in 0 .. MaxFaults
    BY FaultType DEF ChunkFails, IInv, TypeOK
<1>5. slot' = [slot EXCEPT ![s].pc = "settle", ![s].ok = FALSE]
    BY DEF ChunkFails
<1>6. TypeOK'
    BY <1>3, <1>4, <1>5, ToSettle DEF ChunkFails, IInv, TypeOK
<1>7. SentInv(s)'
    BY <1>5, ToSettle DEF SentInv
<1> QED BY <1>1, <1>5, <1>6, <1>7, ToSettle, SlotMoves DEF ChunkFails

LEMMA RunStep ==
    ASSUME IInv, NEW s \in Slots, RunSync(s)
    PROVE  IInv'
<1>1. slot' = [slot EXCEPT ![s].pc = "settle", ![s].ok = TRUE]
    BY DEF RunSync
<1>2. TypeOK'
    BY <1>1, ToSettle DEF RunSync, IInv, TypeOK
<1>3. SentInv(s)'
  <2>1. slot[s].sent = slot[s].asked
    BY DEF RunSync, IInv, SentInv
  <2>2. slot'[s].sent = slot'[s].asked /\ slot'[s].pc = "settle"
    BY <1>1, <2>1, ToSettle
  <2> QED BY <2>2 DEF SentInv
<1> QED BY <1>1, <1>2, <1>3, ToSettle, SlotMoves DEF RunSync

LEMMA FailsStep ==
    ASSUME IInv, NEW s \in Slots, Fails(s)
    PROVE  IInv'
<1>1. slot' = [slot EXCEPT ![s].pc = "settle", ![s].ok = FALSE]
    BY DEF Fails
<1>2. faults' \in 0 .. MaxFaults
    BY FaultType DEF Fails, IInv, TypeOK
<1>3. TypeOK'
    BY <1>1, <1>2, ToSettle DEF Fails, IInv, TypeOK
<1>4. SentInv(s)'
    BY <1>1, ToSettle DEF SentInv
<1> QED BY <1>1, <1>3, <1>4, ToSettle, SlotMoves DEF Fails, NeedsConn

(***************************************************************************)
(* Delivery, and the way into and out of the lock.                         *)
(***************************************************************************)
LEMMA ReadyIsIdle ==
    ASSUME NEW s \in Ready
    PROVE  s \in Slots /\ slot[s].pc = "idle"
<1> DEFINE idle == {t \in Slots : slot[t].pc = "idle"}
<1>1. idle # {} /\ s = CHOOSE t \in idle : TRUE
    BY DEF Ready
<1>2. s \in idle
    BY <1>1
<1> QED BY <1>2

LEMMA DeliverStep ==
    ASSUME IInv, NEW s \in Slots, NEW j \in waiting, Deliver(s, j)
    PROVE  IInv'
<1>1. slot[s].pc = "idle" /\ slot[s].conn = None
    BY ReadyIsIdle DEF Deliver, IInv, ConnInv
<1>2. /\ slot'[s] = [Idle EXCEPT !.job = j, !.pc = IF j = Dispatch THEN "due" ELSE "find"]
      /\ \A t \in Slots \ {s} : slot'[t] = slot[t]
    BY DEF Deliver, IInv, TypeOK
<1>3. j \in Jobs /\ (j # Dispatch => j \in Keys)
    BY DEF IInv, TypeOK, Jobs
<1>4. TypeOK'
  <2>1. faults' \in 0 .. MaxFaults
    BY FaultType DEF Deliver, IInv, TypeOK
  <2>2. [Idle EXCEPT !.job = j, !.pc = IF j = Dispatch THEN "due" ELSE "find"] \in SlotState
    BY <1>3 DEF Idle, SlotState, NeedsConn
  <2> QED BY <2>1, <2>2, SlotType DEF Deliver, IInv, TypeOK
<1>5. \A t \in Slots : (JobInv(t) /\ ConnInv(t) /\ SentInv(t))'
  <2> TAKE t \in Slots
  <2>1. CASE t = s
    BY <1>2, <1>3, <2>1 DEF Idle, JobInv, ConnInv, SentInv
  <2>2. CASE t # s
    BY <1>2, <2>2 DEF Deliver, IInv, JobInv, ConnInv, SentInv, Lock
  <2> QED BY <2>1, <2>2
<1>6. \A c \in Conns : HolderInv(c)'
    BY <1>1, <1>2, NoneAssumption DEF Deliver, IInv, HolderInv, TypeOK
<1>7. LocksDisjoint'
    BY DEF Deliver, IInv, LocksDisjoint
<1> QED BY <1>4, <1>5, <1>6, <1>7 DEF IInv

LEMMA OfferedIsFree ==
    ASSUME NEW c \in Offered
    PROVE  c \in Conns /\ holder[c] = None
<1>1. PICK e \in Free : c = CHOOSE d \in Free : locks[d] = locks[e]
    BY DEF Offered
<1>2. c \in Free
    BY <1>1
<1> QED BY <1>2 DEF Free

LEMMA AcquireStep ==
    ASSUME IInv, NEW s \in Slots, NEW c \in Conns, Acquire(s, c)
    PROVE  IInv'
<1>1. holder[c] = None
    BY OfferedIsFree DEF Acquire
<1>2. slot[s].job \in Keys /\ slot[s].conn = None /\ Lock(s) \in Hashes
    BY LockType DEF Acquire, IInv, JobInv, ConnInv, Lock
<1>3. /\ slot'[s] = [slot[s] EXCEPT !.pc = "run", !.conn = c]
      /\ \A t \in Slots \ {s} : slot'[t] = slot[t]
      /\ \A d \in Conns : holder'[d] = IF d = c THEN s ELSE holder[d]
      /\ \A d \in Conns, l \in Hashes :
            locks'[d][l] = IF d = c /\ l = Lock(s) THEN locks[d][l] + 1 ELSE locks[d][l]
    BY <1>2 DEF Acquire, IInv, TypeOK
<1>4. TypeOK'
  <2>1. locks' \in [Conns -> [Hashes -> Nat]]
    BY <1>2 DEF Acquire, IInv, TypeOK
  <2>2. slot[s] \in SlotState
    BY DEF IInv, TypeOK
  <2>3. [slot[s] EXCEPT !.pc = "run", !.conn = c] \in SlotState
    BY <2>2 DEF SlotState, NeedsConn
  <2>4. slot' = [slot EXCEPT ![s] = [slot[s] EXCEPT !.pc = "run", !.conn = c]]
    BY DEF Acquire, IInv, TypeOK
  <2>5. holder' \in [Conns -> Slots \cup {None}]
    BY DEF Acquire, IInv, TypeOK
  <2> QED BY <2>1, <2>3, <2>4, <2>5, SlotType DEF Acquire, IInv, TypeOK
<1>5. \A t \in Slots : (JobInv(t) /\ ConnInv(t) /\ SentInv(t))'
  <2> TAKE t \in Slots
  <2>1. CASE t = s
    <3>1. slot[s].pc = "find" /\ slot[s].sent = slot[s].asked
        BY DEF Acquire, IInv, SentInv
    <3>2. Lock(s)' = Lock(s) /\ locks[c][Lock(s)] \in Nat /\ c # None
        BY <1>2, <1>3, NoneAssumption DEF Lock, IInv, TypeOK
    <3>3. locks'[c][Lock(s)] > 0
        BY <1>2, <1>3, <3>2
    <3>4. slot'[s].pc = "run" /\ slot'[s].conn = c /\ slot'[s].job = slot[s].job
          /\ slot'[s].sent = slot'[s].asked
        BY <1>3, <3>1 DEF IInv, TypeOK, SlotState
    <3>5. slot'[s].job \in Jobs
        BY <1>2, <3>4 DEF Jobs
    <3> QED BY <1>2, <1>3, <2>1, <3>2, <3>3, <3>4, <3>5 DEF JobInv, ConnInv, SentInv
  <2>2. CASE t # s
    <3>1. slot'[t] = slot[t] /\ Lock(t)' = Lock(t)
        BY <1>3, <2>2 DEF Lock
    <3>2. ASSUME slot[t].conn # None
          PROVE  /\ holder'[slot[t].conn] = t
                 /\ locks'[slot[t].conn][Lock(t)] > 0
      <4>1. slot[t].conn \in Conns /\ slot[t].conn # c
        BY <1>1, <3>2, NoneAssumption DEF IInv, ConnInv, TypeOK, SlotState
      <4>2. Lock(t) \in Hashes
        BY <3>2, LockType DEF IInv, ConnInv, Lock
      <4> QED BY <1>3, <3>2, <4>1, <4>2 DEF IInv, ConnInv
    <3> QED BY <3>1, <3>2 DEF IInv, JobInv, ConnInv, SentInv
  <2> QED BY <2>1, <2>2
<1>6. \A d \in Conns : HolderInv(d)'
  <2>1. slot'[s].conn = c
    BY <1>3 DEF IInv, TypeOK, SlotState
  <2>2. ASSUME NEW d \in Conns \ {c}, holder[d] # None
        PROVE  slot'[holder[d]].conn = d
    <3>1. holder[d] \in Slots /\ slot[holder[d]].conn = d /\ d # None
        BY <2>2, NoneAssumption DEF IInv, TypeOK, HolderInv
    <3> QED BY <1>2, <1>3, <3>1
  <2> QED BY <1>3, <2>1, <2>2 DEF HolderInv
<1>7. LocksDisjoint'
  <2>1. \A d \in Conns \ {c} : locks[d][Lock(s)] = 0
    BY DEF Acquire, Granted
  <2> QED BY <1>3, <2>1 DEF IInv, LocksDisjoint
<1> QED BY <1>4, <1>5, <1>6, <1>7 DEF IInv

LEMMA SkipStep ==
    ASSUME IInv, NEW s \in Slots, NEW c \in Conns, Skip(s, c)
    PROVE  IInv'
<1>1. holder[c] = None
    BY OfferedIsFree DEF Skip
<1>2. holder' = holder
    BY <1>1 DEF Skip, Release, IInv, TypeOK
<1>3. slot' = [slot EXCEPT ![s].pc = "settle", ![s].ok = TRUE]
    BY DEF Skip
<1>4. TypeOK'
    BY <1>2, <1>3, ToSettle DEF Skip, IInv, TypeOK
<1>5. SentInv(s)'
  <2>1. slot[s].sent = slot[s].asked
    BY DEF Skip, IInv, SentInv
  <2>2. slot'[s].sent = slot'[s].asked /\ slot'[s].pc = "settle"
    BY <1>3, <2>1, ToSettle
  <2> QED BY <2>2 DEF SentInv
<1> QED BY <1>2, <1>3, <1>4, <1>5, ToSettle, SlotMoves DEF Skip

(* The connection a slot gives back, its lock released or leaked.          *)
LEMMA ReleaseStep ==
    ASSUME IInv, NEW s \in Slots, slot[s].conn # None,
           locks' = Unlocked(s) \/ locks' = locks,
           Release(s, slot[s].conn), slot' = [slot EXCEPT ![s] = Idle]
    PROVE  /\ \A t \in Slots : (JobInv(t) /\ ConnInv(t) /\ SentInv(t))'
           /\ \A c \in Conns : HolderInv(c)'
           /\ LocksDisjoint'
           /\ locks' \in [Conns -> [Hashes -> Nat]]
           /\ holder' \in [Conns -> Slots \cup {None}]
<1> DEFINE c == slot[s].conn
<1>1. c \in Conns /\ holder[c] = s /\ Lock(s) \in Hashes /\ locks[c][Lock(s)] > 0
    BY LockType DEF IInv, TypeOK, SlotState, ConnInv, Lock
<1>2. /\ slot'[s] = Idle
      /\ \A t \in Slots \ {s} : slot'[t] = slot[t]
      /\ \A d \in Conns : holder'[d] = IF d = c THEN None ELSE holder[d]
    BY DEF Release, IInv, TypeOK
<1>3. /\ \A d \in Conns \ {c} : locks'[d] = locks[d]
      /\ \A l \in Hashes : locks'[c][l] \in Nat /\ (locks[c][l] = 0 => locks'[c][l] = 0)
      /\ locks' \in [Conns -> [Hashes -> Nat]]
  <2>1. CASE locks' = locks
    BY <1>1, <2>1 DEF IInv, TypeOK
  <2>2. CASE locks' = Unlocked(s)
    <3>1. locks[c][Lock(s)] - 1 \in Nat
        BY <1>1 DEF IInv, TypeOK
    <3> QED BY <1>1, <2>2, <3>1 DEF IInv, TypeOK, Unlocked
  <2> QED BY <2>1, <2>2
<1>4. \A t \in Slots : (JobInv(t) /\ ConnInv(t) /\ SentInv(t))'
  <2> TAKE t \in Slots
  <2>1. CASE t = s
    BY <1>2, <2>1 DEF Idle, JobInv, ConnInv, SentInv
  <2>2. CASE t # s
    <3>1. slot'[t] = slot[t] /\ Lock(t)' = Lock(t)
        BY <1>2, <2>2 DEF Lock
    <3>2. ASSUME slot[t].conn # None
          PROVE  /\ holder'[slot[t].conn] = t
                 /\ locks'[slot[t].conn][Lock(t)] > 0
      <4>1. slot[t].conn \in Conns /\ slot[t].conn # c
        BY <1>1, <2>2, <3>2 DEF IInv, ConnInv, TypeOK, SlotState
      <4> QED BY <1>2, <1>3, <3>2, <4>1 DEF IInv, ConnInv
    <3> QED BY <3>1, <3>2 DEF IInv, JobInv, ConnInv, SentInv
  <2> QED BY <2>1, <2>2
<1>5. \A d \in Conns : HolderInv(d)'
    BY <1>1, <1>2, NoneAssumption DEF IInv, HolderInv, TypeOK
<1>6. LocksDisjoint'
    BY <1>1, <1>3 DEF IInv, LocksDisjoint
<1>7. holder' \in [Conns -> Slots \cup {None}]
    BY DEF Release, IInv, TypeOK
<1> QED BY <1>3, <1>4, <1>5, <1>6, <1>7

LEMMA SettleStep ==
    ASSUME IInv, NEW s \in Slots, Settle(s)
    PROVE  IInv'
<1>1. row' \in [Hashtags -> {"absent", "early", "due", "over"}] /\ waiting' \subseteq Jobs
    BY DEF Settle, IInv, TypeOK, JobInv
<1>2. slot' \in [Slots -> SlotState]
    BY IdleType, SlotType DEF Settle
<1>3. CASE Unlock(s)
  <2>1. faults' \in 0 .. MaxFaults
    BY <1>3, FaultType DEF Unlock, IInv, TypeOK
  <2> QED BY <1>1, <1>2, <1>3, <2>1, ReleaseStep DEF Unlock, Settle, IInv, TypeOK
<1>4. CASE slot[s].conn = None /\ UNCHANGED <<holder, locks, faults>>
  <2>1. slot'[s] = Idle /\ \A t \in Slots \ {s} : slot'[t] = slot[t]
    BY DEF Settle, IInv, TypeOK
  <2>2. \A t \in Slots : (JobInv(t) /\ ConnInv(t) /\ SentInv(t))'
    BY <1>4, <2>1 DEF IInv, Idle, JobInv, ConnInv, SentInv, Lock
  <2>3. \A c \in Conns : HolderInv(c)'
    BY <1>4, <2>1, NoneAssumption DEF IInv, HolderInv, TypeOK
  <2>4. LocksDisjoint'
    BY <1>4 DEF IInv, LocksDisjoint
  <2> QED BY <1>1, <1>2, <1>4, <2>2, <2>3, <2>4 DEF IInv, TypeOK
<1> QED BY <1>3, <1>4 DEF Settle

LEMMA IdleTimeoutStep ==
    ASSUME IInv, NEW c \in Conns, IdleTimeout(c)
    PROVE  IInv'
<1>1. holder[c] = None
    BY DEF IdleTimeout, Free
<1>2. \A d \in Conns : locks'[d] = IF d = c THEN NoLocks ELSE locks[d]
    BY DEF IdleTimeout, IInv, TypeOK
<1>3. TypeOK'
    BY DEF IdleTimeout, IInv, TypeOK, NoLocks
<1>4. \A s \in Slots : (JobInv(s) /\ ConnInv(s) /\ SentInv(s))'
    BY <1>1, <1>2, NoneAssumption
    DEF IdleTimeout, IInv, TypeOK, JobInv, ConnInv, SentInv, Lock
<1>5. \A d \in Conns : HolderInv(d)'
    BY DEF IdleTimeout, IInv, HolderInv
<1>6. LocksDisjoint'
    BY <1>2 DEF IInv, LocksDisjoint, NoLocks
<1> QED BY <1>3, <1>4, <1>5, <1>6 DEF IInv

LEMMA CrashStep ==
    ASSUME IInv, Crash
    PROVE  IInv'
<1>1. TypeOK'
  <2>1. faults' \in 0 .. MaxFaults
    BY FaultType DEF Crash, IInv, TypeOK
  <2>2. waiting' \subseteq Jobs
    <3>1. \A s \in Slots : slot[s].job \in Jobs \cup {None}
        BY DEF IInv, TypeOK, SlotState
    <3> QED BY <3>1 DEF Crash, IInv, TypeOK
  <2> QED BY <2>1, <2>2, IdleType DEF Crash, IInv, TypeOK, NoLocks
<1>2. \A s \in Slots : (JobInv(s) /\ ConnInv(s) /\ SentInv(s))'
    BY DEF Crash, Idle, JobInv, ConnInv, SentInv
<1>3. \A c \in Conns : HolderInv(c)'
    BY DEF Crash, HolderInv
<1>4. LocksDisjoint'
    BY DEF Crash, LocksDisjoint, NoLocks
<1> QED BY <1>1, <1>2, <1>3, <1>4 DEF IInv

(* The invariant of the dispatch: every step of the commands, the clock,   *)
(* the schedule, the slots and the pool keeps it, and so does a crash.     *)
THEOREM DispatchInvariant == Spec => []IInv
<1>1. IInv /\ [Next]_vars => IInv'
  <2> SUFFICES ASSUME IInv, [Next]_vars PROVE IInv'
    OBVIOUS
  <2>1. CASE \E h \in Managed : Track(h) \/ Untrack(h) \/ TimePasses(h)
    BY <2>1, CommandStep
  <2>2. CASE CronTick
    BY <2>2, TickStep
  <2>3. ASSUME NEW s \in Slots, NEW j \in waiting, Deliver(s, j)
        PROVE  IInv'
    BY <2>3, DeliverStep
  <2>4. ASSUME NEW s \in Slots, Work(s)
        PROVE  IInv'
    BY <2>4, DueStep, SendStep, RunStep, SettleStep, AcquireStep, SkipStep DEF Work
  <2>5. ASSUME NEW s \in Slots, ChunkFails(s) \/ Fails(s)
        PROVE  IInv'
    BY <2>5, ChunkFailsStep, FailsStep
  <2>6. CASE \E c \in Conns : IdleTimeout(c)
    BY <2>6, IdleTimeoutStep
  <2>7. CASE Crash
    BY <2>7, CrashStep
  <2>8. CASE UNCHANGED vars
    <3>1. TypeOK'
        BY <2>8 DEF vars, IInv, TypeOK
    <3> QED BY <2>8, <3>1, SlotsUntouched DEF vars
  <2> QED BY <2>1, <2>2, <2>3, <2>4, <2>5, <2>6, <2>7, <2>8 DEF Next
<1> QED BY InitInv, <1>1, PTL DEF Spec

(* Every variable of the dispatch has its type: in particular a lock is    *)
(* never released more often than it was taken.                            *)
THEOREM TypeCorrect == Spec => []TypeOK
<1>1. IInv => TypeOK
    BY DEF IInv
<1> QED BY <1>1, DispatchInvariant, PTL

(* No two slots sync the same hashtag and kind at once, whatever hashes    *)
(* collide and whatever locks leaked into the pool.                        *)
THEOREM LockExclusion == Spec => []LockExcludes
<1>1. IInv => LockExcludes
  <2> SUFFICES ASSUME IInv, NEW s \in Slots, NEW t \in Slots, s # t,
                      slot[s].pc = "run", slot[t].pc = "run",
                      slot[s].job = slot[t].job
               PROVE  FALSE
    BY DEF LockExcludes
  <2>1. /\ slot[s].conn \in Conns /\ holder[slot[s].conn] = s
        /\ slot[t].conn \in Conns /\ holder[slot[t].conn] = t
        /\ locks[slot[s].conn][Lock(s)] > 0 /\ locks[slot[t].conn][Lock(t)] > 0
        /\ slot[s].job \in Keys
    BY DEF IInv, ConnInv, TypeOK, SlotState
  <2>2. Lock(s) = Lock(t) /\ Lock(s) \in Hashes
    BY <2>1, LockType DEF Lock
  <2>3. slot[s].conn # slot[t].conn
    BY <2>1
  <2> QED BY <2>1, <2>2, <2>3 DEF IInv, LocksDisjoint
<1> QED BY <1>1, DispatchInvariant, PTL

(* A dispatch that is acked has sent a job for every hashtag it found due, *)
(* for any batch size.                                                     *)
THEOREM CompleteDispatch == Spec => []DispatchIsComplete
<1>1. IInv => DispatchIsComplete
    BY DEF IInv, SentInv, DispatchIsComplete
<1> QED BY <1>1, DispatchInvariant, PTL

(* A pool with more connections than the worker has slots always has one   *)
(* for the query that a job waits to run: a slot checks out one at most.   *)
THEOREM NoPoolJam ==
    ASSUME Cardinality(Slots) < Cardinality(Conns)
    PROVE  Spec => []PoolNeverJams
<1>1. IInv => PoolNeverJams
  <2> SUFFICES ASSUME IInv, Free = {} PROVE FALSE
    BY DEF PoolNeverJams
  <2>1. \A c \in Conns : holder[c] \in Slots /\ slot[holder[c]].conn = c
    BY DEF Free, IInv, TypeOK, HolderInv
  <2> DEFINE f == [c \in Conns |-> holder[c]]
  <2>2. f \in Injection(Conns, Slots)
  <3>1. f \in [Conns -> Slots]
    BY <2>1
  <3>2. \A c, d \in Conns : f[c] = f[d] => c = d
    BY <2>1
  <3> QED BY <3>1, <3>2 DEF Injection, IsInjective
  <2>3. Cardinality(Conns) <= Cardinality(Slots)
    BY <2>2, FS_Injection, FiniteAssumption
  <2>4. Cardinality(Conns) \in Nat /\ Cardinality(Slots) \in Nat
    BY FS_CardinalityType, FiniteAssumption
  <2> QED BY <2>3, <2>4
<1> QED BY <1>1, DispatchInvariant, PTL

----------------------------------------------------------------------------
(* The account that carries the queue, the schedule and the worker: the    *)
(* operator's commands of module Infrastructure.                           *)

(* The programs, call by call.                                             *)
LEMMA ProvisionCalls ==
    /\ Len(ProvisionProgram) = 10
    /\ ProvisionProgram[1] = Call("look", "account", {})
    /\ ProvisionProgram[2] = Ensure("bucket")
    /\ ProvisionProgram[3] = Put("blocked", {"bucket"})
    /\ ProvisionProgram[4] = Put("encrypted", {"bucket"})
    /\ ProvisionProgram[5] = Ensure("dlq")
    /\ ProvisionProgram[6] = Ensure("queue")
    /\ ProvisionProgram[7] = Put("redrive", {"dlq", "queue"})
    /\ ProvisionProgram[8] = Ensure("schedulerRole")
    /\ ProvisionProgram[9] = Put("schedulerPolicy", {"schedulerRole"})
    /\ ProvisionProgram[10] = Put("schedule", {"queue", "schedulerRole"})
BY DEF ProvisionProgram, EnsureBucket, EnsureQueues, EnsureSchedulerRole,
    EnsureSchedules

LEMMA DeployCalls ==
    /\ Len(DeployProgram) = 12
    /\ DeployProgram[1] = Call("running", "instance", {})
    /\ DeployProgram[2] = Put("lifecycle", {"roleArn", "subnet", "bucket"})
    /\ DeployProgram[3] = Ensure("ec2Role")
    /\ DeployProgram[4] = Put("ec2Policy", {"ec2Role"})
    /\ DeployProgram[5] = EnsureWith("profile", {}, 1)
    /\ DeployProgram[6] = Put("profileRole", {"profile", "ec2Role"})
    /\ DeployProgram[7] = EnsureWith("group", {}, 1)
    /\ DeployProgram[8] = Put("groupRule", {"group"})
    /\ DeployProgram[9] = EnsureWith("keyPair", {}, 1)
    /\ DeployProgram[10] = Call("write", "keyFile", {})
    /\ DeployProgram[11] =
          Call("launch", "instance", {"image", "profile", "profileRole", "group", "keyPair"})
    /\ DeployProgram[12] = Call("tag", "instance", {})
BY DEF DeployProgram, EnsureInstanceProfile, EnsureSecurityGroup, EnsureKeyPair

LEMMA TeardownCalls ==
    /\ Len(TeardownProgram) = 8
    /\ TeardownProgram[1] = Call("terminate", "instance", {})
    /\ TeardownProgram[2] = Drop("schedule")
    /\ TeardownProgram[3] = Drop("queue")
    /\ TeardownProgram[4] = Drop("dlq")
    /\ TeardownProgram[5] = Drop("schedulerPolicy")
    /\ TeardownProgram[6] = Drop("schedulerRole")
    /\ TeardownProgram[7] = Call("empty", "bucket", {})
    /\ TeardownProgram[8] = Drop("bucket")
BY DEF TeardownProgram

LEMMA Programs ==
    /\ DOMAIN Program = {"provision", "deploy", "teardown"}
    /\ Program["provision"] = ProvisionProgram
    /\ Program["deploy"] = DeployProgram
    /\ Program["teardown"] = TeardownProgram
BY DEF Program

LEMMA ProgramLengths ==
    ASSUME NEW name \in DOMAIN Program
    PROVE  Len(Program[name]) \in Nat \ {0}
<1>1. CASE name = "provision" BY <1>1, Programs, ProvisionCalls
<1>2. CASE name = "deploy" BY <1>2, Programs, DeployCalls
<1>3. CASE name = "teardown" BY <1>3, Programs, TeardownCalls
<1> QED BY <1>1, <1>2, <1>3, Programs

(* The fields of a call.                                                   *)
LEMMA CallFields ==
    ASSUME NEW kind, NEW fact, NEW needs
    PROVE  /\ Call(kind, fact, needs).kind = kind
           /\ Call(kind, fact, needs).fact = fact
           /\ Call(kind, fact, needs).needs = needs
           /\ Call(kind, fact, needs).skip = 0
BY DEF Call

LEMMA EnsureFields ==
    ASSUME NEW fact, NEW needs, NEW n
    PROVE  /\ EnsureWith(fact, needs, n).kind = "ensure"
           /\ EnsureWith(fact, needs, n).fact = fact
           /\ EnsureWith(fact, needs, n).needs = needs
           /\ EnsureWith(fact, needs, n).skip = n
BY DEF EnsureWith, Call

(* What the step of a provision is and what it finds.                      *)
ProvisionView ==
    /\ cmd.at \in 1 .. 10
    /\ Step.kind \in {"look", "ensure", "put"}
    /\ Step.skip = 0
    /\ Step.needs \subseteq aws
    /\ Step.kind = "look" <=> cmd.at = 1
    /\ Step.fact = IF cmd.at = 1 THEN "account" ELSE ProvisionProgram[cmd.at].fact
    /\ cmd.at # 1 => Step.fact \in ProvisionFacts
    /\ Step.fact = "redrive" => "queue" \in aws
    /\ Step.fact = "schedule" => {"queue", "schedulerRole", "schedulerPolicy"} \subseteq aws

LEMMA ProvisionStep ==
    ASSUME AwsInv, Running, cmd.name = "provision"
    PROVE  ProvisionView
<1>1. cmd.at \in 1 .. 10 /\ Step = ProvisionProgram[cmd.at]
    BY Programs, ProvisionCalls DEF AwsInv, AwsTypeOK, Command, Running, Step
<1>2. \A m \in 2 .. cmd.at - 1 : ProvisionProgram[m].fact \in aws
    BY DEF AwsInv, ProvisionInv, UnderWay, Running
<1>3. ASSUME NEW m \in 2 .. 9, m < cmd.at PROVE ProvisionProgram[m].fact \in aws
    BY <1>1, <1>2, <1>3
<1>4. /\ cmd.at > 2 => "bucket" \in aws
      /\ cmd.at > 5 => "dlq" \in aws
      /\ cmd.at > 6 => "queue" \in aws
      /\ cmd.at > 8 => "schedulerRole" \in aws
      /\ cmd.at > 9 => "schedulerPolicy" \in aws
    BY <1>1, <1>3, ProvisionCalls, CallFields, EnsureFields DEF Ensure, Put
<1> QED
    BY <1>1, <1>4, ProvisionCalls, CallFields, EnsureFields
    DEF ProvisionView, Ensure, Put, ProvisionFacts

(* The effect of a call by its kind.                                       *)
LEMMA Adds ==
    ASSUME AwsTypeOK, Effect, Step.kind \in {"look", "ensure", "put"},
           Step.fact \notin {"group", "groupRule"}
    PROVE  /\ aws' = IF Step.kind = "look" THEN aws ELSE aws \cup {Step.fact}
           /\ UNCHANGED <<tagged, stopped, untagged, pages, recent, keyFile, sshFrom, moved>>
<1>1. /\ aws' = IF Step.kind = "look" THEN aws ELSE aws \cup {Step.fact}
      /\ UNCHANGED <<tagged, stopped, untagged, pages, recent, sshFrom, moved>>
    BY DEF Effect
<1>2. keyFile' = (keyFile \/ FALSE)
    <2>1. Step.kind # "write" OBVIOUS
    <2> QED BY <2>1 DEF Effect
<1>3. keyFile' = keyFile
    BY <1>2, Zenon DEF AwsTypeOK
<1> QED BY <1>1, <1>3

(* A command that goes on.                                                 *)
LEMMA Going ==
    ASSUME AwsTypeOK, Running, NEW n \in Nat \ {0}, Goto(n)
    PROVE  /\ cmd'.name = cmd.name /\ cmd'.at = n
           /\ cmd'.state = (IF n > Len(Program[cmd.name]) THEN "done" ELSE "running")
           /\ cmd'.faulted = cmd.faulted /\ cmd'.ip = cmd.ip
           /\ cmd' \in Command
BY DEF AwsTypeOK, Running, Goto, Command

(* What is around a command: instances, queues and addresses.              *)
Around ==
    /\ tagged \in Nat /\ stopped \in Nat /\ stops \in Nat
    /\ recent \subseteq Queues /\ moved \in BOOLEAN
    /\ address \in Addresses /\ sshFrom \in Addresses \cup {NoAddress}
    /\ stopped <= stops /\ tagged + stopped <= 1 + stops

LEMMA AroundHolds ==
    ASSUME AwsInv
    PROVE  Around
BY DEF AwsInv, AwsTypeOK, WorkerInv, Around

LEMMA AroundKept ==
    ASSUME AwsInv, UNCHANGED <<tagged, stopped, stops, recent, moved, address, sshFrom>>
    PROVE  Around'
BY AroundHolds DEF Around

(* Only the deploy that creates the group touches its rule.                *)
LEMMA AddressKept ==
    ASSUME AwsInv, UNCHANGED <<sshFrom, address, moved>>, ~At("deploy", 8)',
           "groupRule" \in aws' <=> "groupRule" \in aws,
           "group" \in aws' <=> "group" \in aws
    PROVE  AddressInv'
BY DEF AwsInv, AddressInv

(* A provision only adds facts.                                            *)
LEMMA ProvisionGoesOn ==
    ASSUME AwsInv, Running, cmd.name = "provision", CallWorks \/ Found
    PROVE  AwsInv'
<1>0. AwsTypeOK /\ ProvisionView
    BY ProvisionStep DEF AwsInv
<1>1. /\ aws' = IF cmd.at = 1 THEN aws ELSE aws \cup {Step.fact}
      /\ UNCHANGED <<tagged, stopped, untagged, pages, recent, keyFile, sshFrom, moved,
                     address, configured, stops, failures>>
      /\ swallowed' \in {swallowed, swallowed \ {Step.fact}}
      /\ Step.fact \notin {"group", "groupRule"}
    BY <1>0, Adds DEF CallWorks, Found, NoEffect, account, Is, ProvisionView, ProvisionFacts
<1>2. /\ cmd'.name = "provision" /\ cmd'.at = cmd.at + 1
      /\ cmd'.state = (IF cmd.at = 10 THEN "done" ELSE "running")
      /\ cmd' \in Command
    <2>1. Goto(cmd.at + 1) /\ cmd.at + 1 \in Nat \ {0}
        BY <1>0 DEF CallWorks, Found, Continue, ProvisionView
    <2> QED BY <1>0, <2>1, Going, Programs, ProvisionCalls DEF ProvisionView
<1>3. AwsTypeOK'
    BY <1>0, <1>1, <1>2, Programs, ProvisionCalls
    DEF AwsTypeOK, Facts, Running, ProvisionView
<1>4. ProvisionInv'
    BY <1>0, <1>1, <1>2 DEF AwsInv, ProvisionInv, UnderWay, Running, ProvisionView
<1>5. DeployInv' /\ TeardownInv'
    BY <1>2 DEF DeployInv, TeardownInv, UnderWay
<1>6. DependenceInv'
    BY <1>0, <1>1 DEF AwsInv, DependenceInv, ProvisionFacts, ProvisionView
<1>7. HalfDoneInv'
    BY <1>0, <1>1, <1>2
    DEF AwsInv, HalfDoneInv, At, Running, ProvisionFacts, ProvisionView
<1>8. WorkerInv'
    BY <1>1, <1>2 DEF AwsInv, WorkerInv, At
<1>9. ScheduleHasItsTarget'
    BY <1>0, <1>1 DEF AwsInv, ScheduleHasItsTarget, ProvisionView
<1>10. AddressInv'
    BY <1>1, <1>2, AddressKept DEF At
<1> QED BY <1>10, <1>3, <1>4, <1>5, <1>6, <1>7, <1>8, <1>9 DEF AwsInv

(* A command that a fault ends: what matters is the account it leaves.     *)
LEMMA Stops ==
    ASSUME AwsInv,
           cmd' \in Command, cmd'.state = "failed", cmd'.faulted = TRUE,
           failures' = failures + 1,
           aws' \subseteq Facts, swallowed' \subseteq Facts,
           Around', untagged' \in 0 .. failures', pages' \in Nat,
           keyFile' \in BOOLEAN, configured' \in BOOLEAN,
           DependenceInv', AddressInv', ScheduleHasItsTarget'
    PROVE  AwsInv'
<1>1. failures' \in Nat /\ failures' > 0 BY DEF AwsInv, AwsTypeOK
<1>2. AwsTypeOK' BY <1>1 DEF AwsTypeOK, Around, Running
<1>3. ProvisionInv' /\ DeployInv' /\ TeardownInv'
    BY DEF ProvisionInv, DeployInv, TeardownInv, UnderWay, Running
<1>4. HalfDoneInv'
    BY <1>1 DEF HalfDoneInv
<1>5. WorkerInv'
    <2>1. ~At("deploy", 12)'
        BY DEF At, Running
    <2>2. untagged' <= failures' + 0
        BY <1>1
    <2> QED BY <2>1, <2>2 DEF WorkerInv, Around
<1> QED BY <1>2, <1>3, <1>4, <1>5 DEF AwsInv

(* The end of a command in an error.                                       *)
LEMMA Failing ==
    ASSUME AwsTypeOK, NEW b \in BOOLEAN, AfterError(b), ~Caught
    PROVE  /\ cmd' \in Command /\ cmd'.name = cmd.name
           /\ cmd'.state = "failed"
           /\ cmd'.faulted = (cmd.faulted \/ b)
BY DEF AwsTypeOK, Command, AfterError

(* A command that takes an error for nothing and goes on.                  *)
LEMMA Shrugs ==
    ASSUME AwsTypeOK, NEW b \in BOOLEAN, AfterError(b), Caught, Step.skip \in Nat
    PROVE  /\ cmd' \in Command /\ cmd'.name = cmd.name /\ cmd'.state = cmd.state
           /\ cmd'.at = cmd.at + 1 + Step.skip
           /\ cmd'.faulted = (cmd.faulted \/ b)
<1>1. cmd' = [cmd EXCEPT !.at = cmd.at + 1 + Step.skip, !.faulted = cmd.faulted \/ b]
    BY DEF AfterError
<1>2. cmd.at + 1 + Step.skip \in Nat \ {0}
    BY DEF AwsTypeOK, Command
<1> QED BY <1>1, <1>2 DEF AwsTypeOK, Command

LEMMA FaultCounts ==
    ASSUME AwsInv, Failure
    PROVE  /\ failures' = failures + 1 /\ failures \in Nat
           /\ untagged \in 0 .. failures'
BY DEF AwsInv, AwsTypeOK, WorkerInv, Failure

LEMMA DiesKeeps ==
    ASSUME AwsInv, Dies
    PROVE  AwsInv'
<1>1. /\ cmd' \in Command /\ cmd'.state = "failed" /\ cmd'.faulted = TRUE
    BY DEF Dies, AwsInv, AwsTypeOK, Command
<1>2. /\ UNCHANGED <<aws, tagged, stopped, untagged, pages, recent, keyFile, sshFrom, moved,
                     address, configured, swallowed, stops>>
      /\ Failure
    BY DEF Dies, NoEffect, account
<1>3. /\ DependenceInv' /\ ScheduleHasItsTarget' /\ AddressInv'
    BY <1>1, <1>2, AddressKept DEF AwsInv, DependenceInv, ScheduleHasItsTarget, At, Running
<1>4. /\ failures' = failures + 1 /\ Around' /\ untagged' \in 0 .. failures'
    BY <1>2, FaultCounts, AroundKept
<1>5. /\ aws' \subseteq Facts /\ swallowed' \subseteq Facts /\ pages' \in Nat
      /\ keyFile' \in BOOLEAN /\ configured' \in BOOLEAN
    BY <1>2 DEF AwsInv, AwsTypeOK
<1> QED BY <1>1, <1>3, <1>4, <1>5, Stops

(* A command that AWS refuses without a fault changes nothing.             *)
LEMMA GivesUp ==
    ASSUME AwsInv, Running, Refused, ~Caught,
           ~At("deploy", 6), ~At("deploy", 8), ~At("deploy", 10), ~At("deploy", 12)
    PROVE  AwsInv'
<1>1. UNCHANGED <<aws, tagged, stopped, untagged, pages, recent, keyFile, sshFrom, moved,
                  address, configured, swallowed, stops, failures>>
    BY DEF Refused, NoEffect, account
<1>2. cmd' \in Command /\ cmd'.state = "failed"
    BY Failing DEF AwsInv, Refused
<1>3. AwsTypeOK'
    BY <1>1, <1>2 DEF AwsInv, AwsTypeOK, Running
<1>4. ProvisionInv' /\ DeployInv' /\ TeardownInv'
    BY <1>2 DEF ProvisionInv, DeployInv, TeardownInv, UnderWay, Running
<1>5. DependenceInv' /\ ScheduleHasItsTarget' /\ AddressInv'
    BY <1>1, <1>2, AddressKept DEF AwsInv, DependenceInv, ScheduleHasItsTarget, At, Running
<1>6. HalfDoneInv'
    BY <1>1 DEF AwsInv, HalfDoneInv
<1>7. WorkerInv'
    BY <1>1 DEF AwsInv, WorkerInv, AwsTypeOK
<1> QED BY <1>3, <1>4, <1>5, <1>6, <1>7 DEF AwsInv

(* The calls of a provision that AWS can refuse are those that create a    *)
(* queue, just after its deletion, and the schedule.                       *)
LEMMA ProvisionRefused ==
    ASSUME AwsInv, Running, cmd.name = "provision", Refused
    PROVE  AwsInv' /\ Excuse
<1>0. AwsTypeOK /\ ProvisionView
    BY ProvisionStep DEF AwsInv
<1>1. ~Caught
    BY <1>0 DEF Caught, ProvisionView, ProvisionFacts
<1>2. \/ Step.fact \in recent
      \/ Step.fact = "schedule" /\ ~Accepted(ToEventBridgeExpression(cmd.cron))
    BY <1>0 DEF Refused, Works, ProvisionView
<1>3. ~Accepted(ToEventBridgeExpression(cmd.cron)) => Inexpressible(cmd.cron)
    <2>1. cmd.cron \in CronFields
        BY <1>0 DEF AwsTypeOK, Command
    <2>2. CASE cmd.cron = <<>>
        BY <2>2 DEF Inexpressible
    <2>3. CASE cmd.cron \in {"*", "set"} \X {"*", "set", "zero"}
        BY <2>3 DEF Accepted, ToEventBridgeExpression, Inexpressible
    <2> QED BY <2>1, <2>2, <2>3 DEF CronFields
<1>4. Excuse
    BY <1>2, <1>3 DEF Excuse
<1> QED BY <1>1, <1>4, GivesUp DEF At

LEMMA ProvisionFails ==
    ASSUME AwsInv, Running, cmd.name = "provision", CallFails
    PROVE  AwsInv'
<1>0. AwsTypeOK /\ ProvisionView
    BY ProvisionStep DEF AwsInv
<1>1. ~Caught
    BY <1>0 DEF Caught, ProvisionView, ProvisionFacts
<1>2. /\ cmd' \in Command /\ cmd'.state = "failed" /\ cmd'.faulted = TRUE
    BY <1>0, <1>1, Failing DEF CallFails
<1>3. /\ aws' \in {aws, aws \cup {Step.fact}}
      /\ cmd.at = 1 => aws' = aws
      /\ UNCHANGED <<tagged, stopped, untagged, pages, recent, keyFile, sshFrom, moved,
                     address, configured, swallowed, stops>>
      /\ Step.fact \notin {"group", "groupRule"}
    BY <1>0, <1>1, Adds DEF CallFails, NoEffect, account, ProvisionView, ProvisionFacts
<1>4. /\ failures' = failures + 1 /\ Around' /\ untagged' \in 0 .. failures'
    BY <1>3, FaultCounts, AroundKept DEF CallFails
<1>5. DependenceInv' /\ ScheduleHasItsTarget'
    BY <1>0, <1>3
    DEF AwsInv, DependenceInv, ScheduleHasItsTarget, ProvisionView, ProvisionFacts
<1>7. AddressInv'
    BY <1>2, <1>3, AddressKept DEF At, Running
<1>6. /\ aws' \subseteq Facts /\ swallowed' \subseteq Facts /\ pages' \in Nat
      /\ keyFile' \in BOOLEAN /\ configured' \in BOOLEAN
    BY <1>0, <1>3 DEF AwsTypeOK, Facts, ProvisionView
<1> QED BY <1>2, <1>4, <1>5, <1>6, <1>7, Stops

StepIs(kind, fact, needs, n) ==
    Step.kind = kind /\ Step.fact = fact /\ Step.needs = needs /\ Step.skip = n

(* What the step of a deploy is and what it finds.                         *)
DeployView ==
    /\ cmd.at \in 1 .. 12
    /\ cmd.at = 1 => StepIs("running", "instance", {}, 0)
    /\ cmd.at = 2 => StepIs("put", "lifecycle", {"roleArn", "subnet", "bucket"}, 0)
    /\ cmd.at = 3 => StepIs("ensure", "ec2Role", {}, 0)
    /\ cmd.at = 4 => StepIs("put", "ec2Policy", {"ec2Role"}, 0)
    /\ cmd.at = 5 => StepIs("ensure", "profile", {}, 1)
    /\ cmd.at = 6 => StepIs("put", "profileRole", {"profile", "ec2Role"}, 0)
    /\ cmd.at = 7 => StepIs("ensure", "group", {}, 1)
    /\ cmd.at = 8 => StepIs("put", "groupRule", {"group"}, 0)
    /\ cmd.at = 9 => StepIs("ensure", "keyPair", {}, 1)
    /\ cmd.at = 10 => StepIs("write", "keyFile", {}, 0)
    /\ cmd.at = 11 =>
          StepIs("launch", "instance", {"image", "profile", "profileRole", "group", "keyPair"}, 0)
    /\ cmd.at = 12 => StepIs("tag", "instance", {}, 0)
    /\ cmd.at > 1 => tagged + stopped <= stops
    /\ cmd.at > 2 => {"lifecycle", "bucket"} \subseteq aws
    /\ cmd.at > 3 => "ec2Role" \in aws
    /\ cmd.at > 4 => "ec2Policy" \in aws
    /\ cmd.at > 5 => "profile" \in aws
    /\ cmd.at > 7 => "group" \in aws
    /\ cmd.at = 10 => "keyPair" \in aws
    /\ cmd.at = 11 => "keyPair" \in aws \/ cmd.faulted
    /\ cmd.at = 12 => {"profileRole", "keyPair"} \subseteq aws /\ untagged > 0

LEMMA DeployStep ==
    ASSUME AwsInv, Running, cmd.name = "deploy"
    PROVE  DeployView
<1>1. cmd.at \in 1 .. 12 /\ Step = DeployProgram[cmd.at]
    BY Programs, DeployCalls DEF AwsInv, AwsTypeOK, Command, Running, Step
<1>2. /\ cmd.at > 1 => tagged + stopped <= stops
      /\ \A m \in {2, 3, 4, 5, 7} : m < cmd.at => DeployProgram[m].fact \in aws
      /\ cmd.at = 10 => "keyPair" \in aws
      /\ cmd.at = 11 => "keyPair" \in aws \/ cmd.faulted
      /\ cmd.at = 12 => {"profileRole", "keyPair"} \subseteq aws /\ untagged > 0
    BY DEF AwsInv, DeployInv
<1>3. /\ cmd.at > 2 => {"lifecycle", "bucket"} \subseteq aws
      /\ cmd.at > 3 => "ec2Role" \in aws
      /\ cmd.at > 4 => "ec2Policy" \in aws
      /\ cmd.at > 5 => "profile" \in aws
      /\ cmd.at > 7 => "group" \in aws
    BY <1>1, <1>2, DeployCalls, CallFields, EnsureFields
    DEF Ensure, Put, AwsInv, DependenceInv
<1> QED
    BY <1>1, <1>2, <1>3, DeployCalls, CallFields, EnsureFields
    DEF DeployView, StepIs, Ensure, Put

(* The effect of a call of a deploy.                                       *)
LEMMA DeployEffect ==
    ASSUME AwsInv, Running, cmd.name = "deploy", Effect
    PROVE  /\ aws' = IF Step.kind \in {"ensure", "put"} THEN aws \cup {Step.fact} ELSE aws
           /\ tagged' = IF cmd.at = 12 THEN tagged + 1 ELSE tagged
           /\ untagged' = IF cmd.at = 11 THEN untagged + 1
                          ELSE IF cmd.at = 12 THEN untagged - 1 ELSE untagged
           /\ UNCHANGED <<stopped, pages, recent>>
           /\ sshFrom' = IF cmd.at = 8 THEN cmd.ip ELSE sshFrom
           /\ moved' = IF cmd.at = 7 /\ "group" \notin aws THEN cmd.ip # address ELSE moved
           /\ keyFile' \in BOOLEAN
           /\ keyFile => keyFile'
           /\ cmd.at = 10 => keyFile'
<1>0. AwsTypeOK /\ DeployView
    BY DeployStep DEF AwsInv
<1>1. /\ aws' = IF Step.kind \in {"ensure", "put"} THEN aws \cup {Step.fact} ELSE aws
      /\ tagged' = IF cmd.at = 12 THEN tagged + 1 ELSE tagged
      /\ untagged' = IF cmd.at = 11 THEN untagged + 1
                     ELSE IF cmd.at = 12 THEN untagged - 1 ELSE untagged
      /\ UNCHANGED <<stopped, pages, recent>>
      /\ sshFrom' = IF cmd.at = 8 THEN cmd.ip ELSE sshFrom
      /\ moved' = IF cmd.at = 7 /\ "group" \notin aws THEN cmd.ip # address ELSE moved
    BY <1>0 DEF Effect, DeployView, StepIs
<1>2. /\ keyFile' = (keyFile \/ Step.kind = "write")
      /\ cmd.at = 10 => Step.kind = "write"
    BY <1>0 DEF Effect, DeployView, StepIs
<1> QED BY <1>1, <1>2

(* The group's rule names the address the group was created for.           *)
LEMMA DeployAddress ==
    ASSUME AwsInv, Running, cmd.name = "deploy", Effect, UNCHANGED address,
           At("deploy", 8)' => cmd.at = 7 /\ "group" \notin aws /\ cmd'.ip = cmd.ip
    PROVE  AddressInv'
<1>0. AwsTypeOK /\ DeployView /\ AddressInv
    BY DeployStep DEF AwsInv
<1>1. CASE cmd.at = 7
    <2>1. /\ aws' = aws \cup {"group"} /\ sshFrom' = sshFrom
          /\ moved' = IF "group" \notin aws THEN cmd.ip # address ELSE moved
        BY <1>0, <1>1, DeployEffect DEF DeployView, StepIs
    <2> QED BY <1>0, <2>1 DEF AddressInv
<1>2. CASE cmd.at = 8
    <2>1. /\ aws' = aws \cup {"groupRule"} /\ sshFrom' = cmd.ip /\ moved' = moved
          /\ "group" \in aws
        BY <1>0, <1>2, DeployEffect DEF DeployView, StepIs
    <2>2. ~moved => cmd.ip = address
        BY <1>0, <1>2 DEF AddressInv, At
    <2> QED BY <1>2, <2>1, <2>2 DEF AddressInv
<1>3. CASE cmd.at \notin {7, 8}
    <2>1. /\ UNCHANGED <<sshFrom, moved>>
          /\ "groupRule" \in aws' <=> "groupRule" \in aws
          /\ "group" \in aws' <=> "group" \in aws
        BY <1>0, <1>3, DeployEffect DEF DeployView, StepIs
    <2> QED BY <1>3, <2>1, AddressKept
<1> QED BY <1>1, <1>2, <1>3

(* A deploy adds an instance only where none was up.                       *)
LEMMA DeployAround ==
    ASSUME AwsInv, Running, cmd.name = "deploy", Effect, UNCHANGED <<address, stops>>
    PROVE  Around'
<1>0. AwsTypeOK /\ DeployView /\ Around
    BY DeployStep, AroundHolds DEF AwsInv
<1>1. /\ tagged' \in Nat /\ stopped' \in Nat /\ stops' \in Nat
      /\ stopped' <= stops' /\ tagged' + stopped' <= 1 + stops'
    BY <1>0, DeployEffect DEF Around, DeployView
<1>2. recent' \subseteq Queues /\ address' \in Addresses
    BY <1>0, DeployEffect DEF Around
<1>3. moved' \in BOOLEAN /\ sshFrom' \in Addresses \cup {NoAddress}
    BY <1>0, DeployEffect DEF Around, AwsTypeOK, Command
<1> QED BY <1>1, <1>2, <1>3 DEF Around

LEMMA DeployGoesOn ==
    ASSUME AwsInv, Running, cmd.name = "deploy", CallWorks
    PROVE  AwsInv'
<1>0. AwsTypeOK /\ DeployView /\ Effect /\ Works
    BY DeployStep DEF AwsInv, CallWorks
<1>1. /\ UNCHANGED <<address, configured, stops, failures>>
      /\ swallowed' = swallowed \ {Step.fact}
    BY DEF CallWorks
<1>2. /\ cmd.at # 1 /\ cmd'.ip = cmd.ip
      /\ cmd'.name = "deploy" /\ cmd'.at = cmd.at + 1
      /\ cmd'.state = (IF cmd.at = 12 THEN "done" ELSE "running")
      /\ cmd' \in Command
    <2>1. cmd.at # 1 /\ Goto(cmd.at + 1) /\ cmd.at + 1 \in Nat \ {0}
        BY <1>0 DEF CallWorks, Continue, DeployView, StepIs
    <2> QED BY <1>0, <2>1, Going, Programs, DeployCalls DEF DeployView
<1>3. AwsTypeOK'
    <2>1. aws' \subseteq Facts /\ swallowed' \subseteq Facts
        <3>1. Step.kind \in {"ensure", "put"} => Step.fact \in Facts
            BY <1>0 DEF Facts, WorkerFacts, DeployView, StepIs
        <3> QED BY <1>0, <1>1, <3>1, DeployEffect DEF AwsTypeOK
    <2>2. /\ untagged' \in Nat /\ pages' \in Nat /\ failures' \in Nat
          /\ keyFile' \in BOOLEAN /\ configured' \in BOOLEAN
        BY <1>0, <1>1, DeployEffect DEF AwsTypeOK, DeployView
    <2>3. Around'
        BY <1>0, <1>1, DeployAround
    <2> QED
        BY <1>0, <1>2, <2>1, <2>2, <2>3, Programs, DeployCalls
        DEF AwsTypeOK, Around, Running, DeployView
<1>4. ProvisionInv' /\ TeardownInv'
    BY <1>2 DEF ProvisionInv, TeardownInv, UnderWay
<1>5. DeployInv'
    <2>1. ASSUME NEW m \in {2, 3, 4, 5, 7}, m < cmd.at + 1
          PROVE  DeployProgram[m].fact \in aws'
        BY <1>0, <1>2, <2>1, DeployEffect, DeployCalls, CallFields, EnsureFields
        DEF DeployView, StepIs, Ensure, Put
    <2>2. /\ cmd'.at = 10 => "keyPair" \in aws'
          /\ cmd'.at = 11 => "keyPair" \in aws'
        BY <1>0, <1>2, DeployEffect DEF DeployView, StepIs
    <2>3. cmd'.at = 12 => {"profileRole", "keyPair"} \subseteq aws' /\ untagged' > 0
        <3>1. ASSUME cmd.at = 11
              PROVE  {"profileRole", "keyPair"} \subseteq aws /\ aws' = aws
            BY <1>0, <3>1, DeployEffect DEF DeployView, StepIs, Works
        <3>2. cmd.at = 11 => untagged' = untagged + 1 /\ untagged \in Nat
            BY <1>0, DeployEffect DEF AwsTypeOK
        <3> QED BY <1>0, <1>2, <3>1, <3>2 DEF DeployView
    <2>4. cmd'.state = "running" => tagged' + stopped' <= stops'
        BY <1>0, <1>1, <1>2, DeployEffect DEF DeployView
    <2> QED BY <1>2, <2>1, <2>2, <2>3, <2>4 DEF DeployInv, Running
<1>6. DependenceInv'
    BY <1>0, DeployEffect DEF AwsInv, DependenceInv, DeployView, StepIs, Works
<1>7. HalfDoneInv'
    <2>1. "profile" \in aws' /\ "profileRole" \notin aws' => (failures > 0 \/ At("deploy",
        6))'
        BY <1>0, <1>1, <1>2, DeployEffect
        DEF AwsInv, HalfDoneInv, At, Running, DeployView, StepIs
    <2>2. "group" \in aws' /\ "groupRule" \notin aws' => (failures > 0 \/ At("deploy", 8))'
        BY <1>0, <1>1, <1>2, DeployEffect
        DEF AwsInv, HalfDoneInv, At, Running, DeployView, StepIs
    <2>3. "keyPair" \in aws' /\ ~keyFile' => (failures > 0 \/ At("deploy", 10))'
        BY <1>0, <1>1, <1>2, DeployEffect
        DEF AwsInv, HalfDoneInv, At, Running, DeployView, StepIs
    <2> QED BY <2>1, <2>2, <2>3 DEF HalfDoneInv
<1>8. WorkerInv'
    <2>1. stopped' <= stops' /\ tagged' + stopped' <= 1 + stops'
        BY <1>0, <1>1, DeployAround DEF Around
    <2>2. untagged' <= failures' + (IF At("deploy", 12)' THEN 1 ELSE 0)
        BY <1>0, <1>1, <1>2, DeployEffect
        DEF AwsInv, AwsTypeOK, WorkerInv, At, Running, DeployView
    <2> QED BY <2>1, <2>2 DEF WorkerInv
<1>9. ScheduleHasItsTarget'
    BY <1>0, <1>1, DeployEffect DEF AwsInv, ScheduleHasItsTarget, DeployView, StepIs
<1>10. AddressInv'
    <2>1. At("deploy", 8)' => cmd.at = 7 /\ "group" \notin aws /\ cmd'.ip = cmd.ip
        BY <1>0, <1>2 DEF At, CallWorks, DeployView, StepIs
    <2> QED BY <1>0, <1>1, <2>1, DeployAddress
<1> QED BY <1>10, <1>3, <1>4, <1>5, <1>6, <1>7, <1>8, <1>9 DEF AwsInv

(* A resource that is found is not created.                                *)
LEMMA DeployFinds ==
    ASSUME AwsInv, Running, cmd.name = "deploy", Found
    PROVE  AwsInv'
<1>0. AwsTypeOK /\ DeployView
    BY DeployStep DEF AwsInv
<1>1. UNCHANGED <<aws, tagged, stopped, untagged, pages, recent, keyFile, sshFrom, moved,
                  address, configured, swallowed, stops, failures>>
    BY DEF Found, NoEffect, account
<1>2. /\ cmd.at \in {3, 5, 7, 9} /\ Step.fact \in aws
      /\ Step.skip = (IF cmd.at = 3 THEN 0 ELSE 1)
    BY <1>0 DEF Found, Is, DeployView, StepIs
<1>3. /\ cmd'.name = "deploy" /\ cmd'.at = cmd.at + 1 + Step.skip
      /\ cmd'.state = "running" /\ cmd' \in Command
    <2>1. Goto(cmd.at + 1 + Step.skip) /\ cmd.at + 1 + Step.skip \in Nat \ {0}
        BY <1>2 DEF Found
    <2> QED BY <1>0, <1>2, <2>1, Going, Programs, DeployCalls
<1>4. AwsTypeOK'
    BY <1>0, <1>1, <1>2, <1>3, Programs, DeployCalls DEF AwsTypeOK, Running
<1>5. ProvisionInv' /\ TeardownInv'
    BY <1>3 DEF ProvisionInv, TeardownInv, UnderWay
<1>6. DeployInv'
    <2>1. ASSUME NEW m \in {2, 3, 4, 5, 7}, m < cmd.at + 1 + Step.skip
          PROVE  DeployProgram[m].fact \in aws
        BY <1>0, <1>2, <2>1, DeployCalls, CallFields, EnsureFields
        DEF DeployView, StepIs, Ensure, Put
    <2>2. cmd'.at # 10 /\ cmd'.at # 12 /\ (cmd'.at = 11 => "keyPair" \in aws)
        BY <1>0, <1>2, <1>3 DEF DeployView, StepIs
    <2>3. tagged + stopped <= stops
        BY <1>0, <1>2 DEF DeployView
    <2> QED BY <1>1, <1>3, <2>1, <2>2, <2>3 DEF DeployInv, Running
<1>7. DependenceInv' /\ ScheduleHasItsTarget' /\ AddressInv'
    BY <1>1, <1>2, <1>3, AddressKept DEF AwsInv, DependenceInv, ScheduleHasItsTarget, At
<1>8. HalfDoneInv' /\ WorkerInv'
    BY <1>1, <1>2, <1>3 DEF AwsInv, AwsTypeOK, HalfDoneInv, WorkerInv, At
<1> QED BY <1>4, <1>5, <1>6, <1>7, <1>8 DEF AwsInv


(* A deploy that sees an instance stops there; another goes on, and none   *)
(* is tagged until it tags its own.                                        *)
LEMMA DeployChecks ==
    ASSUME AwsInv, Running, cmd.name = "deploy", CheckRunning
    PROVE  AwsInv'
<1>0. AwsTypeOK /\ DeployView
    BY DeployStep DEF AwsInv
<1>1. UNCHANGED <<aws, tagged, stopped, untagged, pages, recent, keyFile, sshFrom, moved,
                  address, configured, swallowed, stops, failures>>
    BY DEF CheckRunning, NoEffect, account
<1>2. cmd.at = 1
    BY <1>0 DEF CheckRunning, Is, DeployView, StepIs
<1>3. /\ cmd'.name = "deploy" /\ cmd' \in Command
      /\ \/ cmd'.state = "done" /\ cmd'.at = 1
         \/ cmd'.state = "running" /\ cmd'.at = 2 /\ tagged = 0
    <2>1. CASE AlreadyRunning
        BY <1>0, <1>2, <2>1 DEF CheckRunning, AwsTypeOK, Command
    <2>2. CASE ~AlreadyRunning
        <3>1. tagged = 0 /\ cmd' = [cmd EXCEPT !.at = 2, !.ip = address]
            BY <1>0, <2>2 DEF CheckRunning, AlreadyRunning, AwsTypeOK
        <3>2. 2 \in Nat \ {0} /\ address \in Addresses \cup {NoAddress} /\ cmd \in Command
            BY <1>0 DEF AwsTypeOK
        <3>3. cmd' \in Command /\ cmd'.name = cmd.name /\ cmd'.state = cmd.state /\ cmd'.at = 2
            BY <3>1, <3>2 DEF Command
        <3> QED BY <3>1, <3>3 DEF Running
    <2> QED BY <2>1, <2>2
<1>4. AwsTypeOK'
    BY <1>0, <1>1, <1>3, Programs, DeployCalls DEF AwsTypeOK, Running
<1>5. ProvisionInv' /\ TeardownInv' /\ DeployInv'
    <2>1. tagged = 0 => tagged + stopped <= stops
        BY <1>0 DEF AwsInv, AwsTypeOK, WorkerInv
    <2> QED BY <1>1, <1>3, <2>1 DEF ProvisionInv, TeardownInv, UnderWay, DeployInv, Running
<1>6. DependenceInv' /\ ScheduleHasItsTarget' /\ AddressInv'
    BY <1>1, <1>3, AddressKept DEF AwsInv, DependenceInv, ScheduleHasItsTarget, At
<1>7. HalfDoneInv' /\ WorkerInv'
    BY <1>1, <1>2, <1>3 DEF AwsInv, AwsTypeOK, HalfDoneInv, WorkerInv, At
<1> QED BY <1>4, <1>5, <1>6, <1>7 DEF AwsInv

(* Only the expiry rule and the launch can be refused, for want of what is *)
(* looked up, of the bucket, of the role or of the key.                    *)
LEMMA DeployRefused ==
    ASSUME AwsInv, Running, cmd.name = "deploy", Refused
    PROVE  AwsInv' /\ (cmd'.faulted \/ Excuse)
<1>0. AwsTypeOK /\ DeployView
    BY DeployStep DEF AwsInv
<1>a. recent \subseteq {"queue", "dlq"}
    BY <1>0 DEF AwsTypeOK, Queues
<1>1. /\ cmd.at \in {2, 11} /\ ~Caught
      /\ cmd.at = 2 => ~({"roleArn", "subnet", "bucket"} \subseteq aws)
      /\ cmd.at = 11 => {"image", "profileRole", "keyPair"} \ aws # {}
    BY <1>0, <1>a DEF Refused, Works, Caught, DeployView, StepIs
<1>2. cmd'.faulted = cmd.faulted
    BY <1>0, <1>1, Failing DEF Refused, AwsTypeOK, Command
<1>3. cmd.at = 11 /\ "profileRole" \notin aws => failures > 0
    BY <1>0 DEF AwsInv, HalfDoneInv, At, DeployView
<1>4. cmd.at = 11 /\ "keyPair" \notin aws => cmd.faulted
    BY <1>0 DEF DeployView
<1>5. cmd'.faulted \/ Excuse
    BY <1>0, <1>1, <1>2, <1>3, <1>4 DEF Excuse, DeployView, StepIs
<1> QED BY <1>1, <1>5, GivesUp DEF At

(* A fault ends a deploy unless it befalls the key pair.                   *)
LEMMA DeployFails ==
    ASSUME AwsInv, Running, cmd.name = "deploy", CallFails
    PROVE  AwsInv'
<1>0. AwsTypeOK /\ DeployView
    BY DeployStep DEF AwsInv
<1>1. /\ NoEffect \/ (Effect /\ Works)
      /\ Failure /\ UNCHANGED <<address, configured, swallowed, stops>>
    BY <1>0 DEF CallFails, DeployView, StepIs
<1>2. /\ aws' \in {aws, aws \cup {Step.fact}}
      /\ Step.kind \notin {"ensure", "put"} => aws' = aws
      /\ aws' = aws \/ Works
      /\ pages' = pages /\ keyFile' \in BOOLEAN
      /\ cmd.at < 11 => UNCHANGED <<tagged, stopped, untagged>>
    BY <1>0, <1>1, DeployEffect DEF NoEffect, account, AwsTypeOK
<1>3. failures' = failures + 1 /\ untagged' \in 0 .. failures'
    <2>1. \/ untagged' = untagged
          \/ cmd.at = 11 /\ untagged' = untagged + 1
          \/ cmd.at = 12 /\ untagged' = untagged - 1
        BY <1>0, <1>1, DeployEffect DEF NoEffect, account
    <2>2. untagged <= failures + (IF cmd.at = 12 THEN 1 ELSE 0)
        BY <1>0 DEF AwsInv, WorkerInv, At
    <2>3. cmd.at = 12 => untagged > 0
        BY <1>0 DEF DeployView
    <2> QED BY <1>0, <1>1, <2>1, <2>2, <2>3, FaultCounts DEF AwsTypeOK, DeployView
<1>8. Around'
    BY <1>1, DeployAround, AroundKept DEF NoEffect, account
<1>9. ~At("deploy", 8)' => AddressInv'
    BY <1>1, DeployAddress, AddressKept DEF NoEffect, account
<1>4. DependenceInv' /\ ScheduleHasItsTarget'
    BY <1>0, <1>1, <1>2
    DEF AwsInv, DependenceInv, ScheduleHasItsTarget, DeployView, StepIs, Works
<1>5. /\ aws' \subseteq Facts /\ swallowed' \subseteq Facts /\ pages' \in Nat
      /\ configured' \in BOOLEAN
    BY <1>0, <1>1, <1>2 DEF AwsTypeOK, Facts, WorkerFacts, DeployView, StepIs
<1>6. CASE ~Caught
    <2>1. /\ cmd' \in Command /\ cmd'.state = "failed" /\ cmd'.faulted = TRUE
        BY <1>0, <1>6, Failing DEF CallFails
    <2>2. AddressInv'
        BY <1>9, <2>1 DEF At, Running
    <2> QED BY <1>2, <1>3, <1>4, <1>5, <1>8, <2>1, <2>2, Stops
<1>7. CASE Caught
    <2>1. cmd.at \in {9, 10} /\ cmd.at + 1 + Step.skip = 11
        BY <1>0, <1>7 DEF Caught, DeployView, StepIs
    <2>2. /\ cmd' \in Command /\ cmd'.name = "deploy" /\ cmd'.at = 11
          /\ cmd'.state = "running" /\ cmd'.faulted = TRUE
        <3>1. AfterError(TRUE)
            BY Zenon DEF CallFails
        <3>2. Step.skip \in Nat
            BY <1>0, <2>1 DEF DeployView, StepIs
        <3> QED BY <1>0, <1>7, <2>1, <3>1, <3>2, Shrugs DEF Running
    <2>3. /\ failures' \in Nat /\ failures' > 0 /\ untagged' \in Nat
          /\ tagged' + stopped' <= stops'
        BY <1>0, <1>1, <1>2, <1>3, <2>1 DEF AwsTypeOK, DeployView
    <2>4. AwsTypeOK'
        BY <1>2, <1>5, <1>8, <2>2, <2>3, Programs, DeployCalls DEF AwsTypeOK, Around, Running
    <2>5. ProvisionInv' /\ TeardownInv' /\ AddressInv'
        BY <1>9, <2>2 DEF ProvisionInv, TeardownInv, UnderWay, At
    <2>6. DeployInv'
        <3>1. ASSUME NEW m \in {2, 3, 4, 5, 7} PROVE DeployProgram[m].fact \in aws'
            BY <1>0, <1>2, <2>1, DeployCalls, CallFields, EnsureFields
            DEF DeployView, Ensure, Put
        <3> QED BY <2>2, <2>3, <3>1 DEF DeployInv
    <2>7. HalfDoneInv'
        BY <2>3 DEF HalfDoneInv
    <2>8. WorkerInv'
        <3>1. ~At("deploy", 12)'
            BY <2>2 DEF At
        <3>2. untagged' <= failures' + 0
            BY <1>3, <2>3
        <3> QED BY <1>8, <3>1, <3>2 DEF WorkerInv, Around
    <2> QED BY <2>8, <1>4, <2>4, <2>5, <2>6, <2>7 DEF AwsInv
<1> QED BY <1>6, <1>7

(* What the step of a teardown is and what it finds.                       *)
TeardownView ==
    /\ cmd.at \in 1 .. 8
    /\ cmd.at = 1 => StepIs("terminate", "instance", {}, 0)
    /\ cmd.at = 2 => StepIs("drop", "schedule", {}, 0)
    /\ cmd.at = 3 => StepIs("drop", "queue", {}, 0)
    /\ cmd.at = 4 => StepIs("drop", "dlq", {}, 0)
    /\ cmd.at = 5 => StepIs("drop", "schedulerPolicy", {}, 0)
    /\ cmd.at = 6 => StepIs("drop", "schedulerRole", {}, 0)
    /\ cmd.at = 7 => StepIs("empty", "bucket", {}, 0)
    /\ cmd.at = 8 => StepIs("drop", "bucket", {}, 0)
    /\ Step = TeardownProgram[cmd.at]

LEMMA TeardownStep ==
    ASSUME AwsInv, Running, cmd.name = "teardown"
    PROVE  TeardownView
<1>1. cmd.at \in 1 .. 8 /\ Step = TeardownProgram[cmd.at]
    BY Programs, TeardownCalls DEF AwsInv, AwsTypeOK, Command, Running, Step
<1> QED BY <1>1, TeardownCalls, CallFields DEF TeardownView, StepIs, Drop

(* The facts that go with what a teardown deletes.                         *)
LEMMA DropsWith ==
    /\ DroppedWith("bucket") = BucketFacts
    /\ DroppedWith("queue") = {"queue", "redrive"}
    /\ \A fact \in {"schedule", "dlq", "schedulerPolicy", "schedulerRole"} :
          DroppedWith(fact) = {fact}
BY DEF DroppedWith

(* The facts only a deploy establishes.                                    *)
DeployedFacts == WorkerFacts \cup {"group", "groupRule", "keyPair"}

(* The effect of a call of a teardown.                                     *)
LEMMA TeardownEffect ==
    ASSUME AwsInv, Running, cmd.name = "teardown", Effect
    PROVE  /\ aws' = IF cmd.at \in {1, 7} THEN aws ELSE aws \ DroppedWith(Step.fact)
           /\ tagged' = IF cmd.at = 1 THEN 0 ELSE tagged
           /\ stopped' = IF cmd.at = 1 THEN 0 ELSE stopped
           /\ pages' \in Nat /\ recent' \subseteq Queues
           /\ UNCHANGED <<untagged, keyFile, sshFrom, moved>>
           /\ DependenceInv'
           /\ aws' \cap DeployedFacts = aws \cap DeployedFacts
<1>0. AwsTypeOK /\ TeardownView
    BY TeardownStep DEF AwsInv
<1>1. /\ aws' = IF cmd.at \in {1, 7} THEN aws ELSE aws \ DroppedWith(Step.fact)
      /\ tagged' = IF cmd.at = 1 THEN 0 ELSE tagged
      /\ stopped' = IF cmd.at = 1 THEN 0 ELSE stopped
      /\ UNCHANGED <<untagged, sshFrom, moved>>
    BY <1>0 DEF Effect, TeardownView, StepIs
<1>2. pages' \in Nat /\ recent' \subseteq Queues
    BY <1>0 DEF Effect, AwsTypeOK
<1>3. keyFile' = keyFile
    <2>1. keyFile' = (keyFile \/ FALSE)
        <3>1. Step.kind # "write" BY <1>0 DEF TeardownView, StepIs
        <3> QED BY <3>1 DEF Effect
    <2> QED BY <1>0, <2>1, Zenon DEF AwsTypeOK
<1>4. DependenceInv' /\ aws' \cap DeployedFacts = aws \cap DeployedFacts
    BY <1>0, <1>1, DropsWith
    DEF AwsInv, DependenceInv, DeployedFacts, WorkerFacts, BucketFacts,
        TeardownView, StepIs
<1> QED BY <1>1, <1>2, <1>3, <1>4

LEMMA Fewer ==
    \A a, b, c, d, n \in Nat : c <= a /\ d <= b /\ b <= n /\ a + b <= 1 + n =>
       d <= n /\ c + d <= 1 + n
OBVIOUS

(* A teardown that goes on disturbs no deploy and no worker.               *)
LEMMA TeardownKeeps ==
    ASSUME AwsInv, cmd.name = "teardown",
           cmd'.name = "teardown", cmd' \in Command, cmd'.at \in 1 .. 9,
           cmd'.state = (IF cmd'.at = 9 THEN "done" ELSE "running"),
           aws' \subseteq aws, aws' \cap DeployedFacts = aws \cap DeployedFacts,
           tagged' \in {0, tagged}, stopped' \in {0, stopped}, pages' \in Nat,
           recent' \subseteq Queues, swallowed' \subseteq Facts,
           UNCHANGED <<untagged, keyFile, sshFrom, moved, address, configured, stops>>,
           failures' \in {failures, failures + 1},
           DependenceInv', TeardownInv', ScheduleHasItsTarget'
    PROVE  AwsInv'
<1>1. AwsTypeOK'
    BY Programs, TeardownCalls DEF AwsInv, AwsTypeOK, Running
<1>2. ProvisionInv' /\ DeployInv'
    BY DEF ProvisionInv, DeployInv, UnderWay
<1>3. HalfDoneInv'
    <2>1. failures \in Nat /\ (failures > 0 => failures' > 0)
        BY DEF AwsInv, AwsTypeOK
    <2>2. \A fact \in DeployedFacts : fact \in aws' <=> fact \in aws
        OBVIOUS
    <2> QED BY <2>1, <2>2 DEF AwsInv, HalfDoneInv, At, DeployedFacts, WorkerFacts
<1>4. WorkerInv'
    <2>1. ~At("deploy", 12) /\ ~At("deploy", 12)'
        BY DEF At
    <2>2. /\ tagged \in Nat /\ stopped \in Nat /\ stops \in Nat
          /\ untagged \in Nat /\ failures \in Nat
        BY DEF AwsInv, AwsTypeOK
    <2>3. stopped <= stops /\ tagged + stopped <= 1 + stops /\ untagged <= failures
        BY <2>1, <2>2 DEF AwsInv, WorkerInv
    <2>4. /\ stopped' <= stops' /\ tagged' + stopped' <= 1 + stops'
          /\ untagged' <= failures' /\ failures' \in Nat
        <3>1. tagged' <= tagged /\ stopped' <= stopped /\ tagged' \in Nat /\ stopped' \in Nat
            BY <2>2
        <3>2. stops' = stops /\ untagged' = untagged /\ failures <= failures' /\ failures' \in Nat
            BY <2>2
        <3>3. stopped' <= stops /\ tagged' + stopped' <= 1 + stops
            BY <2>2, <2>3, <3>1, Fewer, Zenon
        <3>4. untagged <= failures'
            BY <2>2, <2>3, <3>2
        <3> QED BY <3>2, <3>3, <3>4
    <2> QED BY <2>1, <2>4 DEF WorkerInv
<1>5. AddressInv'
    <2>1. /\ "groupRule" \in aws' <=> "groupRule" \in aws
          /\ "group" \in aws' <=> "group" \in aws
        BY DEF DeployedFacts
    <2> QED BY <2>1, AddressKept DEF At
<1> QED BY <1>1, <1>2, <1>3, <1>4, <1>5 DEF AwsInv

(* What has been deleted before the call of a teardown.                    *)
LEMMA TeardownSoFar ==
    ASSUME AwsInv, Running, cmd.name = "teardown"
    PROVE  /\ cmd.at > 2 => "schedule" \notin aws \ swallowed
           /\ ~cmd.faulted /\ cmd.at > 1 => tagged = 0 /\ stopped = 0
           /\ ~cmd.faulted => \A m \in 2 .. 6 :
                 m < cmd.at => DroppedWith(TeardownProgram[m].fact) \cap aws = {}
           /\ ~cmd.faulted /\ cmd.at = 8 => configured
BY DEF AwsInv, TeardownInv, UnderWay, Running

LEMMA TeardownGoesOn ==
    ASSUME AwsInv, Running, cmd.name = "teardown", CallWorks
    PROVE  AwsInv'
<1>0. AwsTypeOK /\ TeardownView /\ Effect /\ Works
    BY TeardownStep DEF AwsInv, CallWorks
<1>1. /\ UNCHANGED <<address, configured, stops, failures>>
      /\ swallowed' = swallowed \ {Step.fact}
      /\ cmd.at = 7 => configured
    BY <1>0 DEF CallWorks, IsMade, TeardownView, StepIs
<1>2. /\ cmd'.name = "teardown" /\ cmd'.faulted = cmd.faulted /\ cmd' \in Command
      /\ \/ cmd'.at = cmd.at + 1
         \/ cmd'.at = 7 /\ cmd.at = 7
      /\ cmd'.state = (IF cmd'.at = 9 THEN "done" ELSE "running")
    <2>1. CASE UNCHANGED cmd /\ cmd.at = 7
        BY <1>0, <2>1 DEF AwsTypeOK, Running
    <2>2. CASE Goto(cmd.at + 1)
        BY <1>0, <2>2, Going, Programs, TeardownCalls DEF TeardownView
    <2> QED BY <1>0, <2>1, <2>2 DEF CallWorks, Continue, TeardownView, StepIs
<1>3. TeardownInv'
    <2>1. cmd'.at > 2 => "schedule" \notin aws' \ swallowed'
        BY <1>0, <1>1, <1>2, TeardownSoFar, TeardownEffect, DropsWith DEF TeardownView, StepIs
    <2>2. ~cmd.faulted /\ cmd'.at > 1 => tagged' = 0 /\ stopped' = 0
        BY <1>0, <1>2, TeardownSoFar, TeardownEffect DEF TeardownView
    <2>3. ASSUME ~cmd.faulted, NEW m \in 2 .. 6, m < cmd'.at
          PROVE  DroppedWith(TeardownProgram[m].fact) \cap aws' = {}
        <3>1. CASE m = cmd.at
            BY <1>0, <3>1, TeardownEffect DEF TeardownView
        <3>2. CASE m < cmd.at
            BY <1>0, <2>3, <3>2, TeardownSoFar, TeardownEffect
        <3> QED BY <1>0, <1>2, <2>3, <3>1, <3>2 DEF TeardownView
    <2>4. cmd'.at = 8 => configured'
        BY <1>0, <1>1, <1>2 DEF TeardownView
    <2>5. cmd'.state = "done" => BucketFacts \cap aws' = {}
        BY <1>0, <1>2, TeardownEffect, DropsWith DEF TeardownView, StepIs
    <2> QED BY <1>2, <2>1, <2>2, <2>3, <2>4, <2>5 DEF TeardownInv
<1>4. ScheduleHasItsTarget'
    BY <1>0, <1>1, TeardownSoFar, TeardownEffect, DropsWith
    DEF AwsInv, ScheduleHasItsTarget, TeardownView, StepIs
<1>5. aws' \subseteq aws /\ swallowed' \subseteq Facts /\ cmd'.at \in 1 .. 9
    BY <1>0, <1>1, <1>2, TeardownEffect DEF AwsTypeOK, TeardownView
<1> QED BY <1>0, <1>1, <1>2, <1>3, <1>4, <1>5, TeardownEffect, TeardownKeeps

(* Without S3_BUCKET a teardown ends before the bucket.                    *)
LEMMA TeardownSkips ==
    ASSUME AwsInv, Running, cmd.name = "teardown", NoBucketSet
    PROVE  AwsInv'
<1>0. AwsTypeOK /\ TeardownView
    BY TeardownStep DEF AwsInv
<1>1. /\ UNCHANGED <<aws, tagged, stopped, untagged, pages, recent, keyFile, sshFrom, moved,
                     address, configured, swallowed, stops, failures>>
      /\ cmd.at = 7 /\ ~configured
    BY <1>0 DEF NoBucketSet, NoEffect, account, Is, IsMade, TeardownView, StepIs
<1>2. /\ cmd'.name = "teardown" /\ cmd'.faulted = cmd.faulted /\ cmd' \in Command
      /\ cmd'.at = 9 /\ cmd'.state = "done"
    <2>1. Goto(9) BY <1>1 DEF NoBucketSet
    <2> QED BY <1>0, <2>1, Going, Programs, TeardownCalls
<1>3. TeardownInv'
    BY <1>1, <1>2, TeardownSoFar DEF TeardownInv
<1>4. ScheduleHasItsTarget' /\ DependenceInv'
    BY <1>1 DEF AwsInv, ScheduleHasItsTarget, DependenceInv
<1>5. swallowed' \subseteq Facts /\ pages' \in Nat /\ recent' \subseteq Queues
    BY <1>0, <1>1 DEF AwsTypeOK
<1> QED BY <1>1, <1>2, <1>3, <1>4, <1>5, TeardownKeeps

(* A deletion is refused for want of what it deletes, save that of the     *)
(* bucket.                                                                 *)
LEMMA TeardownRefused ==
    ASSUME AwsInv, Running, cmd.name = "teardown", Refused
    PROVE  AwsInv' /\ (cmd'.state # "failed" \/ Excuse)
<1>0. AwsTypeOK /\ TeardownView
    BY TeardownStep DEF AwsInv
<1>1. /\ UNCHANGED <<aws, tagged, stopped, untagged, pages, recent, keyFile, sshFrom, moved,
                     address, configured, swallowed, stops, failures>>
      /\ AfterError(FALSE) /\ ~Works /\ (cmd.at = 7 => configured)
    BY <1>0 DEF Refused, NoEffect, account, IsMade, TeardownView, StepIs
<1>2. CASE Caught
    <2>1. /\ cmd.at \in 2 .. 6 /\ Step.skip \in Nat /\ Step.skip = 0
          /\ Step.fact \notin aws \/ cmd.faulted
          /\ Step.fact = "schedule" => "schedule" \notin aws
        <3>1. cmd.at \in 2 .. 6 /\ Step.skip = 0 /\ ~Deletable(Step.fact)
            BY <1>0, <1>1, <1>2 DEF Works, Caught, TeardownView, StepIs
        <3>2. cmd.at = 6 /\ ~cmd.faulted => "schedulerPolicy" \notin aws
            BY TeardownSoFar, TeardownCalls, CallFields, DropsWith DEF Drop
        <3> QED BY <1>0, <3>1, <3>2 DEF Deletable, TeardownView, StepIs
    <2>2. /\ cmd'.name = "teardown" /\ cmd'.faulted = cmd.faulted /\ cmd' \in Command
          /\ cmd'.at = cmd.at + 1 /\ cmd'.state = "running"
        <3>1. cmd.faulted \in BOOLEAN /\ cmd'.faulted = (cmd.faulted \/ FALSE)
            BY <1>0, <1>1, <1>2, <2>1, Shrugs DEF AwsTypeOK, Command
        <3>2. cmd'.faulted = cmd.faulted BY <3>1, Zenon
        <3>3. /\ cmd'.name = cmd.name /\ cmd' \in Command /\ cmd'.state = cmd.state
              /\ cmd'.at = cmd.at + 1 + Step.skip
            BY <1>0, <1>1, <1>2, <2>1, Shrugs
        <3> QED BY <2>1, <3>2, <3>3 DEF Running
    <2>3. ASSUME ~cmd.faulted, NEW m \in 2 .. 6, m < cmd'.at
          PROVE  DroppedWith(TeardownProgram[m].fact) \cap aws = {}
        <3>1. CASE m = cmd.at
            BY <1>0, <2>1, <2>3, <3>1, DropsWith
            DEF TeardownView, StepIs, AwsInv, DependenceInv
        <3>2. CASE m < cmd.at
            BY <2>3, <3>2, TeardownSoFar
        <3> QED BY <1>0, <2>2, <2>3, <3>1, <3>2 DEF TeardownView
    <2>4. cmd'.at > 2 => "schedule" \notin aws \ swallowed
        BY <1>0, <2>1, <2>2, TeardownSoFar DEF TeardownView, StepIs
    <2>5. TeardownInv'
        BY <1>1, <2>1, <2>2, <2>3, <2>4, TeardownSoFar DEF TeardownInv
    <2>6. ScheduleHasItsTarget' /\ DependenceInv'
        BY <1>1 DEF AwsInv, ScheduleHasItsTarget, DependenceInv
    <2>7. swallowed' \subseteq Facts /\ pages' \in Nat /\ recent' \subseteq Queues
        BY <1>0, <1>1 DEF AwsTypeOK
    <2>8. AwsInv'
        BY <1>1, <2>1, <2>2, <2>5, <2>6, <2>7, TeardownKeeps
    <2> QED BY <2>2, <2>8
<1>3. CASE ~Caught
    <2>1. cmd.at \in {7, 8}
        BY <1>0, <1>3 DEF Caught, TeardownView, StepIs
    <2>2. Step.fact = "bucket" /\ ("bucket" \notin aws \/ pages > 0)
        BY <1>0, <1>1, <2>1 DEF Works, Deletable, AwsTypeOK, TeardownView, StepIs
    <2>3. Excuse
        BY <2>2 DEF Excuse
    <2> QED BY <1>3, <2>3, GivesUp DEF At
<1> QED BY <1>2, <1>3

(* A fault ends a teardown at the bucket only; before it, the deletion is  *)
(* reported as done.                                                       *)
LEMMA TeardownFails ==
    ASSUME AwsInv, Running, cmd.name = "teardown", CallFails
    PROVE  AwsInv'
<1>0. AwsTypeOK /\ TeardownView
    BY TeardownStep DEF AwsInv
<1>1. /\ NoEffect \/ Effect
      /\ Failure /\ UNCHANGED <<address, configured, stops>>
      /\ swallowed' = IF Step.kind = "drop" /\ Caught THEN swallowed \cup {Step.fact}
                      ELSE swallowed
    BY DEF CallFails
<1>2. AfterError(TRUE)
    BY Zenon DEF CallFails
<1>3. /\ aws' \in {aws, IF cmd.at \in {1, 7} THEN aws ELSE aws \ DroppedWith(Step.fact)}
      /\ tagged' \in {0, tagged} /\ stopped' \in {0, stopped}
      /\ pages' \in Nat /\ recent' \subseteq Queues
      /\ UNCHANGED <<untagged, keyFile, sshFrom, moved>>
      /\ aws' \cap DeployedFacts = aws \cap DeployedFacts
    BY <1>0, <1>1, TeardownEffect DEF NoEffect, account, AwsTypeOK
<1>4. DependenceInv'
    BY <1>1, TeardownEffect DEF NoEffect, account, AwsInv, DependenceInv
<1>5. failures' = failures + 1 /\ Around' /\ untagged' \in 0 .. failures'
    BY <1>1, <1>3, FaultCounts, AroundHolds DEF Around
<1>6. aws' \subseteq aws /\ aws' \subseteq Facts /\ swallowed' \subseteq Facts
    <2>1. aws \subseteq Facts /\ swallowed \subseteq Facts
        BY <1>0 DEF AwsTypeOK
    <2>2. Step.kind = "drop" => Step.fact \in Facts
        BY <1>0 DEF Facts, ProvisionFacts, TeardownView, StepIs
    <2> QED BY <1>1, <1>3, <2>1, <2>2
<1>7. ScheduleHasItsTarget'
    BY <1>0, <1>1, <1>3, TeardownSoFar, DropsWith
    DEF AwsInv, ScheduleHasItsTarget, Caught, BucketFacts, TeardownView, StepIs
<1>8. CASE ~Caught
    <2>1. /\ cmd' \in Command /\ cmd'.state = "failed" /\ cmd'.faulted = TRUE
        BY <1>0, <1>2, <1>8, Failing
    <2>2. keyFile' \in BOOLEAN /\ configured' \in BOOLEAN
        BY <1>0, <1>1, <1>3 DEF AwsTypeOK
    <2>3. AddressInv'
        <3>1. /\ "groupRule" \in aws' <=> "groupRule" \in aws
              /\ "group" \in aws' <=> "group" \in aws
            BY <1>3 DEF DeployedFacts
        <3> QED BY <1>1, <1>3, <2>1, <3>1, AddressKept DEF At, Running
    <2> QED BY <1>3, <1>4, <1>5, <1>6, <1>7, <2>1, <2>2, <2>3, Stops
<1>9. CASE Caught
    <2>1. cmd.at \in 1 .. 6 /\ Step.skip \in Nat /\ Step.skip = 0
        BY <1>0, <1>9 DEF Caught, TeardownView, StepIs
    <2>2. /\ cmd'.name = "teardown" /\ cmd'.faulted = TRUE /\ cmd' \in Command
          /\ cmd'.at = cmd.at + 1 /\ cmd'.state = "running"
        <3>1. /\ cmd'.name = cmd.name /\ cmd' \in Command /\ cmd'.state = cmd.state
              /\ cmd'.at = cmd.at + 1 + Step.skip /\ cmd'.faulted = TRUE
            BY <1>0, <1>2, <1>9, <2>1, Shrugs
        <3> QED BY <2>1, <3>1 DEF Running
    <2>3. cmd'.at > 2 => "schedule" \notin aws' \ swallowed'
        BY <1>0, <1>1, <1>6, <1>9, <2>1, <2>2, TeardownSoFar DEF TeardownView, StepIs
    <2>4. TeardownInv'
        BY <2>2, <2>3 DEF TeardownInv
    <2> QED BY <1>1, <1>3, <1>4, <1>5, <1>6, <1>7, <2>1, <2>2, <2>4, TeardownKeeps
<1> QED BY <1>8, <1>9

(* A command starts afresh in whatever account the ones before it left.    *)
LEMMA StartKeeps ==
    ASSUME AwsInv, NEW name \in DOMAIN Program, Start(name)
    PROVE  AwsInv'
<1>1. /\ UNCHANGED <<aws, tagged, stopped, untagged, pages, recent, keyFile, sshFrom, moved,
                     address, configured, swallowed, stops, failures>>
      /\ ~Running
    BY DEF Start, account
<1>2. /\ cmd' \in Command /\ cmd'.at = 1 /\ cmd'.state = "running" /\ cmd'.faulted = FALSE
    <2>1. cmd \in Command
        BY DEF AwsInv, AwsTypeOK
    <2>2. cmd' = [cmd EXCEPT !.name = name, !.at = 1, !.state = "running", !.faulted = FALSE,
                             !.ip = NoAddress]
        BY DEF Start
    <2>3. cmd' = [name |-> name, at |-> 1, state |-> "running", faulted |-> FALSE,
                  cron |-> cmd.cron, ip |-> NoAddress]
        BY <2>1, <2>2 DEF Command
    <2> QED BY <2>1, <2>3 DEF Command
<1>3. AwsTypeOK'
    <2>1. cmd'.name \in DOMAIN Program
        BY <1>2 DEF Command
    <2>2. Len(Program[cmd'.name]) \in Nat \ {0}
        BY <2>1, ProgramLengths
    <2> QED BY <1>1, <1>2, <2>2 DEF AwsInv, AwsTypeOK, Running
<1>4. ProvisionInv' /\ DeployInv' /\ TeardownInv'
    BY <1>2 DEF ProvisionInv, DeployInv, TeardownInv, UnderWay
<1>5. DependenceInv' /\ ScheduleHasItsTarget' /\ AddressInv'
    BY <1>1, <1>2, AddressKept DEF AwsInv, DependenceInv, ScheduleHasItsTarget, At
<1>6. HalfDoneInv' /\ WorkerInv'
    BY <1>1, <1>2 DEF AwsInv, HalfDoneInv, WorkerInv, At
<1> QED BY <1>3, <1>4, <1>5, <1>6 DEF AwsInv

LEMMA ConfigureKeeps ==
    ASSUME AwsInv, Configure
    PROVE  AwsInv'
<1>1. /\ UNCHANGED <<aws, tagged, stopped, untagged, pages, recent, keyFile, sshFrom, moved,
                     address, swallowed, cmd, stops, failures>>
      /\ configured' = TRUE /\ cmd.name = "provision"
    BY DEF Configure, account
<1>2. AwsTypeOK' BY <1>1 DEF AwsInv, AwsTypeOK, Running
<1>3. ProvisionInv' /\ DeployInv' /\ TeardownInv'
    BY <1>1
    DEF AwsInv, ProvisionInv, DeployInv, TeardownInv, UnderWay, Running
<1>4. DependenceInv' /\ ScheduleHasItsTarget' /\ HalfDoneInv' /\ WorkerInv' /\ AddressInv'
    BY <1>1
    DEF AwsInv, DependenceInv, ScheduleHasItsTarget, HalfDoneInv, WorkerInv, AddressInv,
        At, Running
<1> QED BY <1>2, <1>3, <1>4 DEF AwsInv

LEMMA Counts ==
    \A a, b, c, d, m, n \in Nat : a + b = c + d /\ m <= n =>
       /\ a + b <= m => c + d <= n
       /\ a + b <= 1 + m => c + d <= 1 + n
       /\ a = 0 /\ b = 0 => c = 0 /\ d = 0
OBVIOUS

(* A step outside the commands: media is stored, perhaps in a bucket that  *)
(* is being emptied, a minute or nothing passes, the operator stops or     *)
(* resumes an instance.                                                    *)
LEMMA OutsideKeeps ==
    ASSUME AwsInv,
           UNCHANGED <<aws, untagged, keyFile, sshFrom, moved, address, configured, swallowed,
                       cmd, failures>>,
           pages' \in Nat, recent' \subseteq recent,
           tagged' \in Nat, stopped' \in Nat, stops' \in Nat,
           tagged' + stopped' = tagged + stopped, stops <= stops', stopped' <= stops'
    PROVE  AwsInv'
<1>1. AwsTypeOK' BY DEF AwsInv, AwsTypeOK, Running
<1>2. tagged \in Nat /\ stopped \in Nat /\ stops \in Nat
    BY DEF AwsInv, AwsTypeOK
<1>3. ProvisionInv'
    BY DEF AwsInv, ProvisionInv, UnderWay
<1>a. /\ tagged + stopped <= stops => tagged' + stopped' <= stops'
      /\ tagged + stopped <= 1 + stops => tagged' + stopped' <= 1 + stops'
      /\ tagged = 0 /\ stopped = 0 => tagged' = 0 /\ stopped' = 0
    <2>1. \A c, d, n \in Nat : tagged + stopped = c + d /\ stops <= n =>
             /\ tagged + stopped <= stops => c + d <= n
             /\ tagged + stopped <= 1 + stops => c + d <= 1 + n
             /\ tagged = 0 /\ stopped = 0 => c = 0 /\ d = 0
        BY <1>2, Counts
    <2>2. tagged + stopped = tagged' + stopped'
        OBVIOUS
    <2> QED BY <2>1, <2>2, Zenon
<1>4. DeployInv'
    <2>1. tagged + stopped <= stops => tagged' + stopped' <= stops'
        BY <1>a
    <2> QED BY <2>1 DEF AwsInv, DeployInv, Running
<1>5. TeardownInv'
    <2>1. tagged = 0 /\ stopped = 0 => tagged' = 0 /\ stopped' = 0
        BY <1>a
    <2> QED BY <2>1 DEF AwsInv, TeardownInv, UnderWay
<1>6. DependenceInv' /\ ScheduleHasItsTarget' /\ HalfDoneInv' /\ AddressInv'
    BY DEF AwsInv, DependenceInv, ScheduleHasItsTarget, HalfDoneInv, AddressInv, At, Running
<1>7. WorkerInv'
    <2>1. tagged' + stopped' <= 1 + stops'
        BY <1>a DEF AwsInv, WorkerInv
    <2> QED BY <2>1 DEF AwsInv, WorkerInv, At, Running
<1> QED BY <1>1, <1>3, <1>4, <1>5, <1>6, <1>7 DEF AwsInv

LEMMA OutsideSteps ==
    ASSUME AwsInv,
           \/ Store \/ StopsInstance \/ ResumesInstance
           \/ \E queue \in Queues : MinutePasses(queue)
           \/ UNCHANGED awsVars
    PROVE  AwsInv'
<1>1. /\ tagged \in Nat /\ stopped \in Nat /\ stops \in Nat /\ stopped <= stops
      /\ pages \in Nat
    BY DEF AwsInv, AwsTypeOK, WorkerInv
<1>2. /\ UNCHANGED <<aws, untagged, keyFile, sshFrom, moved, address, configured, swallowed,
                     cmd, failures>>
      /\ pages' \in Nat /\ recent' \subseteq recent
    BY <1>1 DEF Store, StopsInstance, ResumesInstance, MinutePasses, awsVars, account
<1>3. /\ tagged' \in Nat /\ stopped' \in Nat /\ stops' \in Nat
      /\ tagged' + stopped' = tagged + stopped /\ stops <= stops' /\ stopped' <= stops'
    BY <1>1 DEF Store, StopsInstance, ResumesInstance, MinutePasses, awsVars, account
<1> QED BY <1>2, <1>3, OutsideKeeps

(* An operator who moved makes no promise about the rule.                  *)
LEMMA MovesKeeps ==
    ASSUME AwsInv, NEW to \in Addresses, Moves(to)
    PROVE  AwsInv'
<1>1. /\ UNCHANGED <<aws, tagged, stopped, untagged, pages, recent, keyFile, sshFrom,
                     configured, swallowed, cmd, stops, failures>>
      /\ address' = to /\ moved' = TRUE
    BY DEF Moves
<1>2. AwsTypeOK' BY <1>1 DEF AwsInv, AwsTypeOK, Running
<1>3. ProvisionInv' /\ DeployInv' /\ TeardownInv'
    BY <1>1
    DEF AwsInv, ProvisionInv, DeployInv, TeardownInv, UnderWay, Running
<1>4. DependenceInv' /\ ScheduleHasItsTarget' /\ HalfDoneInv' /\ WorkerInv' /\ AddressInv'
    BY <1>1
    DEF AwsInv, DependenceInv, ScheduleHasItsTarget, HalfDoneInv, WorkerInv, AddressInv,
        At, Running
<1> QED BY <1>2, <1>3, <1>4 DEF AwsInv

LEMMA AccountInit ==
    ASSUME AwsInit
    PROVE  AwsInv
<1>1. /\ tagged = 0 /\ stopped = 0 /\ untagged = 0 /\ pages = 0 /\ recent = {}
      /\ keyFile = FALSE /\ configured = FALSE /\ swallowed = {}
      /\ address \in Addresses /\ sshFrom = NoAddress /\ moved = FALSE
      /\ stops = 0 /\ failures = 0
    BY DEF AwsInit
<1>2. PICK s \in Settings :
         /\ aws = s.givens
         /\ cmd = [name |-> "provision", at |-> 1, state |-> "idle", faulted |-> FALSE,
                   cron |-> s.cron, ip |-> NoAddress]
    BY DEF AwsInit
<1>3. s.cron \in CronFields /\ s.givens \subseteq Givens
    BY SettingsAssumption
<1>4. cmd \in Command /\ cmd.state = "idle" /\ aws \subseteq {"roleArn", "subnet", "image"}
    BY <1>2, <1>3, Programs DEF Command, Givens
<1>5. AwsTypeOK
    BY <1>1, <1>4 DEF AwsTypeOK, Running, Facts, Givens
<1>6. ProvisionInv /\ DeployInv /\ TeardownInv
    BY <1>4
    DEF ProvisionInv, DeployInv, TeardownInv, UnderWay, Running
<1>7. DependenceInv /\ ScheduleHasItsTarget /\ HalfDoneInv
    BY <1>4 DEF DependenceInv, ScheduleHasItsTarget, HalfDoneInv
<1>8. WorkerInv /\ AddressInv
    BY <1>1, <1>4 DEF WorkerInv, AddressInv, At, Running
<1> QED BY <1>5, <1>6, <1>7, <1>8 DEF AwsInv

(* Every step of a command, whichever it is, keeps the invariant.          *)
LEMMA CommandKeeps ==
    ASSUME AwsInv, Running,
           \/ Found \/ CheckRunning \/ NoBucketSet
           \/ CallWorks \/ Refused \/ CallFails
    PROVE  AwsInv'
<1>1. cmd.name \in {"provision", "deploy", "teardown"}
    BY Programs DEF AwsInv, AwsTypeOK, Command
<1>2. CASE cmd.name = "provision"
    <2>1. ~CheckRunning /\ ~NoBucketSet
        BY <1>2, ProvisionStep DEF CheckRunning, NoBucketSet, Is, ProvisionView
    <2> QED BY <1>2, <2>1, ProvisionGoesOn, ProvisionRefused, ProvisionFails
<1>3. CASE cmd.name = "deploy"
    <2>1. ~NoBucketSet
        BY <1>3, DeployStep DEF NoBucketSet, Is, DeployView, StepIs
    <2> QED BY <1>3, <2>1, DeployFinds, DeployChecks, DeployGoesOn, DeployRefused, DeployFails
<1>4. CASE cmd.name = "teardown"
    <2>1. ~Found /\ ~CheckRunning
        BY <1>4, TeardownStep DEF Found, CheckRunning, Is, TeardownView, StepIs
    <2> QED BY <1>4, <2>1, TeardownSkips, TeardownGoesOn, TeardownRefused, TeardownFails
<1> QED BY <1>1, <1>2, <1>3, <1>4

LEMMA AccountStep ==
    ASSUME AwsInv, [AwsNext]_awsVars
    PROVE  AwsInv'
<1>1. CASE \E name \in DOMAIN Program : Start(name)
    BY <1>1, StartKeeps
<1>2. CASE Configure
    BY <1>2, ConfigureKeeps
<1>3. CASE \E to \in Addresses : Moves(to)
    BY <1>3, MovesKeeps
<1>4. CASE \/ Found \/ CheckRunning \/ NoBucketSet
           \/ CallWorks \/ Refused \/ CallFails
    <2>1. Running
        BY <1>4
        DEF Found, CheckRunning, NoBucketSet, CallWorks, Refused,
            CallFails, Is
    <2> QED BY <1>4, <2>1, CommandKeeps
<1>5. CASE Dies
    BY <1>5, DiesKeeps
<1>6. CASE \/ Store \/ StopsInstance \/ ResumesInstance
           \/ \E queue \in Queues : MinutePasses(queue)
           \/ UNCHANGED awsVars
    BY <1>6, OutsideSteps
<1> QED BY <1>1, <1>2, <1>3, <1>4, <1>5, <1>6 DEF AwsNext

(* What the operator's commands and the account are in, however often the  *)
(* commands are run, cut off and run again (commands/provisionAws.ts,      *)
(* deployEc2.ts, teardownAws.ts).                                          *)
THEOREM AccountInvariant == AwsSpec => []AwsInv
BY AccountInit, AccountStep, PTL DEF AwsSpec

(* The account holds known facts only, and a command stays inside its      *)
(* program or ends just past it.                                           *)
THEOREM AccountTypeCorrect == AwsSpec => []AwsTypeOK
<1>1. AwsInv => AwsTypeOK
    BY DEF AwsInv
<1> QED BY <1>1, AccountInvariant, PTL

(* A provision that reports success left every resource of aws:provision   *)
(* in place (provisionAws.ts), whatever it found when it began.            *)
THEOREM ProvisionCompletes == AwsSpec => []ProvisionIsComplete
<1>1. AwsInv => ProvisionIsComplete
    <2> SUFFICES ASSUME AwsInv, cmd.name = "provision", cmd.state = "done"
                 PROVE  ProvisionFacts \subseteq aws
        BY DEF ProvisionIsComplete, Ended
    <2>1. cmd.at = 11
        BY Programs, ProvisionCalls DEF AwsInv, AwsTypeOK
    <2>2. \A m \in 2 .. 10 : ProvisionProgram[m].fact \in aws
        BY <2>1 DEF AwsInv, ProvisionInv, UnderWay
    <2>3. /\ ProvisionProgram[2].fact = "bucket" /\ ProvisionProgram[3].fact = "blocked"
          /\ ProvisionProgram[4].fact = "encrypted" /\ ProvisionProgram[5].fact = "dlq"
          /\ ProvisionProgram[6].fact = "queue" /\ ProvisionProgram[7].fact = "redrive"
          /\ ProvisionProgram[8].fact = "schedulerRole"
          /\ ProvisionProgram[9].fact = "schedulerPolicy"
          /\ ProvisionProgram[10].fact = "schedule"
        BY ProvisionCalls, CallFields, EnsureFields DEF Ensure, Put
    <2> QED BY <2>2, <2>3 DEF ProvisionFacts
<1> QED BY <1>1, AccountInvariant, PTL

(* A command that ends in an error without a fault has an excuse.          *)
LEMMA ExcusedStep ==
    ASSUME AwsInv, AwsNext, Running, cmd'.state = "failed", ~cmd'.faulted
    PROVE  Excuse
<1>0. AwsTypeOK /\ cmd.state = "running"
    BY DEF AwsInv, Running
<1>1. cmd.name \in {"provision", "deploy", "teardown"}
    BY <1>0, Programs DEF AwsTypeOK, Command
<1>2. ~(\E name \in DOMAIN Program : Start(name))
    BY DEF Start
<1>3. cmd' # cmd
    BY <1>0
<1>4. /\ ~Configure /\ ~Store /\ ~StopsInstance /\ ~ResumesInstance
      /\ ~(\E queue \in Queues : MinutePasses(queue))
      /\ ~(\E to \in Addresses : Moves(to))
    BY <1>3 DEF Configure, Store, StopsInstance, ResumesInstance, MinutePasses, Moves
<1>5. ASSUME NEW n, Goto(n) PROVE FALSE
    BY <1>0, <1>5 DEF Goto, AwsTypeOK, Command
<1>6. ~Found /\ ~NoBucketSet /\ ~CallWorks
    BY <1>3, <1>5 DEF Found, NoBucketSet, CallWorks, Continue
<1>7. ~CheckRunning
    BY <1>0 DEF CheckRunning, AwsTypeOK, Command
<1>8. ~Dies
    BY <1>0 DEF Dies, AwsTypeOK, Command
<1>9. ~CallFails
    BY <1>0 DEF CallFails, AfterError, AwsTypeOK, Command
<1>10. Refused
    BY <1>2, <1>4, <1>6, <1>7, <1>8, <1>9 DEF AwsNext
<1> QED BY <1>1, <1>10, ProvisionRefused, DeployRefused, TeardownRefused

(* A command that met no fault of its own fails only for the reasons of    *)
(* Excuse: nothing half done that ensureBucket, ensureQueues,              *)
(* ensureSchedulerRole or an earlier teardown left behind stops it.        *)
THEOREM NoCommandWedges == AwsSpec => NothingElseWedges
<1>1. AwsInv /\ [AwsNext]_awsVars =>
         [Running /\ cmd'.state = "failed" /\ ~cmd'.faulted => Excuse]_awsVars
    BY ExcusedStep
<1> QED BY <1>1, AccountInvariant, PTL DEF AwsSpec, NothingElseWedges

(* However often deploy:ec2 is run, one instance at most carries the       *)
(* worker's tag, and one more for each that was stopped; each one without  *)
(* it stands for a deploy that was cut off between runInstances and        *)
(* createTags.                                                             *)
THEOREM OneWorkerEach == AwsSpec => []OneWorkerPerFault
<1>1. AwsInv => OneWorkerPerFault
    <2> SUFFICES ASSUME AwsInv
                 PROVE  OneWorkerPerFault
        OBVIOUS
    <2>1. /\ tagged \in Nat /\ stopped \in Nat /\ stops \in Nat
          /\ untagged \in Nat /\ failures \in Nat
        BY DEF AwsInv, AwsTypeOK
    <2>2. /\ tagged + stopped <= 1 + stops
          /\ untagged <= failures + (IF At("deploy", 12) THEN 1 ELSE 0)
        BY DEF AwsInv, WorkerInv
    <2>3. At("deploy", 12) => tagged + stopped <= stops
        BY DEF At, AwsInv, DeployInv
    <2> QED BY <2>1, <2>2, <2>3 DEF OneWorkerPerFault
<1> QED BY <1>1, AccountInvariant, PTL

(* The instance deploy:ec2 is about to tag has its role, its policy and    *)
(* the bucket's expiry rule; when nothing ever failed its key is at hand,  *)
(* and its group admits the operator who has not moved since the group was *)
(* created.                                                                *)
THEOREM WorkerIsEquipped == AwsSpec => []LaunchedIsEquipped
<1>1. AwsInv => LaunchedIsEquipped
    <2> SUFFICES ASSUME AwsInv, Running, Step.kind = "tag"
                 PROVE  /\ WorkerFacts \cup {"bucket", "lifecycle"} \subseteq aws
                        /\ failures = 0 => /\ "groupRule" \in aws /\ keyFile
                                           /\ sshFrom = address \/ moved
        BY DEF LaunchedIsEquipped
    <2>1. cmd.name = "deploy"
        <3>1. cmd.name \in {"provision", "deploy", "teardown"}
            BY Programs DEF AwsInv, AwsTypeOK, Command
        <3> QED BY <3>1, ProvisionStep, TeardownStep DEF ProvisionView, TeardownView, StepIs
    <2>2. cmd.at = 12 /\ DeployView
        BY <2>1, DeployStep DEF DeployView, StepIs
    <2>3. WorkerFacts \cup {"bucket", "lifecycle", "group", "keyPair"} \subseteq aws
        BY <2>2 DEF DeployView, WorkerFacts
    <2>4. failures = 0 => "groupRule" \in aws /\ keyFile
        BY <2>2, <2>3 DEF AwsInv, HalfDoneInv, At
    <2>5. "groupRule" \in aws => sshFrom = address \/ moved
        BY DEF AwsInv, AddressInv
    <2> QED BY <2>3, <2>4, <2>5
<1> QED BY <1>1, AccountInvariant, PTL

(* A teardown without a fault leaves nothing of aws:provision, save the    *)
(* bucket that .env does not name (teardownAws.ts).                        *)
THEOREM TeardownCompletes == AwsSpec => []TeardownIsComplete
<1>1. AwsInv => TeardownIsComplete
    <2> SUFFICES ASSUME AwsInv, cmd.name = "teardown", cmd.state = "done", ~cmd.faulted
                 PROVE  /\ tagged = 0 /\ stopped = 0
                        /\ aws \cap ProvisionFacts
                              \subseteq (IF configured THEN {} ELSE BucketFacts)
        BY DEF TeardownIsComplete, Ended
    <2>1. cmd.at = 9
        BY Programs, TeardownCalls DEF AwsInv, AwsTypeOK
    <2>2. /\ tagged = 0 /\ stopped = 0
          /\ \A m \in 2 .. 6 : DroppedWith(TeardownProgram[m].fact) \cap aws = {}
          /\ configured => BucketFacts \cap aws = {}
        BY <2>1 DEF AwsInv, TeardownInv, UnderWay
    <2>3. aws \cap {"schedule", "queue", "redrive", "dlq", "schedulerPolicy", "schedulerRole"}
             = {}
        <3>1. /\ TeardownProgram[2].fact = "schedule" /\ TeardownProgram[3].fact = "queue"
              /\ TeardownProgram[4].fact = "dlq"
              /\ TeardownProgram[5].fact = "schedulerPolicy"
              /\ TeardownProgram[6].fact = "schedulerRole"
            BY TeardownCalls, CallFields DEF Drop
        <3>2. /\ {"schedule"} \cap aws = {} /\ {"queue", "redrive"} \cap aws = {}
              /\ {"dlq"} \cap aws = {} /\ {"schedulerPolicy"} \cap aws = {}
              /\ {"schedulerRole"} \cap aws = {}
            BY <2>2, <3>1, DropsWith
        <3> QED BY <3>2
    <2> QED BY <2>2, <2>3 DEF ProvisionFacts, BucketFacts
<1> QED BY <1>1, AccountInvariant, PTL

(* At every step of a provision or a teardown the schedule has its queue   *)
(* and its role, unless deleting it failed and the error was swallowed.    *)
THEOREM ScheduleIsServed == AwsSpec => []ScheduleHasItsTarget
<1>1. AwsInv => ScheduleHasItsTarget
    BY DEF AwsInv
<1> QED BY <1>1, AccountInvariant, PTL
=============================================================================
