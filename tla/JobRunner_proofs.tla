-------------------------- MODULE JobRunner_proofs --------------------------
(***************************************************************************)
(* Safety of the worker for any number of workers, jobs, receives and      *)
(* faults, any concurrency and any timeouts.                               *)
(***************************************************************************)
EXTENDS JobRunner, FiniteSetTheorems, TLAPS

(* A visibility timeout of at most MinInterval runs out before the first   *)
(* heartbeat.                                                              *)
HeartbeatInTime == MinInterval < VisibilityTimeout

(* Deliveries are numbered up to the receive count of their message, and   *)
(* what a task is about to ack has been earned.                            *)
TaskInv(d) ==
    /\ step[d] # "none" => d[2] <= receives[d[1]] /\ state[d[1]] # "unsent"
    /\ step[d] = "ack" => d[1] \in completed
    /\ step[d] = "drop" => kind[d[1]] \in {"invalid", "unknown"}

(* Unless SQS handed the job out by itself or one of its heartbeats was    *)
(* missed, a task works on the latest delivery and its next heartbeat      *)
(* comes before the message becomes visible.                               *)
LeaseInv(d) ==
    d[1] \notin exposed /\ Beating(d) => /\ d[2] = receives[d[1]]
                                         /\ state[d[1]] = "queued"
                                         /\ beat[d] < left[d[1]]

(* What was asked for still fits. *)
CapacityInv(w) ==
    /\ Cardinality(Active(w)) <= MaxConcurrent
    /\ phase[w] = "receiving" => Cardinality(Active(w)) + asked[w] <= MaxConcurrent

IInv ==
    /\ TypeOK
    /\ \A d \in Deliveries : TaskInv(d)
    /\ HeartbeatInTime => \A d \in Deliveries : LeaseInv(d)
    /\ \A w \in Workers : CapacityInv(w)
    /\ AckedMeansHandled

-----------------------------------------------------------------------------
LEMMA IntervalFact ==
    /\ Interval \in Nat \ {0}
    /\ HeartbeatInTime => Interval < VisibilityTimeout
<1> USE RunnerAssumption
<1>1. VisibilityTimeout \div 2 \in Nat /\ VisibilityTimeout \div 2 < VisibilityTimeout
    OBVIOUS
<1> QED BY <1>1 DEF Interval, Larger, HeartbeatInTime

LEMMA DeliveriesFinite == IsFiniteSet(Deliveries)
<1>1. IsFiniteSet(1 .. MaxReceives)
    BY FS_Interval, RunnerAssumption
<1> QED BY <1>1, FS_Product, RunnerAssumption DEF Deliveries

LEMMA ActiveFinite ==
    ASSUME NEW w \in Workers
    PROVE  IsFiniteSet(Active(w)) /\ Cardinality(Active(w)) \in Nat
BY DeliveriesFinite, FS_Subset, FS_CardinalityType DEF Active

(* A step after which a worker has no more tasks than before. *)
LEMMA CapacityKeeps ==
    ASSUME IInv, NEW w \in Workers, Active(w)' \subseteq Active(w),
           phase'[w] = "receiving" => phase[w] = "receiving" /\ asked'[w] = asked[w]
    PROVE  CapacityInv(w)'
<1>1. /\ Cardinality(Active(w)) \in Nat /\ Cardinality(Active(w)') \in Nat
      /\ Cardinality(Active(w)') <= Cardinality(Active(w))
    BY ActiveFinite, FS_Subset, FS_CardinalityType
<1>2. asked[w] \in Nat
    BY DEF IInv, TypeOK
<1> QED BY <1>1, <1>2, RunnerAssumption DEF IInv, CapacityInv

(***************************************************************************)
(* The poll loop moves: neither the queue nor a task changes.              *)
(***************************************************************************)
LEMMA LoopMoves ==
    ASSUME IInv, NEW w \in Workers,
           Boot(w) \/ WaitForSlot(w) \/ BeginReceive(w) \/ LeaveLoop(w) \/ Stop(w)
    PROVE  IInv'
<1> USE RunnerAssumption
<1>1. UNCHANGED <<queue, step, owner, beat, history>>
    BY DEF Boot, WaitForSlot, BeginReceive, LeaveLoop, Stop, tasks
<1>2. UNCHANGED <<kind, state, receives, left, completed, exposed>>
    BY <1>1 DEF queue, history
<1>3. /\ Cardinality(Active(w)) \in Nat
      /\ \A v \in Workers : Active(v) \subseteq Deliveries /\ Active(v)' = Active(v)
    BY <1>1, ActiveFinite DEF Active
<1>4. TypeOK'
    <2>1. awaited' \subseteq Deliveries
        BY <1>3 DEF IInv, TypeOK, Boot, WaitForSlot, BeginReceive, LeaveLoop, Stop, tasks
    <2>2. asked' \in [Workers -> 0 .. MaxConcurrent]
        <3>1. CASE BeginReceive(w)
            <4>1. Wanted(w) \in 0 .. MaxConcurrent
                BY <1>3, <3>1 DEF BeginReceive, Wanted, Smaller
            <4> QED BY <3>1, <4>1 DEF IInv, TypeOK, BeginReceive
        <3>2. CASE asked' = asked
            BY <3>2 DEF IInv, TypeOK
        <3> QED BY <3>1, <3>2 DEF Boot, WaitForSlot, LeaveLoop, Stop
    <2>3. /\ phase' \in [Workers -> {"off", "loop", "full", "receiving", "draining", "exited"}]
          /\ running' \in [Workers -> BOOLEAN]
        BY DEF IInv, TypeOK, Boot, WaitForSlot, BeginReceive, LeaveLoop, Stop
    <2>4. faults' \in 0 .. MaxFaults
        BY DEF IInv, TypeOK, Boot, WaitForSlot, BeginReceive, LeaveLoop, Stop, Fault
    <2> QED BY <1>1, <1>2, <2>1, <2>2, <2>3, <2>4 DEF IInv, TypeOK
<1>5. \A d \in Deliveries : TaskInv(d)'
    BY <1>1, <1>2 DEF IInv, TaskInv
<1>6. HeartbeatInTime => \A d \in Deliveries : LeaseInv(d)'
    BY <1>1, <1>2 DEF IInv, LeaseInv, Beating
<1>7. ASSUME NEW v \in Workers PROVE CapacityInv(v)'
    <2>1. CASE BeginReceive(w) /\ v = w
        <3>1. /\ asked'[w] = Wanted(w) /\ Wanted(w) \in Nat
              /\ Wanted(w) <= MaxConcurrent - Cardinality(Active(w))
            BY <1>3, <2>1 DEF BeginReceive, Wanted, Smaller, IInv, TypeOK
        <3> QED BY <1>3, <2>1, <3>1 DEF BeginReceive, CapacityInv, IInv, TypeOK
    <2>2. CASE ~(BeginReceive(w) /\ v = w)
        <3>1. phase'[v] = "receiving" => phase[v] = "receiving" /\ asked'[v] = asked[v]
            BY <2>2 DEF IInv, TypeOK, Boot, WaitForSlot, BeginReceive, LeaveLoop, Stop
        <3> QED BY <1>3, <3>1, CapacityKeeps
    <2> QED BY <2>1, <2>2
<1>8. AckedMeansHandled'
    BY <1>2 DEF IInv, AckedMeansHandled
<1>9. HeartbeatInTime' = HeartbeatInTime
    BY DEF HeartbeatInTime
<1> QED BY <1>4, <1>5, <1>6, <1>7, <1>8, <1>9 DEF IInv

(***************************************************************************)
(* SQS accepts a message, or parks one that can be received.               *)
(***************************************************************************)
LEMMA SqsStep ==
    ASSUME IInv, NEW x \in Msgs,
           Redrive(x) \/ \E k \in Kinds : Enqueue(x, k)
    PROVE  IInv'
<1>1. UNCHANGED <<receives, left, loop, tasks, history, faults>>
    BY DEF Redrive, Enqueue
<1>2. UNCHANGED <<phase, running, asked, step, owner, beat, awaited, completed, exposed>>
    BY <1>1 DEF loop, tasks, history
<1>3. /\ kind' \in [Msgs -> Kinds] /\ state' \in [Msgs -> {"unsent", "queued", "acked", "dead"}]
      /\ state'[x] \in {"queued", "dead"}
      /\ state[x] = "unsent" \/ (state[x] = "queued" /\ left[x] = 0 /\ kind'[x] = kind[x])
      /\ \A y \in Msgs : y # x => state'[y] = state[y] /\ kind'[y] = kind[y]
    BY DEF IInv, TypeOK, Redrive, Enqueue
<1>4. TypeOK'
    BY <1>1, <1>2, <1>3 DEF IInv, TypeOK
<1>5. \A d \in Deliveries : TaskInv(d)'
    BY <1>1, <1>2, <1>3 DEF IInv, TaskInv, Deliveries
<1>6. ASSUME HeartbeatInTime, NEW d \in Deliveries PROVE LeaseInv(d)'
    <2>1. TaskInv(d) /\ LeaseInv(d) /\ d[1] \in Msgs /\ beat[d] \in Nat
        BY <1>6 DEF IInv, TypeOK, Deliveries
    <2>2. CASE d[1] # x
        BY <1>1, <1>2, <1>3, <2>1, <2>2 DEF LeaseInv, Beating
    <2>3. CASE d[1] = x /\ state[x] = "unsent"
        BY <1>2, <2>1, <2>3 DEF TaskInv, LeaseInv, Beating
    <2>4. CASE d[1] = x /\ left[x] = 0 /\ kind'[x] = kind[x]
        BY <1>1, <1>2, <2>1, <2>4 DEF LeaseInv, Beating
    <2> QED BY <1>3, <2>2, <2>3, <2>4
<1>7. ASSUME NEW v \in Workers PROVE CapacityInv(v)'
    <2>1. Active(v)' = Active(v)
        BY <1>2 DEF Active
    <2> QED BY <1>2, <2>1, CapacityKeeps
<1>8. AckedMeansHandled'
    BY <1>2, <1>3 DEF IInv, AckedMeansHandled
<1>9. HeartbeatInTime' = HeartbeatInTime
    BY DEF HeartbeatInTime
<1> QED BY <1>4, <1>5, <1>6, <1>7, <1>8, <1>9 DEF IInv

(* SQS duplicates a message: its lease is lost, and it is exposed. *)
LEMMA ReappearsStep ==
    ASSUME IInv, NEW x \in Msgs, Reappears(x)
    PROVE  IInv'
<1> USE RunnerAssumption
<1>1. /\ UNCHANGED <<kind, receives, phase, running, asked, step, owner, beat, awaited, completed>>
      /\ state' = [state EXCEPT ![x] = "queued"] /\ left' = [left EXCEPT ![x] = 0]
      /\ exposed' = exposed \cup {x} /\ state[x] # "unsent" /\ faults' \in 0 .. MaxFaults
    BY DEF Reappears, Fault, loop, tasks, IInv, TypeOK
<1>2. TypeOK'
    BY <1>1 DEF IInv, TypeOK
<1>3. \A d \in Deliveries : TaskInv(d)'
    BY <1>1 DEF IInv, TypeOK, TaskInv, Deliveries
<1>4. ASSUME HeartbeatInTime, NEW d \in Deliveries PROVE LeaseInv(d)'
    <2>1. LeaseInv(d) /\ d[1] \in Msgs
        BY <1>4 DEF IInv, Deliveries
    <2>2. CASE d[1] = x
        BY <1>1, <2>2 DEF LeaseInv
    <2>3. CASE d[1] # x
        BY <1>1, <2>1, <2>3 DEF LeaseInv, Beating, IInv, TypeOK
    <2> QED BY <2>2, <2>3
<1>5. ASSUME NEW v \in Workers PROVE CapacityInv(v)'
    <2>1. Active(v)' = Active(v)
        BY <1>1 DEF Active
    <2> QED BY <1>1, <2>1, CapacityKeeps
<1>6. AckedMeansHandled'
    BY <1>1 DEF IInv, TypeOK, AckedMeansHandled
<1>7. HeartbeatInTime' = HeartbeatInTime
    BY DEF HeartbeatInTime
<1> QED BY <1>2, <1>3, <1>4, <1>5, <1>6, <1>7 DEF IInv

(***************************************************************************)
(* receive.  SQS hands out the messages of S; the tasks in N start, which  *)
(* are those of S or, when the response is lost, none.                     *)
(***************************************************************************)
LEMMA NewDeliveries ==
    ASSUME IInv, NEW S \in SUBSET Receivable
    PROVE  /\ S \subseteq Msgs
           /\ \A x \in S : /\ state[x] = "queued" /\ left[x] = 0
                            /\ receives[x] \in Nat /\ receives[x] + 1 \in 1 .. MaxReceives
           /\ Started(S) \subseteq Deliveries
           /\ \A d \in Started(S) : d[1] \in S /\ d[2] = receives[d[1]] + 1
           /\ IsFiniteSet(Started(S)) /\ Cardinality(Started(S)) <= Cardinality(S)
           /\ Cardinality(Started(S)) \in Nat /\ Cardinality(S) \in Nat
<1> USE RunnerAssumption
<1> DEFINE Parsed == {y \in S : kind[y] # "garbled"}
           f == [x \in Parsed |-> <<x, receives[x] + 1>>]
<1>1. /\ S \subseteq Msgs
      /\ \A x \in S : /\ state[x] = "queued" /\ left[x] = 0
                       /\ receives[x] \in Nat /\ receives[x] + 1 \in 1 .. MaxReceives
    BY DEF Receivable, Exhausted, IInv, TypeOK
<1>2. Started(S) \subseteq Deliveries
    BY <1>1 DEF Started, Deliveries
<1>3. \A d \in Started(S) : d[1] \in S /\ d[2] = receives[d[1]] + 1
    BY DEF Started
<1>4. /\ IsFiniteSet(S) /\ Cardinality(S) \in Nat /\ Parsed \subseteq S
      /\ IsFiniteSet(Parsed) /\ Cardinality(Parsed) <= Cardinality(S)
      /\ Cardinality(Parsed) \in Nat
    BY <1>1, FS_Subset, FS_CardinalityType
<1>5. f \in Surjection(Parsed, Started(S))
    BY DEF Surjection, Started
<1>6. IsFiniteSet(Started(S)) /\ Cardinality(Started(S)) <= Cardinality(Parsed)
    BY <1>4, <1>5, FS_Surjection
<1>7. Cardinality(Started(S)) \in Nat
    BY <1>6, FS_CardinalityType
<1> QED BY <1>1, <1>2, <1>3, <1>4, <1>6, <1>7

LEMMA HandOutStep ==
    ASSUME IInv, TypeOK', NEW w \in Workers, NEW S \in SUBSET Receivable, HandOut(S),
           NEW N \in SUBSET Started(S), Cardinality(S) <= asked[w], phase[w] = "receiving",
           phase' = [phase EXCEPT ![w] = "loop"], UNCHANGED <<asked, history>>,
           \A d \in Deliveries :
              IF d \in N
              THEN /\ step'[d] = IF kind[d[1]] = "unknown" THEN "drop" ELSE "run"
                   /\ owner'[d] = w
                   /\ kind[d[1]] # "unknown" => beat'[d] = Interval
              ELSE step'[d] = step[d] /\ owner'[d] = owner[d] /\ beat'[d] = beat[d]
    PROVE  IInv'
<1> USE RunnerAssumption
<1>1. /\ UNCHANGED <<kind, state, completed, exposed>>
      /\ \A x \in Msgs : IF x \in S THEN receives'[x] = receives[x] + 1 /\ left'[x] = VisibilityTimeout
                                     ELSE receives'[x] = receives[x] /\ left'[x] = left[x]
    BY DEF HandOut, history
<1>2. \A d \in Deliveries : d[1] \in Msgs /\ d[2] \in Nat /\ receives[d[1]] \in Nat /\ beat[d] \in Nat
    BY DEF Deliveries, IInv, TypeOK
<1>3. \A d \in N : d \in Deliveries /\ d[1] \in S /\ d[2] = receives'[d[1]] /\ state[d[1]] = "queued"
    BY <1>1, NewDeliveries
<1>4. ASSUME NEW d \in Deliveries PROVE TaskInv(d)'
    <2>1. CASE d \in N
        <3>1. step'[d] = "run" \/ (step'[d] = "drop" /\ kind[d[1]] = "unknown")
            BY <2>1
        <3> QED BY <1>1, <1>2, <1>3, <2>1, <3>1 DEF TaskInv
    <2>2. CASE d \notin N
        <3>1. TaskInv(d) /\ step'[d] = step[d] /\ receives[d[1]] <= receives'[d[1]]
            BY <1>1, <1>2, <2>2 DEF IInv
        <3>2. receives'[d[1]] \in Nat
            BY <1>1, <1>2
        <3> QED BY <1>1, <1>2, <3>1, <3>2 DEF TaskInv
    <2> QED BY <2>1, <2>2
<1>5. ASSUME HeartbeatInTime, NEW d \in Deliveries PROVE LeaseInv(d)'
    <2>1. CASE d \in N
        BY <1>1, <1>2, <1>3, <1>5, <2>1, IntervalFact DEF LeaseInv, Beating
    <2>2. CASE d \notin N
        <3>1. LeaseInv(d) /\ step'[d] = step[d] /\ beat'[d] = beat[d]
            BY <1>5, <2>2 DEF IInv
        <3>2. CASE d[1] \in S
            <4>1. left[d[1]] = 0
                BY <3>2, NewDeliveries
            <4> QED BY <1>1, <1>2, <3>1, <4>1 DEF LeaseInv, Beating
        <3>3. CASE d[1] \notin S
            BY <1>1, <1>2, <3>1, <3>3 DEF LeaseInv, Beating
        <3> QED BY <3>2, <3>3
    <2> QED BY <2>1, <2>2
<1>6. ASSUME NEW v \in Workers PROVE CapacityInv(v)'
    <2>1. CASE v # w
        <3>1. Active(v)' \subseteq Active(v)
            BY <1>3, <2>1 DEF Active
        <3>2. phase'[v] = phase[v] /\ asked'[v] = asked[v]
            BY <2>1 DEF IInv, TypeOK
        <3> QED BY <3>1, <3>2, CapacityKeeps
    <2>2. CASE v = w
        <3>1. Active(w)' \subseteq Active(w) \cup N
            BY DEF Active
        <3>2. IsFiniteSet(N) /\ Cardinality(N) \in Nat /\ Cardinality(N) <= Cardinality(Started(S))
            BY NewDeliveries, FS_Subset, FS_CardinalityType
        <3>3. IsFiniteSet(Active(w)) /\ Cardinality(Active(w)) \in Nat
            BY ActiveFinite
        <3>4. /\ IsFiniteSet(Active(w) \cup N) /\ Cardinality(Active(w) \cup N) \in Nat
              /\ Cardinality(Active(w) \cup N) <= Cardinality(Active(w)) + Cardinality(N)
            <4>1. IsFiniteSet(Active(w) \cap N) /\ Cardinality(Active(w) \cap N) \in Nat
                BY <3>3, FS_Subset, FS_CardinalityType
            <4>2. /\ IsFiniteSet(Active(w) \cup N)
                  /\ Cardinality(Active(w) \cup N)
                        = Cardinality(Active(w)) + Cardinality(N) - Cardinality(Active(w) \cap N)
                BY <3>2, <3>3, FS_Union
            <4>3. Cardinality(Active(w) \cup N) \in Nat
                BY <4>2, FS_CardinalityType
            <4> QED BY <3>2, <3>3, <4>1, <4>2, <4>3
        <3>5. /\ Cardinality(Active(w)') <= Cardinality(Active(w) \cup N)
              /\ Cardinality(Active(w)') \in Nat
            BY <3>1, <3>4, FS_Subset, FS_CardinalityType
        <3>6. asked[w] \in Nat /\ Cardinality(Active(w)) + asked[w] <= MaxConcurrent
            BY DEF IInv, TypeOK, CapacityInv
        <3>7. Cardinality(N) <= asked[w]
            BY <3>2, <3>6, NewDeliveries
        <3>8. Cardinality(Active(w)') <= MaxConcurrent
            BY <3>2, <3>3, <3>4, <3>5, <3>6, <3>7
        <3>9. phase'[w] = "loop"
            BY DEF IInv, TypeOK
        <3> QED BY <2>2, <3>8, <3>9 DEF CapacityInv
    <2> QED BY <2>1, <2>2
<1>7. AckedMeansHandled'
    BY <1>1 DEF IInv, AckedMeansHandled
<1>8. HeartbeatInTime' = HeartbeatInTime
    BY DEF HeartbeatInTime
<1> QED BY <1>4, <1>5, <1>6, <1>7, <1>8 DEF IInv

LEMMA ReceiveStep ==
    ASSUME IInv, NEW w \in Workers, NEW S \in SUBSET Receivable,
           EndReceive(w, S) \/ ReceiveFails(w, S)
    PROVE  IInv'
<1>1. /\ HandOut(S) /\ Cardinality(S) <= asked[w] /\ phase[w] = "receiving"
      /\ phase' = [phase EXCEPT ![w] = "loop"]
      /\ UNCHANGED <<running, asked, awaited, history>>
    BY DEF EndReceive, ReceiveFails, AfterReceiveError, tasks
<1>2. /\ UNCHANGED <<kind, state, completed, exposed>>
      /\ receives' \in [Msgs -> 0 .. MaxReceives] /\ left' \in [Msgs -> 0 .. VisibilityTimeout]
    <2>1. \A x \in S : receives[x] + 1 \in 0 .. MaxReceives
        BY NewDeliveries
    <2> QED BY <1>1, <2>1, RunnerAssumption DEF HandOut, history, IInv, TypeOK
<1>3. phase' \in [Workers -> {"off", "loop", "full", "receiving", "draining", "exited"}]
    BY <1>1 DEF IInv, TypeOK
<1>4. CASE EndReceive(w, S)
    <2>1. TypeOK'
        <3>1. faults' = faults
            BY <1>4 DEF EndReceive
        <3>2. /\ step' \in [Deliveries -> {"none", "run", "ack", "drop", "nack"}]
              /\ owner' \in [Deliveries -> Workers]
            BY <1>4 DEF EndReceive, IInv, TypeOK
        <3>3. beat' \in [Deliveries -> Nat]
            BY <1>4, IntervalFact DEF EndReceive, IInv, TypeOK
        <3> QED BY <1>1, <1>2, <1>3, <3>1, <3>2, <3>3 DEF IInv, TypeOK
    <2>2. \A d \in Deliveries :
              IF d \in Started(S)
              THEN /\ step'[d] = IF kind[d[1]] = "unknown" THEN "drop" ELSE "run"
                   /\ owner'[d] = w
                   /\ kind[d[1]] # "unknown" => beat'[d] = Interval
              ELSE step'[d] = step[d] /\ owner'[d] = owner[d] /\ beat'[d] = beat[d]
        BY <1>4 DEF EndReceive
    <2> QED BY <1>1, <2>1, <2>2, HandOutStep
<1>5. CASE ReceiveFails(w, S)
    <2>1. UNCHANGED <<step, owner, beat, awaited>> /\ faults' \in 0 .. MaxFaults
        BY <1>5, RunnerAssumption DEF ReceiveFails, tasks, Fault, IInv, TypeOK
    <2>2. TypeOK'
        BY <1>1, <1>2, <1>3, <2>1 DEF IInv, TypeOK
    <2> DEFINE N == {}
    <2>3. N \in SUBSET Started(S)
        OBVIOUS
    <2>4. \A d \in Deliveries :
              IF d \in N
              THEN /\ step'[d] = IF kind[d[1]] = "unknown" THEN "drop" ELSE "run"
                   /\ owner'[d] = w
                   /\ kind[d[1]] # "unknown" => beat'[d] = Interval
              ELSE step'[d] = step[d] /\ owner'[d] = owner[d] /\ beat'[d] = beat[d]
        BY <2>1
    <2> HIDE DEF N
    <2> QED BY <1>1, <2>2, <2>3, <2>4, HandOutStep
<1> QED BY <1>4, <1>5

(***************************************************************************)
(* A step that touches no more than step[d] and message d[1]: a handler    *)
(* ends, a call returns or fails.  Another delivery e of the same message  *)
(* can only be affected if it is leased too, and then it is d.             *)
(***************************************************************************)
LEMMA TaskMoves ==
    ASSUME IInv, NEW d \in Deliveries, step[d] = "run" \/ step[d] = "ack",
           NEW k \in {"ack", "drop", "nack"}, Goto(d, k),
           k = "ack" => d[1] \in completed', k = "drop" => kind[d[1]] = "invalid",
           completed \subseteq completed', completed' \subseteq Msgs,
           UNCHANGED <<queue, loop, owner, beat, awaited, exposed>>, faults' \in 0 .. MaxFaults
    PROVE  IInv'
<1>1. UNCHANGED <<kind, state, receives, left, phase, running, asked>>
    BY DEF queue, loop
<1>2. step'[d] = k /\ (\A e \in Deliveries : e # d => step'[e] = step[e])
    BY DEF Goto, IInv, TypeOK
<1>3. TypeOK'
    BY <1>1 DEF Goto, IInv, TypeOK
<1>4. ASSUME NEW e \in Deliveries PROVE TaskInv(e)'
    <2>1. TaskInv(e) /\ TaskInv(d)
        BY DEF IInv
    <2>2. CASE e = d
        BY <1>1, <1>2, <2>1, <2>2 DEF TaskInv
    <2>3. CASE e # d
        BY <1>1, <1>2, <2>1, <2>3 DEF TaskInv
    <2> QED BY <2>2, <2>3
<1>5. ASSUME HeartbeatInTime, NEW e \in Deliveries PROVE LeaseInv(e)'
    <2>1. LeaseInv(e) /\ (step'[e] # "none" => step[e] # "none")
        BY <1>2, <1>5 DEF IInv
    <2> QED BY <1>1, <2>1 DEF LeaseInv, Beating
<1>6. ASSUME NEW w \in Workers PROVE CapacityInv(w)'
    <2>1. Active(w)' \subseteq Active(w)
        BY <1>2 DEF Active
    <2> QED BY <1>1, <2>1, CapacityKeeps
<1>7. AckedMeansHandled'
    BY <1>1 DEF IInv, AckedMeansHandled
<1>8. HeartbeatInTime' = HeartbeatInTime
    BY DEF HeartbeatInTime
<1> QED BY <1>3, <1>4, <1>5, <1>6, <1>7, <1>8 DEF IInv

LEMMA HandlerStep ==
    ASSUME IInv, NEW d \in Deliveries,
           HandlerSucceeds(d) \/ HandlerFails(d) \/ HandlerRejects(d) \/ AckFails(d)
    PROVE  IInv'
<1>1. /\ d[1] \in Msgs /\ completed \subseteq Msgs
      /\ faults' \in 0 .. MaxFaults
    BY RunnerAssumption DEF Deliveries, IInv, TypeOK, HandlerSucceeds, HandlerFails, HandlerRejects,
                            AckFails, Fault
<1>2. CASE HandlerSucceeds(d)
    BY <1>1, <1>2, TaskMoves DEF HandlerSucceeds
<1>3. CASE HandlerFails(d)
    BY <1>1, <1>3, TaskMoves DEF HandlerFails, AfterFailure, history
<1>4. CASE HandlerRejects(d)
    BY <1>1, <1>4, TaskMoves DEF HandlerRejects, history
<1>5. CASE AckFails(d)
    BY <1>1, <1>5, TaskMoves DEF AckFails, history
<1> QED BY <1>2, <1>3, <1>4, <1>5

(* Two leased deliveries of one message are the same. *)
LEMMA LeaseIsUnique ==
    ASSUME IInv, HeartbeatInTime, NEW d \in Deliveries, NEW e \in Deliveries,
           d[1] = e[1], d[1] \notin exposed, Beating(d), Beating(e)
    PROVE  d = e
<1>1. LeaseInv(d) /\ LeaseInv(e)
    BY DEF IInv
<1>2. d[2] = e[2]
    BY <1>1 DEF LeaseInv
<1> QED BY <1>2 DEF Deliveries

(* The task of d settles; its message may be acked or become visible.       *)
LEMMA SettleStep ==
    ASSUME IInv, NEW d \in Deliveries, step[d] # "none", Settle(d),
           UNCHANGED <<kind, receives, history>>, faults' \in 0 .. MaxFaults,
           state' \in [Msgs -> {"unsent", "queued", "acked", "dead"}],
           left' \in [Msgs -> 0 .. VisibilityTimeout],
           \A x \in Msgs : x # d[1] => state'[x] = state[x] /\ left'[x] = left[x],
           state'[d[1]] = state[d[1]] \/ (state'[d[1]] = "acked" /\ step[d] \in {"ack", "drop"})
    PROVE  IInv'
<1>1. /\ UNCHANGED <<running, asked, owner, completed, exposed>>
      /\ step'[d] = "none" /\ (\A e \in Deliveries : e # d => step'[e] = step[e] /\ beat'[e] = beat[e])
      /\ \A w \in Workers : phase'[w] = "receiving" => phase[w] = "receiving"
    BY DEF Settle, Goto, IInv, TypeOK, history
<1>2. TypeOK'
    BY DEF Settle, Goto, IInv, TypeOK, history
<1>3. ASSUME NEW e \in Deliveries PROVE TaskInv(e)'
    <2>1. TaskInv(e) /\ e[1] \in Msgs
        BY DEF IInv, Deliveries
    <2>2. CASE e = d
        BY <1>1, <2>2 DEF TaskInv
    <2>3. CASE e # d
        <3>1. state'[e[1]] = "unsent" => state[e[1]] = "unsent"
            BY <2>1
        <3> QED BY <1>1, <2>1, <2>3, <3>1 DEF TaskInv
    <2> QED BY <2>2, <2>3
<1>4. ASSUME HeartbeatInTime, NEW e \in Deliveries PROVE LeaseInv(e)'
    <2> SUFFICES ASSUME e[1] \notin exposed, Beating(e)' PROVE LeaseInv(e)'
        BY <1>1 DEF LeaseInv
    <2>1. e # d /\ Beating(e) /\ LeaseInv(e) /\ e[1] \in Msgs
        BY <1>1, <1>4 DEF Beating, IInv, Deliveries
    <2>2. CASE e[1] = d[1]
        <3>1. Beating(d)
            BY <2>1, <2>2 DEF Beating
        <3> QED BY <1>4, <2>1, <2>2, <3>1, LeaseIsUnique
    <2>3. CASE e[1] # d[1]
        BY <1>1, <2>1, <2>3 DEF LeaseInv
    <2> QED BY <2>2, <2>3
<1>5. ASSUME NEW w \in Workers PROVE CapacityInv(w)'
    <2>1. Active(w)' \subseteq Active(w)
        BY <1>1 DEF Active
    <2> QED BY <1>1, <2>1, CapacityKeeps
<1>6. AckedMeansHandled'
    <2>1. step[d] = "ack" => d[1] \in completed
        BY DEF IInv, TaskInv
    <2>2. step[d] = "drop" => kind[d[1]] \in {"invalid", "unknown"}
        BY DEF IInv, TaskInv
    <2> QED BY <1>1, <2>1, <2>2 DEF IInv, AckedMeansHandled
<1>7. HeartbeatInTime' = HeartbeatInTime
    BY DEF HeartbeatInTime
<1> QED BY <1>2, <1>3, <1>4, <1>5, <1>6, <1>7 DEF IInv

(* A process is gone. *)
LEMMA VanishStep ==
    ASSUME IInv, NEW w \in Workers, NEW how \in {"off", "exited"}, Vanish(w, how),
           faults' \in 0 .. MaxFaults
    PROVE  IInv'
<1>1. /\ UNCHANGED <<kind, state, receives, left, asked, owner, completed, exposed>>
      /\ \A v \in Workers : phase'[v] = "receiving" => phase[v] = "receiving"
      /\ \A e \in Deliveries : \/ step'[e] = "none"
                               \/ step'[e] = step[e] /\ beat'[e] = beat[e]
    BY DEF Vanish, IInv, TypeOK, queue, history
<1>2. TypeOK'
    <2>1. awaited' \subseteq Deliveries
        BY DEF Vanish, IInv, TypeOK
    <2> QED BY <1>1, <2>1 DEF Vanish, IInv, TypeOK
<1>3. \A e \in Deliveries : TaskInv(e)'
    BY <1>1 DEF IInv, TaskInv
<1>4. HeartbeatInTime => \A e \in Deliveries : LeaseInv(e)'
    BY <1>1 DEF IInv, LeaseInv, Beating
<1>5. ASSUME NEW v \in Workers PROVE CapacityInv(v)'
    <2>1. Active(v)' \subseteq Active(v)
        BY <1>1 DEF Active
    <2> QED BY <1>1, <2>1, CapacityKeeps
<1>6. AckedMeansHandled'
    BY <1>1 DEF IInv, AckedMeansHandled
<1>7. HeartbeatInTime' = HeartbeatInTime
    BY DEF HeartbeatInTime
<1> QED BY <1>2, <1>3, <1>4, <1>5, <1>6, <1>7 DEF IInv

LEMMA CallStep ==
    ASSUME IInv, NEW d \in Deliveries,
           \/ \E obeyed \in BOOLEAN : Ack(d, obeyed) \/ Nack(d, obeyed)
           \/ NackFails(d) \/ DropFails(d)
    PROVE  IInv'
<1> USE RunnerAssumption
<1>0. d[1] \in Msgs /\ owner[d] \in Workers
    BY DEF IInv, TypeOK, Deliveries
<1>1. ASSUME NEW obeyed \in BOOLEAN, Ack(d, obeyed) PROVE IInv'
    <2>1. /\ step[d] \in {"ack", "drop"} /\ Settle(d) /\ UNCHANGED <<kind, receives, left, history, faults>>
          /\ state' = [state EXCEPT ![d[1]] = IF Obeyed(d, obeyed) THEN "acked" ELSE @]
        BY <1>1 DEF Ack
    <2>2. /\ state' \in [Msgs -> {"unsent", "queued", "acked", "dead"}]
          /\ left' \in [Msgs -> 0 .. VisibilityTimeout] /\ faults' \in 0 .. MaxFaults
          /\ \A x \in Msgs : x # d[1] => state'[x] = state[x] /\ left'[x] = left[x]
          /\ state'[d[1]] = state[d[1]] \/ state'[d[1]] = "acked"
        BY <1>0, <2>1 DEF IInv, TypeOK
    <2>3. step[d] # "none"
        BY <2>1
    <2> QED BY <2>1, <2>2, <2>3, SettleStep
<1>2. ASSUME NEW obeyed \in BOOLEAN, Nack(d, obeyed) PROVE IInv'
    <2>1. /\ step[d] # "none" /\ Settle(d) /\ UNCHANGED <<kind, state, receives, history, faults>>
          /\ left' = [left EXCEPT ![d[1]] = IF Obeyed(d, obeyed) THEN 0 ELSE @]
        BY <1>2 DEF Nack
    <2>2. /\ state' \in [Msgs -> {"unsent", "queued", "acked", "dead"}]
          /\ left' \in [Msgs -> 0 .. VisibilityTimeout] /\ faults' \in 0 .. MaxFaults
          /\ \A x \in Msgs : x # d[1] => state'[x] = state[x] /\ left'[x] = left[x]
          /\ state'[d[1]] = state[d[1]]
        BY <1>0, <2>1 DEF IInv, TypeOK
    <2> QED BY <2>1, <2>2, SettleStep
<1>3. ASSUME step[d] # "none", Settle(d), UNCHANGED <<queue, history>>, faults' \in 0 .. MaxFaults
      PROVE  IInv'
    <2>1. /\ UNCHANGED <<kind, state, receives, left>>
          /\ state' \in [Msgs -> {"unsent", "queued", "acked", "dead"}]
          /\ left' \in [Msgs -> 0 .. VisibilityTimeout]
        BY <1>3 DEF queue, IInv, TypeOK
    <2> QED BY <1>3, <2>1, SettleStep
<1>4. NackFails(d) \/ DropFails(d) => faults' \in 0 .. MaxFaults
    BY DEF NackFails, DropFails, Fault, IInv, TypeOK
<1>5. CASE NackFails(d)
    BY <1>3, <1>4, <1>5 DEF NackFails
<1>6. CASE DropFails(d)
    <2>1. \/ step[d] # "none" /\ Settle(d) /\ UNCHANGED <<queue, history>>
          \/ Vanish(owner[d], "off")
        BY <1>6 DEF DropFails
    <2> QED BY <1>0, <1>3, <1>4, <1>6, <2>1, VanishStep
<1> QED BY <1>1, <1>2, <1>5, <1>6

LEMMA EndStep ==
    ASSUME IInv, NEW w \in Workers, Exit(w) \/ Kill(w)
    PROVE  IInv'
<1>1. faults' \in 0 .. MaxFaults
    BY RunnerAssumption DEF Exit, Kill, Fault, IInv, TypeOK
<1> QED BY <1>1, VanishStep DEF Exit, Kill

(***************************************************************************)
(* The timers.                                                             *)
(***************************************************************************)
LEMMA HeartbeatStep ==
    ASSUME IInv, NEW d \in Deliveries,
           HeartbeatFails(d) \/ \E obeyed \in BOOLEAN : Heartbeat(d, obeyed)
    PROVE  IInv'
<1> USE RunnerAssumption
<1>1. /\ UNCHANGED <<kind, state, receives, loop, step, owner, awaited, completed>>
      /\ Beating(d) /\ beat[d] = 0 /\ beat' = [beat EXCEPT ![d] = Interval]
    BY DEF HeartbeatFails, Heartbeat, queue, history
<1>2. UNCHANGED <<phase, running, asked>> /\ d[1] \in Msgs
    BY <1>1 DEF loop, Deliveries
<1>3. /\ left' \in [Msgs -> 0 .. VisibilityTimeout]
      /\ \A x \in Msgs : left'[x] = left[x] \/ (x = d[1] /\ left'[x] = VisibilityTimeout)
      /\ faults' \in 0 .. MaxFaults
      /\ exposed' \subseteq Msgs /\ exposed \subseteq exposed'
    <2>1. CASE HeartbeatFails(d)
        BY <1>2, <2>1 DEF HeartbeatFails, Fault, IInv, TypeOK, queue
    <2>2. ASSUME NEW obeyed \in BOOLEAN, Heartbeat(d, obeyed)
          PROVE  /\ left' \in [Msgs -> 0 .. VisibilityTimeout]
                 /\ \A x \in Msgs : left'[x] = left[x] \/ (x = d[1] /\ left'[x] = VisibilityTimeout)
                 /\ UNCHANGED <<exposed, faults>>
        BY <1>2, <2>2 DEF Heartbeat, IInv, TypeOK, history
    <2>3. faults \in 0 .. MaxFaults /\ exposed \subseteq Msgs
        BY DEF IInv, TypeOK
    <2> QED BY <2>1, <2>2, <2>3
<1>4. TypeOK'
    BY <1>1, <1>2, <1>3, IntervalFact DEF IInv, TypeOK
<1>5. \A e \in Deliveries : TaskInv(e)'
    BY <1>1 DEF IInv, TaskInv
<1>6. ASSUME HeartbeatInTime, NEW e \in Deliveries PROVE LeaseInv(e)'
    <2> SUFFICES ASSUME e[1] \notin exposed', Beating(e)' PROVE LeaseInv(e)'
        BY DEF LeaseInv
    <2>2. Beating(e) /\ e[1] \notin exposed /\ LeaseInv(e) /\ LeaseInv(d) /\ e[1] \in Msgs
        BY <1>1, <1>3, <1>6 DEF Beating, IInv, Deliveries
    <2>3. CASE e = d
        <3>1. /\ state[d[1]] = "queued" /\ d[2] = receives[d[1]] /\ left[d[1]] > 0
            BY <1>1, <2>2, <2>3 DEF LeaseInv
        <3>2. PICK obeyed \in BOOLEAN : Heartbeat(d, obeyed)
            BY <2>3 DEF HeartbeatFails
        <3>3. Obeyed(d, obeyed)
            BY <3>1, <3>2 DEF Heartbeat, MayObey, Current, Obeyed
        <3>4. left'[d[1]] = VisibilityTimeout /\ beat'[d] = Interval
            BY <1>1, <1>2, <3>2, <3>3 DEF Heartbeat, IInv, TypeOK
        <3> QED BY <1>1, <1>6, <2>3, <3>1, <3>4, IntervalFact DEF LeaseInv
    <2>4. CASE e # d
        <3>1. e[1] # d[1]
            BY <1>1, <1>6, <2>2, <2>4, LeaseIsUnique
        <3>2. left'[e[1]] = left[e[1]] /\ beat'[e] = beat[e]
            BY <1>1, <1>3, <2>2, <2>4, <3>1 DEF IInv, TypeOK
        <3> QED BY <1>1, <2>2, <3>2 DEF LeaseInv
    <2> QED BY <2>3, <2>4
<1>7. ASSUME NEW w \in Workers PROVE CapacityInv(w)'
    <2>1. Active(w)' = Active(w)
        BY <1>1 DEF Active
    <2> QED BY <1>2, <2>1, CapacityKeeps
<1>8. AckedMeansHandled'
    BY <1>1 DEF IInv, AckedMeansHandled
<1>9. HeartbeatInTime' = HeartbeatInTime
    BY DEF HeartbeatInTime
<1> QED BY <1>4, <1>5, <1>6, <1>7, <1>8, <1>9 DEF IInv

LEMMA TickStep ==
    ASSUME IInv, Tick
    PROVE  IInv'
<1> USE RunnerAssumption
<1>1. /\ UNCHANGED <<kind, state, receives, loop, step, owner, awaited, history, faults>>
      /\ left' = [x \in Msgs |-> Less(left[x])]
      /\ beat' = [d \in Deliveries |-> IF Beating(d) THEN beat[d] - 1 ELSE beat[d]]
      /\ \A d \in Deliveries : Beating(d) => beat[d] > 0
    BY DEF Tick
<1>2. UNCHANGED <<phase, running, asked, completed, exposed>>
    BY <1>1 DEF loop, history
<1>3. TypeOK'
    <2>1. left' \in [Msgs -> 0 .. VisibilityTimeout]
        BY <1>1 DEF IInv, TypeOK, Less
    <2>2. beat' \in [Deliveries -> Nat]
        BY <1>1 DEF IInv, TypeOK
    <2> QED BY <1>1, <1>2, <2>1, <2>2 DEF IInv, TypeOK
<1>4. \A d \in Deliveries : TaskInv(d)'
    BY <1>1, <1>2 DEF IInv, TaskInv
<1>5. ASSUME HeartbeatInTime, NEW d \in Deliveries PROVE LeaseInv(d)'
    <2>1. d[1] \in Msgs /\ left[d[1]] \in Nat /\ beat[d] \in Nat /\ LeaseInv(d)
        BY <1>5 DEF IInv, TypeOK, Deliveries
    <2>2. left'[d[1]] = Less(left[d[1]]) /\ (Beating(d) => beat'[d] = beat[d] - 1 /\ beat[d] > 0)
        BY <1>1, <2>1
    <2> QED BY <1>1, <1>2, <2>1, <2>2 DEF LeaseInv, Beating, Less
<1>6. ASSUME NEW w \in Workers PROVE CapacityInv(w)'
    <2>1. Active(w)' = Active(w)
        BY <1>1 DEF Active
    <2> QED BY <1>2, <2>1, CapacityKeeps
<1>7. AckedMeansHandled'
    BY <1>1, <1>2 DEF IInv, AckedMeansHandled
<1>8. HeartbeatInTime' = HeartbeatInTime
    BY DEF HeartbeatInTime
<1> QED BY <1>3, <1>4, <1>5, <1>6, <1>7, <1>8 DEF IInv

LEMMA InitIInv == Init => IInv
<1> SUFFICES ASSUME Init PROVE IInv
    OBVIOUS
<1> USE RunnerAssumption
<1>1. TypeOK
    <2>1. (CHOOSE w \in Workers : TRUE) \in Workers
        OBVIOUS
    <2>2. owner \in [Deliveries -> Workers]
        BY <2>1 DEF Init
    <2>3. /\ kind \in [Msgs -> Kinds] /\ receives \in [Msgs -> 0 .. MaxReceives]
          /\ left \in [Msgs -> 0 .. VisibilityTimeout] /\ asked \in [Workers -> 0 .. MaxConcurrent]
          /\ beat \in [Deliveries -> Nat] /\ faults \in 0 .. MaxFaults
        BY DEF Init, Kinds
    <2>4. /\ awaited \subseteq Deliveries /\ completed \subseteq Msgs /\ exposed \subseteq Msgs
          /\ step \in [Deliveries -> {"none", "run", "ack", "drop", "nack"}]
        BY DEF Init
    <2>5. /\ state \in [Msgs -> {"unsent", "queued", "acked", "dead"}]
          /\ phase \in [Workers -> {"off", "loop", "full", "receiving", "draining", "exited"}]
          /\ running \in [Workers -> BOOLEAN]
        BY DEF Init
    <2> QED BY <2>2, <2>3, <2>4, <2>5 DEF TypeOK
<1>2. \A d \in Deliveries : TaskInv(d) /\ LeaseInv(d)
    BY DEF Init, TaskInv, LeaseInv, Beating
<1>3. \A w \in Workers : CapacityInv(w)
    <2>1. \A w \in Workers : Active(w) = {}
        BY DEF Init, Active
    <2> QED BY <2>1, FS_EmptySet DEF Init, CapacityInv
<1>4. AckedMeansHandled
    BY DEF Init, AckedMeansHandled
<1> QED BY <1>1, <1>2, <1>3, <1>4 DEF IInv

LEMMA NextIInv == IInv /\ [Next]_vars => IInv'
<1> SUFFICES ASSUME IInv, [Next]_vars PROVE IInv'
    OBVIOUS
<1>1. ASSUME NEW x \in Msgs, Redrive(x) \/ Reappears(x) \/ \E k \in Kinds : Enqueue(x, k)
      PROVE  IInv'
    BY <1>1, SqsStep, ReappearsStep
<1>2. ASSUME NEW w \in Workers,
             Boot(w) \/ WaitForSlot(w) \/ BeginReceive(w) \/ LeaveLoop(w) \/ Stop(w)
      PROVE  IInv'
    BY <1>2, LoopMoves
<1>3. ASSUME NEW w \in Workers, NEW S \in SUBSET Receivable,
             EndReceive(w, S) \/ ReceiveFails(w, S)
      PROVE  IInv'
    BY <1>3, ReceiveStep
<1>4. ASSUME NEW w \in Workers, Exit(w) \/ Kill(w) PROVE IInv'
    BY <1>4, EndStep
<1>5. ASSUME NEW d \in Deliveries,
             \/ TaskStep(d)
             \/ AckFails(d) \/ NackFails(d) \/ DropFails(d) \/ HeartbeatFails(d)
             \/ \E obeyed \in BOOLEAN : Heartbeat(d, obeyed)
      PROVE  IInv'
    BY <1>5, HandlerStep, CallStep, HeartbeatStep DEF TaskStep
<1>6. CASE Tick
    BY <1>6, TickStep
<1>7. CASE UNCHANGED vars
    <2>1. UNCHANGED <<kind, state, receives, left, phase, running, asked, step, owner, beat,
                      awaited, completed, exposed, faults>>
        BY <1>7 DEF vars, queue, loop, tasks, history
    <2>2. ASSUME NEW w \in Workers PROVE CapacityInv(w)'
        <3>1. Active(w)' = Active(w)
            BY <2>1 DEF Active
        <3> QED BY <2>1, <3>1, CapacityKeeps
    <2>3. TypeOK' /\ AckedMeansHandled'
        BY <2>1 DEF IInv, TypeOK, AckedMeansHandled
    <2>4. (\A d \in Deliveries : TaskInv(d)')
          /\ (HeartbeatInTime => \A d \in Deliveries : LeaseInv(d)')
        BY <2>1 DEF IInv, TaskInv, LeaseInv, Beating
    <2>5. HeartbeatInTime' = HeartbeatInTime
        BY DEF HeartbeatInTime
    <2> QED BY <2>2, <2>3, <2>4, <2>5 DEF IInv
<1> QED BY <1>1, <1>2, <1>3, <1>4, <1>5, <1>6, <1>7 DEF Next, LoopStep

-----------------------------------------------------------------------------
(* The inductive invariant holds in every behaviour of the workers.         *)
THEOREM Invariance == Spec => []IInv
BY InitIInv, NextIInv, PTL DEF Spec

(* Type correctness: in particular no message is delivered more often than  *)
(* the redrive policy allows.                                               *)
THEOREM TypeCorrect == Spec => []TypeOK
<1>1. IInv => TypeOK
    BY DEF IInv
<1> QED BY <1>1, Invariance, PTL

(* start never runs more than maxConcurrent jobs, although it computes the  *)
(* free capacity before it awaits receive.                                  *)
THEOREM CapacityHolds == Spec => []WithinCapacity
<1>1. IInv => WithinCapacity
    BY DEF IInv, CapacityInv, WithinCapacity
<1> QED BY <1>1, Invariance, PTL

(* process acks only what its handler has finished or what it drops.        *)
THEOREM AckIsEarned == Spec => []AckedMeansHandled
<1>1. IInv => AckedMeansHandled
    BY DEF IInv
<1> QED BY <1>1, Invariance, PTL

(* If the visibility timeout is longer than the minimal heartbeat interval  *)
(* (30 s), the heartbeat of process keeps a job to one run at a time unless *)
(* SQS itself duplicates it or a heartbeat call of that very job fails.     *)
THEOREM HeartbeatExcludes == Spec => [](HeartbeatInTime => OneRunPerJob)
<1>1. IInv => (HeartbeatInTime => OneRunPerJob)
    BY LeaseIsUnique DEF OneRunPerJob
<1> QED BY <1>1, Invariance, PTL
=============================================================================
