----------------------------- MODULE JobRunner -----------------------------
(***************************************************************************)
(* The worker: JobRunner's poll loop, process with its heartbeat, and the  *)
(* shutdown in worker.ts, over a queue that behaves as SQS does behind     *)
(* SqsQueue.  What a handler does is the business of other modules; here   *)
(* it runs for any time and then succeeds, fails or rejects its job.       *)
(*                                                                         *)
(* Time is counted down: left is what remains of a message's visibility    *)
(* timeout (0: it can be received), beat what remains to a task's next     *)
(* heartbeat.  Timers fire on time; handlers and calls take any time.      *)
(***************************************************************************)
EXTENDS Naturals, FiniteSets

CONSTANTS Workers,
          Msgs,
          MaxConcurrent,
          BatchLimit,        \* the ten messages of a receive
          VisibilityTimeout,
          MinInterval,       \* the 30 s below which no heartbeat is scheduled
          MaxReceives,       \* the redrive policy's maxReceiveCount
          MaxFaults          \* bound: failed calls, crashes, shutdowns and duplicates

(* A job that can be done; one whose handler always throws; one it declares *)
(* unprocessable; one of a type without handler; a body that is no job.     *)
Kinds == {"good", "poison", "invalid", "unknown", "garbled"}

ASSUME RunnerAssumption ==
    /\ Workers # {}
    /\ IsFiniteSet(Msgs)
    /\ MaxConcurrent \in Nat \ {0}
    /\ BatchLimit \in Nat \ {0}
    /\ VisibilityTimeout \in Nat \ {0}
    /\ MinInterval \in Nat \ {0}
    /\ MaxReceives \in Nat \ {0}
    /\ MaxFaults \in Nat

VARIABLES kind, state, receives, left,   \* the queue, per message
          phase, running, asked,   \* the poll loop of each worker
          step, owner, beat,       \* process, per delivery
          awaited,                 \* deliveries whose promise has a handler
          completed,               \* history: messages whose handler succeeded
          exposed,                 \* history: see Reappears and HeartbeatFails
          faults

queue == <<kind, state, receives, left>>
loop == <<phase, running, asked>>
tasks == <<step, owner, beat, awaited>>
history == <<completed, exposed>>
vars == <<queue, loop, tasks, history, faults>>

(* The n-th delivery of message x is <<x, n>>, which is also its receipt.   *)
Deliveries == Msgs \X (1 .. MaxReceives)

TypeOK ==
    /\ kind \in [Msgs -> Kinds]
    /\ state \in [Msgs -> {"unsent", "queued", "acked", "dead"}]
    /\ receives \in [Msgs -> 0 .. MaxReceives]
    /\ left \in [Msgs -> 0 .. VisibilityTimeout]
    /\ phase \in [Workers -> {"off", "loop", "full", "receiving", "draining", "exited"}]
    /\ running \in [Workers -> BOOLEAN]
    /\ asked \in [Workers -> 0 .. MaxConcurrent]
    /\ step \in [Deliveries -> {"none", "run", "ack", "drop", "nack"}]
    /\ owner \in [Deliveries -> Workers]
    /\ beat \in [Deliveries -> Nat]
    /\ awaited \subseteq Deliveries
    /\ completed \subseteq Msgs
    /\ exposed \subseteq Msgs
    /\ faults \in 0 .. MaxFaults

Init ==
    /\ kind = [x \in Msgs |-> "good"]
    /\ state = [x \in Msgs |-> "unsent"]
    /\ receives = [x \in Msgs |-> 0]
    /\ left = [x \in Msgs |-> 0]
    /\ phase = [w \in Workers |-> "off"]
    /\ running = [w \in Workers |-> FALSE]
    /\ asked = [w \in Workers |-> 0]
    /\ step = [d \in Deliveries |-> "none"]
    /\ owner = [d \in Deliveries |-> CHOOSE w \in Workers : TRUE]
    /\ beat = [d \in Deliveries |-> 0]
    /\ awaited = {}
    /\ completed = {}
    /\ exposed = {}
    /\ faults = 0

Smaller(a, b) == IF a <= b THEN a ELSE b
Larger(a, b) == IF a >= b THEN a ELSE b

IntervalIsTimeout == Larger(VisibilityTimeout, MinInterval)    \* mutant
Interval == Larger(VisibilityTimeout \div 2, MinInterval)

Up(w) == phase[w] \notin {"off", "exited"}
Active(w) == {d \in Deliveries : step[d] # "none" /\ owner[d] = w}
Fault ==
    /\ faults < MaxFaults
    /\ faults' = faults + 1

-----------------------------------------------------------------------------
(***************************************************************************)
(* SQS.  A message that was received too often is parked when it would be  *)
(* received again.                                                         *)
(***************************************************************************)
Enqueue(x, k) ==
    /\ state[x] = "unsent"
    /\ kind' = [kind EXCEPT ![x] = k]
    /\ state' = [state EXCEPT ![x] = "queued"]
    /\ UNCHANGED <<receives, left, loop, tasks, history, faults>>

Exhausted(x) == receives[x] >= MaxReceives

Receivable == {x \in Msgs : state[x] = "queued" /\ left[x] = 0 /\ ~Exhausted(x)}

Redrive(x) ==
    /\ state[x] = "queued" /\ left[x] = 0 /\ Exhausted(x)
    /\ state' = [state EXCEPT ![x] = "dead"]
    /\ UNCHANGED <<kind, receives, left, loop, tasks, history, faults>>

(* Delivery is at-least-once: "A message can be handed out twice even when  *)
(* nothing failed" (SqsQueue.ts:24-25).  A hidden message can be received   *)
(* although its timeout has not run out, or a deleted one is back.          *)
Reappears(x) ==
    /\ Fault
    /\ state[x] = "acked" \/ (state[x] = "queued" /\ left[x] > 0)
    /\ state' = [state EXCEPT ![x] = "queued"]
    /\ left' = [left EXCEPT ![x] = 0]
    /\ exposed' = exposed \cup {x}
    /\ UNCHANGED <<kind, receives, loop, tasks, completed>>

(* The messages of S are handed out: hidden, and counted.                   *)
HandOut(S) ==
    /\ receives' = [x \in Msgs |-> IF x \in S THEN receives[x] + 1 ELSE receives[x]]
    /\ left' = [x \in Msgs |-> IF x \in S THEN VisibilityTimeout ELSE left[x]]
    /\ UNCHANGED <<kind, state>>

-----------------------------------------------------------------------------
(***************************************************************************)
(* JobRunner.start.  The restart policy of the container starts a worker   *)
(* again after it has ended.                                               *)
(***************************************************************************)
Boot(w) ==
    /\ ~Up(w)
    /\ phase' = [phase EXCEPT ![w] = "loop"]
    /\ running' = [running EXCEPT ![w] = TRUE]
    /\ UNCHANGED <<queue, asked, tasks, history, faults>>

(* At capacity: await Promise.race(this.active).                            *)
WaitForSlot(w) ==
    /\ phase[w] = "loop" /\ running[w]
    /\ Cardinality(Active(w)) >= MaxConcurrent
    /\ phase' = [phase EXCEPT ![w] = "full"]
    /\ awaited' = awaited \cup Active(w)
    /\ UNCHANGED <<queue, running, asked, step, owner, beat, history, faults>>

(* receive is called with the capacity of this moment; it returns later.    *)
WantedIgnoringActive(w) == Smaller(MaxConcurrent, BatchLimit)    \* mutant
Wanted(w) == Smaller(MaxConcurrent - Cardinality(Active(w)), BatchLimit)

BeginReceive(w) ==
    /\ phase[w] = "loop" /\ running[w]
    /\ Cardinality(Active(w)) < MaxConcurrent
    /\ phase' = [phase EXCEPT ![w] = "receiving"]
    /\ asked' = [asked EXCEPT ![w] = Wanted(w)]
    /\ UNCHANGED <<queue, running, tasks, history, faults>>

(* Messages arrive, perhaps none, also after stop.  A body that is no job   *)
(* is left alone; a job of unknown type goes straight to its ack, without a *)
(* heartbeat.                                                               *)
Started(S) == {<<x, receives[x] + 1>> : x \in {y \in S : kind[y] # "garbled"}}

EndReceive(w, S) ==
    /\ phase[w] = "receiving"
    /\ S \subseteq Receivable /\ Cardinality(S) <= asked[w]
    /\ HandOut(S)
    /\ step' = [d \in Deliveries |-> IF d \in Started(S)
                                     THEN IF kind[d[1]] = "unknown" THEN "drop" ELSE "run"
                                     ELSE step[d]]
    /\ owner' = [d \in Deliveries |-> IF d \in Started(S) THEN w ELSE owner[d]]
    /\ beat' = [d \in Deliveries |-> IF d \in Started(S) /\ kind[d[1]] # "unknown"
                                     THEN Interval ELSE beat[d]]
    /\ phase' = [phase EXCEPT ![w] = "loop"]
    /\ UNCHANGED <<running, asked, awaited, history, faults>>

(* The call fails, perhaps only after SQS has handed messages out.          *)
LoopEnds == "draining"    \* mutant: the error ends the loop
AfterReceiveError == "loop"

ReceiveFails(w, S) ==
    /\ Fault
    /\ phase[w] = "receiving"
    /\ S \subseteq Receivable /\ Cardinality(S) <= asked[w]
    /\ HandOut(S)
    /\ phase' = [phase EXCEPT ![w] = AfterReceiveError]
    /\ UNCHANGED <<running, asked, tasks, history>>

(* The loop is left once running is false: await Promise.allSettled.        *)
LeaveLoop(w) ==
    /\ phase[w] = "loop" /\ ~running[w]
    /\ phase' = [phase EXCEPT ![w] = "draining"]
    /\ awaited' = awaited \cup Active(w)
    /\ UNCHANGED <<queue, running, asked, step, owner, beat, history, faults>>

-----------------------------------------------------------------------------
(***************************************************************************)
(* JobRunner.process.                                                      *)
(***************************************************************************)
Goto(d, next) == step' = [step EXCEPT ![d] = next]

(* The task settles: its timer is cleared, it leaves active, and a loop     *)
(* waiting for a slot goes on.                                              *)
Settle(d) ==
    /\ Goto(d, "none")
    /\ beat' = [beat EXCEPT ![d] = 0]
    /\ awaited' = awaited \ {d}
    /\ phase' = [phase EXCEPT ![owner[d]] = IF @ = "full" THEN "loop" ELSE @]
    /\ UNCHANGED <<running, asked, owner>>

HandlerSucceeds(d) ==
    /\ step[d] = "run" /\ kind[d[1]] = "good"
    /\ completed' = completed \cup {d[1]}
    /\ Goto(d, "ack")
    /\ UNCHANGED <<queue, loop, owner, beat, awaited, exposed, faults>>

(* A failure is nacked, so that it counts towards the redrive limit.        *)
FailureAcked == "ack"    \* mutant: the catch block falls through to the ack
AfterFailure == "nack"

HandlerFails(d) ==
    /\ step[d] = "run"
    /\ \/ kind[d[1]] = "poison" /\ UNCHANGED faults
       \/ kind[d[1]] = "good" /\ Fault
    /\ Goto(d, AfterFailure)
    /\ UNCHANGED <<queue, loop, owner, beat, awaited, history>>

HandlerRejects(d) ==
    /\ step[d] = "run" /\ kind[d[1]] = "invalid"
    /\ Goto(d, "drop")
    /\ UNCHANGED <<queue, loop, owner, beat, awaited, history, faults>>

(* With the receipt of an earlier delivery, or of one whose timeout has run *)
(* out, SQS may or may not act.                                             *)
Current(d) == receives[d[1]] = d[2] /\ left[d[1]] > 0
MayObey(d, obeyed) == Current(d) => obeyed
Obeyed(d, obeyed) == obeyed /\ state[d[1]] = "queued"

Ack(d, obeyed) ==
    /\ step[d] \in {"ack", "drop"}
    /\ MayObey(d, obeyed)
    /\ state' = [state EXCEPT ![d[1]] = IF Obeyed(d, obeyed) THEN "acked" ELSE @]
    /\ Settle(d)
    /\ UNCHANGED <<kind, receives, left, history, faults>>

Nack(d, obeyed) ==
    /\ step[d] = "nack"
    /\ MayObey(d, obeyed)
    /\ left' = [left EXCEPT ![d[1]] = IF Obeyed(d, obeyed) THEN 0 ELSE @]
    /\ Settle(d)
    /\ UNCHANGED <<kind, state, receives, history, faults>>

(* A failed ack of a finished job is caught and ends in a nack.             *)
AckFails(d) ==
    /\ Fault
    /\ step[d] = "ack"
    /\ Goto(d, "nack")
    /\ UNCHANGED <<queue, loop, owner, beat, awaited, history>>

NackFails(d) ==
    /\ Fault
    /\ step[d] = "nack"
    /\ Settle(d)
    /\ UNCHANGED <<queue, history>>

(* The process is gone, and with it every task.                             *)
Vanish(w, how) ==
    /\ phase' = [phase EXCEPT ![w] = how]
    /\ running' = [running EXCEPT ![w] = FALSE]
    /\ step' = [d \in Deliveries |-> IF owner[d] = w THEN "none" ELSE step[d]]
    /\ beat' = [d \in Deliveries |-> IF owner[d] = w THEN 0 ELSE beat[d]]
    /\ awaited' = awaited \ Active(w)
    /\ UNCHANGED <<queue, asked, owner, history>>

(* The ack of a dropped job is outside the try block: when it fails, process *)
(* rejects.  If nothing awaits that promise the rejection is unhandled, and *)
(* if the loop is in Promise.race, start rejects: both end the process.  A  *)
(* promise that was awaited earlier is settled silently.                    *)
Handled(d) == d \in awaited /\ phase[owner[d]] # "full"

DropFails(d) ==
    /\ Fault
    /\ step[d] = "drop"
    /\ \/ Handled(d) /\ Settle(d) /\ UNCHANGED <<queue, history>>
       \/ ~Handled(d) /\ Vanish(owner[d], "off")

(* setInterval: extendVisibility while the handler, ack or nack is under    *)
(* way.  A failed call is only logged.                                      *)
Beating(d) == step[d] # "none" /\ kind[d[1]] # "unknown"

Heartbeat(d, obeyed) ==
    /\ Beating(d) /\ beat[d] = 0
    /\ MayObey(d, obeyed)
    /\ left' = [left EXCEPT ![d[1]] = IF Obeyed(d, obeyed) THEN VisibilityTimeout ELSE @]
    /\ beat' = [beat EXCEPT ![d] = Interval]
    /\ UNCHANGED <<kind, state, receives, loop, step, owner, awaited, history, faults>>

HeartbeatFails(d) ==
    /\ Fault
    /\ Beating(d) /\ beat[d] = 0
    /\ exposed' = exposed \cup {d[1]}
    /\ beat' = [beat EXCEPT ![d] = Interval]
    /\ UNCHANGED <<queue, loop, step, owner, awaited, completed>>

(* A unit of time passes; no timer is overdue.                              *)
Less(n) == IF n = 0 THEN 0 ELSE n - 1

Tick ==
    /\ \A d \in Deliveries : Beating(d) => beat[d] > 0
    /\ left' = [x \in Msgs |-> Less(left[x])]
    /\ beat' = [d \in Deliveries |-> IF Beating(d) THEN beat[d] - 1 ELSE beat[d]]
    /\ UNCHANGED <<kind, state, receives, loop, step, owner, awaited, history, faults>>

-----------------------------------------------------------------------------
(***************************************************************************)
(* shutdown in worker.ts: stop only clears running, and the process exits  *)
(* as soon as the queue and the database are closed.                       *)
(***************************************************************************)
Stop(w) ==
    /\ Fault
    /\ Up(w) /\ running[w]
    /\ running' = [running EXCEPT ![w] = FALSE]
    /\ UNCHANGED <<queue, phase, asked, tasks, history>>

Exit(w) ==
    /\ Up(w) /\ ~running[w]
    /\ Vanish(w, "exited")
    /\ UNCHANGED faults

Kill(w) ==
    /\ Fault
    /\ Up(w)
    /\ Vanish(w, "off")

LoopStep(w) ==
    \/ Boot(w) \/ WaitForSlot(w) \/ BeginReceive(w) \/ LeaveLoop(w) \/ Exit(w)
    \/ \E S \in SUBSET Receivable : EndReceive(w, S)

TaskStep(d) ==
    \/ HandlerSucceeds(d) \/ HandlerFails(d) \/ HandlerRejects(d)
    \/ \E obeyed \in BOOLEAN : Ack(d, obeyed) \/ Nack(d, obeyed)

Next ==
    \/ \E x \in Msgs : Redrive(x) \/ Reappears(x) \/ \E k \in Kinds : Enqueue(x, k)
    \/ \E w \in Workers : \/ LoopStep(w) \/ Stop(w) \/ Kill(w)
                          \/ \E S \in SUBSET Receivable : ReceiveFails(w, S)
    \/ \E d \in Deliveries :
          \/ TaskStep(d)
          \/ AckFails(d) \/ NackFails(d) \/ DropFails(d) \/ HeartbeatFails(d)
          \/ \E obeyed \in BOOLEAN : Heartbeat(d, obeyed)
    \/ Tick

Spec == Init /\ [][Next]_vars

(***************************************************************************)
(* Fairness: a live worker keeps executing and is restarted when it ends,  *)
(* handlers and timers run to their end, time passes, and SQS hands out a  *)
(* message that can be received while it is asked for messages.            *)
(***************************************************************************)
FairSpec ==
    /\ Spec
    /\ \A w \in Workers : WF_vars(LoopStep(w))
    /\ \A d \in Deliveries : /\ WF_vars(TaskStep(d))
                             /\ WF_vars(\E obeyed \in BOOLEAN : Heartbeat(d, obeyed))
    /\ \A x \in Msgs :
          /\ WF_vars(Redrive(x))
          /\ SF_vars(\E w \in Workers : \E S \in SUBSET Receivable : x \in S /\ EndReceive(w, S))
    /\ WF_vars(Tick)

-----------------------------------------------------------------------------
(* "do not pull more work than there is capacity to run" (JobRunner.ts:93): *)
(* the capacity is read before the receive is awaited, and still no more    *)
(* than MaxConcurrent jobs are ever active in a worker.                     *)
WithinCapacity == \A w \in Workers : Cardinality(Active(w)) <= MaxConcurrent

(* Without the heartbeat "a second worker would start the same sync         *)
(* concurrently" (JobRunner.ts:56-58).  With it a job is run twice at the   *)
(* same time for two reasons only: SQS has handed it out again by itself,   *)
(* or one of its own heartbeat calls has failed.  Crashes, shutdowns, lost  *)
(* responses, failed acks and what befell other jobs are no such reason.    *)
OneRunPerJob ==
    \A d, e \in Deliveries :
        d[1] = e[1] /\ d # e /\ Beating(d) /\ Beating(e) => d[1] \in exposed

(* A message leaves the queue only after its handler has succeeded, unless  *)
(* the job is unprocessable or of unknown type (JobRunner.ts:23-26);        *)
(* whatever always fails, or cannot be parsed, is never deleted.            *)
AckedMeansHandled ==
    \A x \in Msgs : state[x] = "acked" =>
        x \in completed \/ kind[x] \in {"invalid", "unknown"}

(* Every job ends, acked or in the DLQ, also one that always fails: "ends   *)
(* up in the DLQ instead of cycling forever" (JobRunner.ts:200-201).        *)
EveryJobEnds == \A x \in Msgs : state[x] = "queued" ~> state[x] \in {"acked", "dead"}
=============================================================================
