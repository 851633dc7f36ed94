--------------------------- MODULE InMemoryQueue ---------------------------
(***************************************************************************)
(* The in-process queue of src/src/adapters/local/InMemoryQueue.ts.        *)
(*                                                                         *)
(* The class runs on one JavaScript thread and no method awaits in the     *)
(* middle of a change (receive awaits only between two scans), so each     *)
(* method call, and each scan of receive, is one atomic action.            *)
(*                                                                         *)
(* The arrays are sets: the Queue port promises no order, so a scan may    *)
(* pick any of the visible messages.  The job carried by an envelope is    *)
(* its id.  A receipt handle, a random UUID in the code, is the delivery   *)
(* it was drawn for: <<id, receive count>>.                                *)
(***************************************************************************)
EXTENDS Naturals, FiniteSets

CONSTANTS Ids,                \* message identities
          MaxReceiveCount,    \* deliveries before a message is dead-lettered
          VisibilityTimeout,  \* how long a delivery hides a message
          Delays,             \* the delaySeconds an enqueue may ask for
          MaxBatch,           \* largest maxMessages of a receive
          MaxTime             \* bound on the clock

ASSUME QueueAssumption ==
    /\ MaxReceiveCount \in Nat \ {0}
    /\ VisibilityTimeout \in Nat
    /\ Delays \subseteq Nat
    /\ MaxBatch \in Nat \ {0}
    /\ MaxTime \in Nat

VARIABLES now,          \* Date.now()
          messages,     \* envelopes waiting
          inFlight,     \* envelopes handed out, keyed by their handle
          deadLetters,  \* envelopes parked
          closed,
          enqueued,     \* history: the ids ever accepted
          receipts,     \* history: every QueueMessage handed to a consumer
          acked         \* history: the ids an ack removed

vars == <<now, messages, inFlight, deadLetters, closed, enqueued, receipts, acked>>

Handles == Ids \X Nat

Envelope == [id : Ids, handle : Handles, received : Nat, visibleAt : Nat]
QueueMessage == [id : Ids, handle : Handles, received : Nat]

TypeOK ==
    /\ now \in Nat
    /\ messages \in SUBSET Envelope
    /\ inFlight \in SUBSET Envelope
    /\ deadLetters \in SUBSET Envelope
    /\ closed \in BOOLEAN
    /\ enqueued \in SUBSET Ids
    /\ receipts \in SUBSET QueueMessage
    /\ acked \in SUBSET Ids

Init ==
    /\ now = 0
    /\ messages = {}
    /\ inFlight = {}
    /\ deadLetters = {}
    /\ closed = FALSE
    /\ enqueued = {}
    /\ receipts = {}
    /\ acked = {}

IdsOf(S) == {e.id : e \in S}

(***************************************************************************)
(* enqueue and enqueueBatch.  A batch is one synchronous map over enqueue. *)
(***************************************************************************)
NewEnvelope(i, delay) ==
    [id |-> i, handle |-> <<i, 0>>, received |-> 0, visibleAt |-> now + delay]

Enqueue(S, delay) ==
    /\ ~closed
    /\ S # {}
    /\ S \cap enqueued = {}
    /\ now + delay <= MaxTime
    /\ messages' = messages \cup {NewEnvelope(i, delay) : i \in S}
    /\ enqueued' = enqueued \cup S
    /\ UNCHANGED <<now, inFlight, deadLetters, closed, receipts, acked>>

(***************************************************************************)
(* One scan of receive.  S is what the loop splices out of the array: it   *)
(* stops once max messages are ready, otherwise it reaches every visible   *)
(* one, and dead letters do not count towards max.                         *)
(***************************************************************************)
Visible(e) == e.visibleAt <= now

Exhausted(e) == e.received + 1 > MaxReceiveCount

HandleKept(e) == e.handle    \* mutant: no new handle on redelivery
FreshHandle(e) == <<e.id, e.received + 1>>

Deliver(e) ==
    [e EXCEPT !.received = e.received + 1,
              !.handle = FreshHandle(e),
              !.visibleAt = now + VisibilityTimeout]

Bury(e) == [e EXCEPT !.received = e.received + 1]

Receipt(e) == [id |-> e.id, handle |-> e.handle, received |-> e.received]

VisibleMessages == {e \in messages : Visible(e)}

ScanMayTake(S, max) ==
    LET ready == {e \in S : ~Exhausted(e)}
    IN  /\ S # {} /\ S \subseteq VisibleMessages
        /\ Cardinality(ready) <= max
        /\ S = VisibleMessages \/ Cardinality(ready) = max

Receive(S, max) ==
    /\ ScanMayTake(S, max)
    /\ messages' = messages \ S
    /\ LET ready == {Deliver(e) : e \in {f \in S : ~Exhausted(f)}}
       IN  /\ inFlight' = inFlight \cup ready
           /\ receipts' = receipts \cup {Receipt(e) : e \in ready}
    /\ deadLetters' = deadLetters \cup {Bury(e) : e \in {f \in S : Exhausted(f)}}
    /\ UNCHANGED <<now, closed, enqueued, acked>>

(***************************************************************************)
(* ack, nack and extendVisibility look the message up by its handle, so a  *)
(* consumer may call them with any QueueMessage it was ever handed.        *)
(***************************************************************************)
Holding(r) == {e \in inFlight : e.handle = r.handle}

AckById(r) ==    \* mutant: removes the message, whatever its handle
    /\ inFlight' = {e \in inFlight : e.id # r.id}
    /\ messages' = {e \in messages : e.id # r.id}
    /\ acked' = acked \cup {r.id}
    /\ UNCHANGED <<now, deadLetters, closed, enqueued, receipts>>

Ack(r) ==
    /\ inFlight' = inFlight \ Holding(r)
    /\ acked' = acked \cup IdsOf(Holding(r))
    /\ UNCHANGED <<now, messages, deadLetters, closed, enqueued, receipts>>

NackDrops(r) ==    \* mutant: leaves the in-flight map and is not requeued
    /\ Holding(r) # {}
    /\ inFlight' = inFlight \ Holding(r)
    /\ UNCHANGED <<now, messages, deadLetters, closed, enqueued, receipts, acked>>

NackKeepsLease(r) ==    \* mutant: requeued without leaving the in-flight map
    /\ Holding(r) # {}
    /\ messages' = messages \cup {[e EXCEPT !.visibleAt = now] : e \in Holding(r)}
    /\ UNCHANGED <<now, inFlight, deadLetters, closed, enqueued, receipts, acked>>

Nack(r) ==
    /\ Holding(r) # {}
    /\ inFlight' = inFlight \ Holding(r)
    /\ messages' = messages \cup {[e EXCEPT !.visibleAt = now] : e \in Holding(r)}
    /\ UNCHANGED <<now, deadLetters, closed, enqueued, receipts, acked>>

ExtendVisibility(r, seconds) ==
    /\ Holding(r) # {}
    /\ inFlight' = (inFlight \ Holding(r))
                     \cup {[e EXCEPT !.visibleAt = now + seconds] : e \in Holding(r)}
    /\ UNCHANGED <<now, messages, deadLetters, closed, enqueued, receipts, acked>>

Close ==
    /\ ~closed
    /\ closed' = TRUE
    /\ UNCHANGED <<now, messages, inFlight, deadLetters, enqueued, receipts, acked>>

(* Date.now() moves on. *)
Tick ==
    /\ now < MaxTime
    /\ now' = now + 1
    /\ UNCHANGED <<messages, inFlight, deadLetters, closed, enqueued, receipts, acked>>

Poll == \E S \in SUBSET messages, max \in 1 .. MaxBatch : Receive(S, max)

Next ==
    \/ \E S \in SUBSET Ids, delay \in Delays : Enqueue(S, delay)
    \/ Poll
    \/ \E r \in receipts : \/ Ack(r)
                           \/ Nack(r)
                           \/ ExtendVisibility(r, VisibilityTimeout)
    \/ Close
    \/ Tick

Spec == Init /\ [][Next]_vars

(***************************************************************************)
(* Fairness.  A worker keeps polling, time passes, and a handler returns:  *)
(* JobRunner.process settles every message it was handed with an ack or a  *)
(* nack (src/src/worker/JobRunner.ts:176-208) unless the process dies.     *)
(***************************************************************************)
SettlesWhatItHolds ==
    \A i \in Ids, n \in 1 .. MaxReceiveCount :
        WF_vars(\E r \in receipts : /\ r.id = i /\ r.received = n
                                    /\ Holding(r) # {}
                                    /\ Ack(r) \/ Nack(r))

FairSpec == Spec /\ WF_vars(Poll) /\ WF_vars(Tick) /\ SettlesWhatItHolds

-----------------------------------------------------------------------------
Everywhere == messages \cup inFlight \cup deadLetters

(* No message is lost and none is duplicated: every id that enqueue         *)
(* accepted sits in exactly one envelope of exactly one of the array, the   *)
(* in-flight map and the dead letters, until an ack removes it for good.    *)
Conservation ==
    /\ messages \cap inFlight = {}
    /\ messages \cap deadLetters = {}
    /\ inFlight \cap deadLetters = {}
    /\ \A e, f \in Everywhere : e.id = f.id => e = f
    /\ IdsOf(Everywhere) \cap acked = {}
    /\ IdsOf(Everywhere) \cup acked = enqueued

(* "Fresh handle per delivery, matching SQS - an old handle must not work"  *)
(* (InMemoryQueue.ts:106): the receipts that can still settle a message in  *)
(* flight are exactly those of its current delivery.                        *)
OnlyCurrentReceiptWorks ==
    \A e \in inFlight, r \in receipts :
        r.handle = e.handle <=> r.id = e.id /\ r.received = e.received

(* The redrive ceiling: no message is handed out more than maxReceiveCount  *)
(* times, and a message is parked only after it was handed out exactly that *)
(* often, so neither a poison message nor a lost delivery slips through.    *)
DeliveryCeiling ==
    /\ \A r \in receipts : r.received \in 1 .. MaxReceiveCount
    /\ \A e \in deadLetters : \A n \in 1 .. MaxReceiveCount :
           \E r \in receipts : r.id = e.id /\ r.received = n

(* An acked message never comes back: no scan of receive hands it out again *)
(* and no later call moves it to the dead letters.                          *)
AckedStaysAcked ==
    [][/\ acked \subseteq acked'
       /\ \A r \in receipts' \ receipts : r.id \notin acked
       /\ \A e \in deadLetters' \ deadLetters : e.id \notin acked]_vars

(* With a consumer that settles what it is handed, every message ends up    *)
(* acked or dead-lettered, however often it is nacked on the way and even   *)
(* if the queue is closed in the meantime.                                  *)
EveryMessageEnds ==
    \A i \in Ids : i \in enqueued ~> i \in acked \cup IdsOf(deadLetters)

-----------------------------------------------------------------------------
(* The queue implements the port. *)
PhaseOf(i) ==
    IF i \in acked THEN "done"
    ELSE IF i \in IdsOf(deadLetters) THEN "dead"
    ELSE IF i \in IdsOf(inFlight) THEN "leased"
    ELSE IF i \in IdsOf(messages) THEN "ready"
    ELSE "unsent"

phaseBar == [i \in Ids |-> PhaseOf(i)]
deliveriesBar == {<<r.id, r.received>> : r \in receipts}

Port == INSTANCE QueuePort WITH phase <- phaseBar, deliveries <- deliveriesBar

(* Every step of the in-memory queue is a step of the port's abstract       *)
(* queue, so a consumer written against the port sees nothing else.         *)
ImplementsPort == Port!Spec
=============================================================================
