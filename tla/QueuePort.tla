----------------------------- MODULE QueuePort -----------------------------
(***************************************************************************)
(* What the Queue port (src/src/ports/Queue.ts) promises the code that     *)
(* uses it: an unordered work queue with at-least-once delivery.  A message *)
(* is leased to a consumer, which settles it for good or gives it back;     *)
(* each delivery is counted, and a message whose deliveries are used up is  *)
(* parked in a dead-letter queue instead of being delivered again.  The     *)
(* port promises no order.                                                  *)
(***************************************************************************)
EXTENDS Naturals

CONSTANTS Ids,              \* message identities
          MaxReceiveCount   \* deliveries of a message before it is parked

VARIABLES phase,            \* where each message is in its life
          deliveries        \* the deliveries made so far: <<id, ordinal>>

vars == <<phase, deliveries>>

Phases == {"unsent", "ready", "leased", "done", "dead"}

TypeOK == /\ phase \in [Ids -> Phases]
          /\ deliveries \subseteq Ids \X (1 .. MaxReceiveCount)

Init == /\ phase = [i \in Ids |-> "unsent"]
        /\ deliveries = {}

(* The deliveries of message i: ordinals 1 to its receive count.           *)
Attempts(i) == {d \in deliveries : d[1] = i}

Send(S) ==
    /\ \A i \in S : phase[i] = "unsent"
    /\ phase' = [i \in Ids |-> IF i \in S THEN "ready" ELSE phase[i]]
    /\ UNCHANGED deliveries

(* One poll: the messages of D go out as delivery number n[i], those of B  *)
(* have used all their deliveries and are parked.                          *)
Poll(D, B, n) ==
    /\ D \cap B = {}
    /\ \A i \in D \cup B : phase[i] = "ready"
    /\ \A i \in D : /\ n[i] \in 1 .. MaxReceiveCount
                    /\ Attempts(i) = {<<i, k>> : k \in 1 .. (n[i] - 1)}
    /\ \A i \in B : Attempts(i) = {<<i, k>> : k \in 1 .. MaxReceiveCount}
    /\ phase' = [i \in Ids |-> IF i \in D THEN "leased"
                               ELSE IF i \in B THEN "dead" ELSE phase[i]]
    /\ deliveries' = deliveries \cup {<<i, n[i]>> : i \in D}

Settle(i) ==
    /\ phase[i] = "leased"
    /\ phase' = [phase EXCEPT ![i] = "done"]
    /\ UNCHANGED deliveries

Return(i) ==
    /\ phase[i] = "leased"
    /\ phase' = [phase EXCEPT ![i] = "ready"]
    /\ UNCHANGED deliveries

Next == \/ \E S \in SUBSET Ids : Send(S)
        \/ \E D, B \in SUBSET Ids : \E n \in [Ids -> 1 .. MaxReceiveCount] : Poll(D, B, n)
        \/ \E i \in Ids : Settle(i) \/ Return(i)

Spec == Init /\ [][Next]_vars
=============================================================================
