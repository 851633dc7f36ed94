------------------------ MODULE InMemoryQueue_proofs ------------------------
(***************************************************************************)
(* Proofs about InMemoryQueue for any set of messages, ceiling, timeout    *)
(* and clock bound.                                                        *)
(***************************************************************************)
EXTENDS InMemoryQueue, TLAPS

Waiting == messages \cup inFlight

(* What an envelope and a receipt carry.  A handle names one delivery, so   *)
(* the receive counts are what makes handles distinct.                      *)
HandleInv ==
    /\ \A e \in Waiting : /\ e.handle = <<e.id, e.received>>
                          /\ e.received \in 0 .. MaxReceiveCount
    /\ \A e \in inFlight : e.received # 0
    /\ \A r \in receipts : /\ r.handle = <<r.id, r.received>>
                           /\ r.received \in 1 .. MaxReceiveCount
                           /\ r.id \in enqueued

(* A message that may still be delivered was handed out once for every      *)
(* ordinal up to its receive count, and no further.                         *)
CountInv ==
    /\ \A e \in Waiting, r \in receipts : r.id = e.id => r.received <= e.received
    /\ \A e \in Waiting : \A n \in 1 .. e.received :
           \E r \in receipts : r.id = e.id /\ r.received = n
    /\ \A e \in deadLetters : \A n \in 1 .. MaxReceiveCount :
           \E r \in receipts : r.id = e.id /\ r.received = n

IInv == TypeOK /\ Conservation /\ HandleInv /\ CountInv

LEMMA InitEstablishes == Init => IInv
<1> SUFFICES ASSUME Init PROVE IInv
    OBVIOUS
<1>1. Everywhere = {} /\ Waiting = {}
    BY DEF Init, Everywhere, Waiting
<1>2. IdsOf(Everywhere) = {}
    BY <1>1 DEF IdsOf
<1>3. TypeOK
    BY DEF Init, TypeOK
<1>4. Conservation
    BY <1>1, <1>2 DEF Init, Conservation
<1>5. HandleInv /\ CountInv
    BY <1>1 DEF Init, HandleInv, CountInv
<1> QED BY <1>3, <1>4, <1>5 DEF IInv

LEMMA TypeStep == TypeOK /\ [Next]_vars => TypeOK'
<1> SUFFICES ASSUME TypeOK, [Next]_vars PROVE TypeOK'
    OBVIOUS
<1> USE QueueAssumption DEF TypeOK
<1>1. ASSUME NEW S \in SUBSET Ids, NEW delay \in Delays, Enqueue(S, delay)
      PROVE  TypeOK'
    <2>1. \A i \in S : NewEnvelope(i, delay) \in Envelope
        BY DEF NewEnvelope, Envelope, Handles
    <2> QED BY <1>1, <2>1 DEF Enqueue
<1>2. ASSUME NEW S \in SUBSET messages, NEW max \in 1 .. MaxBatch, Receive(S, max)
      PROVE  TypeOK'
    <2>1. \A e \in S : /\ Deliver(e) \in Envelope
                       /\ Receipt(Deliver(e)) \in QueueMessage
                       /\ Bury(e) \in Envelope
        <3> TAKE e \in S
        <3>1. /\ e \in Envelope
              /\ e.id \in Ids
              /\ e.received + 1 \in Nat
              /\ now + VisibilityTimeout \in Nat
            BY DEF Envelope
        <3>2. FreshHandle(e) \in Handles
            BY <3>1 DEF FreshHandle, Handles
        <3>3. Deliver(e) \in Envelope
            BY <3>1, <3>2 DEF Deliver, Envelope
        <3>4. Receipt(Deliver(e)) \in QueueMessage
            BY <3>3 DEF Receipt, Envelope, QueueMessage
        <3>5. Bury(e) \in Envelope
            BY <3>1 DEF Bury, Envelope
        <3> QED BY <3>3, <3>4, <3>5
    <2> QED BY <1>2, <2>1 DEF Receive
<1>3. ASSUME NEW r \in receipts, Ack(r) PROVE TypeOK'
    <2>1. IdsOf(Holding(r)) \subseteq Ids
        BY DEF IdsOf, Holding, Envelope
    <2> QED BY <1>3, <2>1 DEF Ack
<1>4. ASSUME NEW r \in receipts, Nack(r) PROVE TypeOK'
    <2>1. \A e \in Holding(r) : [e EXCEPT !.visibleAt = now] \in Envelope
        BY DEF Holding, Envelope
    <2> QED BY <1>4, <2>1 DEF Nack
<1>5. ASSUME NEW r \in receipts, ExtendVisibility(r, VisibilityTimeout) PROVE TypeOK'
    <2>1. \A e \in Holding(r) :
             [e EXCEPT !.visibleAt = now + VisibilityTimeout] \in Envelope
        BY DEF Holding, Envelope
    <2> QED BY <1>5, <2>1 DEF ExtendVisibility
<1>6. CASE Close BY <1>6 DEF Close
<1>7. CASE Tick BY <1>7 DEF Tick
<1>8. CASE UNCHANGED vars BY <1>8 DEF vars
<1> QED BY <1>1, <1>2, <1>3, <1>4, <1>5, <1>6, <1>7, <1>8 DEF Next, Poll

-----------------------------------------------------------------------------
(* One lemma per action: what it does to the rest of the inductive          *)
(* invariant, given that types are preserved.                               *)

LEMMA EnqueueStep ==
    ASSUME IInv, TypeOK', NEW S \in SUBSET Ids, NEW delay \in Delays, Enqueue(S, delay)
    PROVE  Conservation' /\ HandleInv' /\ CountInv'
<1> USE QueueAssumption DEF IInv
<1> DEFINE New == {NewEnvelope(i, delay) : i \in S}
<1>1. /\ messages' = messages \cup New
      /\ enqueued' = enqueued \cup S
      /\ S \cap enqueued = {}
      /\ UNCHANGED <<inFlight, deadLetters, receipts, acked>>
    BY DEF Enqueue
<1>2. \A e \in New : e.id \in S /\ e.handle = <<e.id, 0>> /\ e.received = 0
    BY DEF NewEnvelope
<1>3. \A i \in S : \E e \in New : e.id = i
    <2> TAKE i \in S
    <2>1. NewEnvelope(i, delay) \in New
        OBVIOUS
    <2>2. NewEnvelope(i, delay).id = i
        BY DEF NewEnvelope
    <2> QED BY <2>1, <2>2
<1>4. \A e, f \in New : e.id = f.id => e = f
    BY DEF NewEnvelope
<1>5. \A e \in Everywhere : e.id \in enqueued
    BY DEF Conservation, IdsOf
<1>6. Conservation'
    <2>1. /\ (messages \cap inFlight = {})' /\ (messages \cap deadLetters = {})'
          /\ (inFlight \cap deadLetters = {})'
        BY <1>1, <1>2, <1>5 DEF Conservation, Everywhere
    <2>2. Everywhere' = Everywhere \cup New
        BY <1>1 DEF Everywhere
    <2>3. (\A e, f \in Everywhere : e.id = f.id => e = f)'
        BY <1>1, <1>2, <1>4, <1>5, <2>2 DEF Conservation
    <2>4. IdsOf(Everywhere)' = IdsOf(Everywhere) \cup S
        BY <1>2, <1>3, <2>2 DEF IdsOf
    <2>5. acked \subseteq enqueued
        BY DEF Conservation
    <2> QED BY <1>1, <2>1, <2>3, <2>4, <2>5 DEF Conservation
<1>7. Waiting' = Waiting \cup New
    BY <1>1 DEF Waiting
<1>8. HandleInv'
    BY <1>1, <1>2, <1>7 DEF HandleInv
<1>9. CountInv'
    <2>1. \A r \in receipts : r.id \notin S
        BY <1>1 DEF HandleInv
    <2>2. (\A e \in Waiting, r \in receipts : r.id = e.id => r.received <= e.received)'
        BY <1>1, <1>2, <1>7, <2>1 DEF CountInv
    <2>3. (\A e \in Waiting : \A n \in 1 .. e.received :
               \E r \in receipts : r.id = e.id /\ r.received = n)'
        BY <1>1, <1>2, <1>7 DEF CountInv
    <2> QED BY <1>1, <2>2, <2>3 DEF CountInv
<1> QED BY <1>6, <1>8, <1>9

LEMMA ReceiveStep ==
    ASSUME IInv, TypeOK', NEW S \in SUBSET messages, NEW max \in 1 .. MaxBatch,
           Receive(S, max)
    PROVE  Conservation' /\ HandleInv' /\ CountInv'
<1> USE QueueAssumption DEF IInv
<1> DEFINE Good == {f \in S : ~Exhausted(f)}
           Bad == {f \in S : Exhausted(f)}
           Ready == {Deliver(e) : e \in Good}
           Dead == {Bury(e) : e \in Bad}
<1>1. /\ messages' = messages \ S
      /\ inFlight' = inFlight \cup Ready
      /\ receipts' = receipts \cup {Receipt(e) : e \in Ready}
      /\ deadLetters' = deadLetters \cup Dead
      /\ UNCHANGED <<enqueued, acked>>
    BY DEF Receive
<1>2. S = Good \cup Bad /\ Good \cap Bad = {} /\ S \subseteq Envelope
    BY DEF TypeOK
<1>3. \A e \in S : /\ e.received \in 0 .. MaxReceiveCount
                   /\ e.received \in Nat
                   /\ e.handle = <<e.id, e.received>>
    BY DEF HandleInv, Waiting
<1>4. \A e \in Good : /\ Deliver(e).id = e.id
                      /\ Deliver(e).received = e.received + 1
                      /\ Deliver(e).handle = <<e.id, e.received + 1>>
                      /\ e.received + 1 \in 1 .. MaxReceiveCount
    BY <1>2, <1>3 DEF Deliver, FreshHandle, Exhausted, Envelope
<1>5. \A e \in Bad : /\ Bury(e).id = e.id
                     /\ e.received = MaxReceiveCount
    BY <1>2, <1>3 DEF Bury, Exhausted, Envelope
<1>6. \A e, f \in Everywhere : e.id = f.id => e = f
    BY DEF Conservation
<1>7. S \subseteq Everywhere /\ S \cap inFlight = {} /\ S \cap deadLetters = {}
    BY DEF Everywhere, Conservation
<1>8. Conservation'
    <2>1. \A e \in Ready : \E f \in Good : e = Deliver(f) /\ e.id = f.id
        BY <1>4
    <2>2. \A e \in Dead : \E f \in Bad : e = Bury(f) /\ e.id = f.id
        BY <1>5
    <2>3. \A e \in Ready \cup Dead, f \in messages' \cup inFlight \cup deadLetters :
             e.id # f.id
        BY <1>1, <1>2, <1>6, <1>7, <2>1, <2>2 DEF Everywhere
    <2>4. \A e \in Ready, f \in Dead : e.id # f.id
        BY <1>2, <1>6, <1>7, <2>1, <2>2
    <2>5. \A e, f \in Ready : e.id = f.id => e = f
        BY <1>2, <1>6, <1>7, <2>1
    <2>6. \A e, f \in Dead : e.id = f.id => e = f
        BY <1>2, <1>6, <1>7, <2>2
    <2>7. Everywhere' = (Everywhere \ S) \cup Ready \cup Dead
        BY <1>1, <1>7 DEF Everywhere
    <2>8. (\A e, f \in Everywhere : e.id = f.id => e = f)'
        <3> SUFFICES ASSUME NEW e \in Everywhere', NEW f \in Everywhere', e.id = f.id
                     PROVE  e = f
            OBVIOUS
        <3>1. Everywhere \ S \subseteq messages' \cup inFlight \cup deadLetters
            BY <1>1 DEF Everywhere
        <3> QED BY <1>6, <2>3, <2>4, <2>5, <2>6, <2>7, <3>1
    <2>9. /\ (messages \cap inFlight = {})' /\ (messages \cap deadLetters = {})'
          /\ (inFlight \cap deadLetters = {})'
        BY <1>1, <2>3, <2>4 DEF Conservation
    <2>10. IdsOf(Everywhere)' = IdsOf(Everywhere)
        <3>1. \A i : i \in IdsOf(S) <=> i \in IdsOf(Ready \cup Dead)
            BY <1>2, <1>4, <1>5, <2>1, <2>2 DEF IdsOf
        <3> QED BY <2>7, <1>7, <3>1 DEF IdsOf
    <2> QED BY <1>1, <2>8, <2>9, <2>10 DEF Conservation
<1>9. \A x \in receipts' : \/ x \in receipts
                          \/ \E e \in Good : /\ x.id = e.id
                                            /\ x.received = e.received + 1
                                            /\ x.handle = <<e.id, e.received + 1>>
    BY <1>1, <1>4 DEF Receipt
<1>10. \A e \in Good : \E x \in receipts' : x.id = e.id /\ x.received = e.received + 1
    <2> TAKE e \in Good
    <2>1. Receipt(Deliver(e)) \in receipts'
        BY <1>1
    <2>2. /\ Receipt(Deliver(e)).id = e.id
          /\ Receipt(Deliver(e)).received = e.received + 1
        BY <1>4 DEF Receipt
    <2> QED BY <2>1, <2>2
<1>11. Waiting' = (Waiting \ S) \cup Ready
    BY <1>1, <1>7 DEF Waiting
<1>12. Waiting \subseteq Everywhere
    BY DEF Waiting, Everywhere
<1>13. HandleInv'
    <2>1. \A e \in Good : e.id \in enqueued
        BY <1>7, <1>2 DEF Conservation, IdsOf
    <2> QED BY <1>1, <1>4, <1>9, <1>11, <2>1 DEF HandleInv
<1>14. CountInv'
    <2>1. \A e \in Waiting \ S, r \in receipts' : r.id = e.id => r.received <= e.received
        BY <1>2, <1>6, <1>7, <1>9, <1>12 DEF CountInv
    <2>2. \A e \in Good, r \in receipts' : r.id = e.id => r.received <= e.received + 1
        <3> SUFFICES ASSUME NEW e \in Good, NEW r \in receipts', r.id = e.id
                     PROVE  r.received <= e.received + 1
            OBVIOUS
        <3>1. CASE r \in receipts
            <4>1. e \in Waiting /\ e.received \in Nat /\ r.received \in Nat
                BY <1>3, <3>1 DEF Waiting, HandleInv
            <4>2. r.received <= e.received
                BY <3>1, <4>1 DEF CountInv
            <4> QED BY <4>1, <4>2
        <3>2. CASE r \notin receipts
            <4>1. PICK f \in Good : r.id = f.id /\ r.received = f.received + 1
                BY <1>9, <3>2
            <4>2. e = f
                BY <1>2, <1>6, <1>7, <4>1
            <4> QED BY <4>1, <4>2, <1>3
        <3> QED BY <3>1, <3>2
    <2>3. (\A e \in Waiting, r \in receipts : r.id = e.id => r.received <= e.received)'
        BY <1>4, <1>11, <2>1, <2>2
    <2>4. \A e \in Waiting \ S : \A n \in 1 .. e.received :
              \E r \in receipts' : r.id = e.id /\ r.received = n
        BY <1>1 DEF CountInv
    <2>5. \A e \in Good : \A n \in 1 .. (e.received + 1) :
              \E r \in receipts' : r.id = e.id /\ r.received = n
        <3> SUFFICES ASSUME NEW e \in Good, NEW n \in 1 .. (e.received + 1)
                     PROVE  \E r \in receipts' : r.id = e.id /\ r.received = n
            OBVIOUS
        <3>1. e \in Waiting /\ e.received \in Nat
            BY <1>3 DEF Waiting
        <3>2. CASE n = e.received + 1
            BY <1>10, <3>2
        <3>3. CASE n # e.received + 1
            <4>1. n \in 1 .. e.received
                BY <3>1, <3>3
            <4> QED BY <1>1, <3>1, <4>1 DEF CountInv
        <3> QED BY <3>2, <3>3
    <2>6. (\A e \in Waiting : \A n \in 1 .. e.received :
               \E r \in receipts : r.id = e.id /\ r.received = n)'
        BY <1>4, <1>11, <2>4, <2>5
    <2>7. \A e \in Bad : \A n \in 1 .. MaxReceiveCount :
              \E r \in receipts' : r.id = e.id /\ r.received = n
        BY <1>1, <1>5 DEF CountInv, Waiting
    <2>8. (\A e \in deadLetters : \A n \in 1 .. MaxReceiveCount :
               \E r \in receipts : r.id = e.id /\ r.received = n)'
        <3>1. \A e \in deadLetters : \A n \in 1 .. MaxReceiveCount :
                 \E r \in receipts' : r.id = e.id /\ r.received = n
            BY <1>1 DEF CountInv
        <3> QED BY <1>1, <1>5, <2>7, <3>1
    <2> QED BY <2>3, <2>6, <2>8 DEF CountInv
<1> QED BY <1>8, <1>13, <1>14

LEMMA AckStep ==
    ASSUME IInv, NEW r \in receipts, Ack(r)
    PROVE  Conservation' /\ HandleInv' /\ CountInv'
<1> USE DEF IInv
<1> DEFINE H == Holding(r)
<1>1. /\ inFlight' = inFlight \ H
      /\ acked' = acked \cup IdsOf(H)
      /\ UNCHANGED <<messages, deadLetters, enqueued, receipts>>
    BY DEF Ack
<1>2. H \subseteq inFlight /\ H \cap messages = {} /\ H \cap deadLetters = {}
    BY DEF Holding, Conservation
<1>3. Everywhere' = Everywhere \ H /\ H \subseteq Everywhere
    BY <1>1, <1>2 DEF Everywhere
<1>4. IdsOf(Everywhere)' = IdsOf(Everywhere) \ IdsOf(H)
    <2>1. \A e, f \in Everywhere : e.id = f.id => e = f
        BY DEF Conservation
    <2> QED BY <1>3, <2>1 DEF IdsOf
<1>5. IdsOf(H) \subseteq IdsOf(Everywhere)
    BY <1>3 DEF IdsOf
<1>6. Conservation'
    BY <1>1, <1>3, <1>4, <1>5 DEF Conservation
<1>7. Waiting' \subseteq Waiting /\ inFlight' \subseteq inFlight
    BY <1>1 DEF Waiting
<1> QED BY <1>1, <1>6, <1>7 DEF HandleInv, CountInv

(* Nack and extendVisibility replace the envelopes they find by ones that   *)
(* differ in visibleAt only, and may move them back to the array.           *)
LEMMA ReplaceStep ==
    ASSUME IInv, NEW r \in receipts, NEW at \in Nat,
           \/ /\ inFlight' = inFlight \ Holding(r)
              /\ messages' = messages \cup {[e EXCEPT !.visibleAt = at] : e \in Holding(r)}
           \/ /\ inFlight' = (inFlight \ Holding(r))
                               \cup {[e EXCEPT !.visibleAt = at] : e \in Holding(r)}
              /\ messages' = messages,
           UNCHANGED <<deadLetters, enqueued, receipts, acked>>
    PROVE  Conservation' /\ HandleInv' /\ CountInv'
<1> USE DEF IInv
<1> DEFINE H == Holding(r)
           G == {[e EXCEPT !.visibleAt = at] : e \in H}
<1>1. H \subseteq inFlight /\ H \cap messages = {} /\ H \cap deadLetters = {}
    BY DEF Holding, Conservation
<1>2. \A e \in H : /\ [e EXCEPT !.visibleAt = at].id = e.id
                   /\ [e EXCEPT !.visibleAt = at].handle = e.handle
                   /\ [e EXCEPT !.visibleAt = at].received = e.received
    BY <1>1 DEF TypeOK, Envelope
<1>3. \A g \in G : \E e \in H : /\ g = [e EXCEPT !.visibleAt = at]
                               /\ g.id = e.id /\ g.handle = e.handle
                               /\ g.received = e.received
    BY <1>2
<1>4. \A e, f \in Everywhere : e.id = f.id => e = f
    BY DEF Conservation
<1>5. H \subseteq Everywhere /\ H \subseteq Waiting
    BY <1>1 DEF Everywhere, Waiting
<1>6. Everywhere' = (Everywhere \ H) \cup G
    BY <1>1 DEF Everywhere
<1>7. Waiting' = (Waiting \ H) \cup G
    BY <1>1 DEF Waiting
<1>8. \A g \in G, f \in Everywhere \ H : g.id # f.id
    BY <1>3, <1>4, <1>5
<1>9. (\A e, f \in Everywhere : e.id = f.id => e = f)'
    <2>1. \A e, f \in G : e.id = f.id => e = f
        BY <1>3, <1>4, <1>5
    <2> QED BY <1>4, <1>6, <1>8, <2>1
<1>10. IdsOf(Everywhere)' = IdsOf(Everywhere)
    <2>1. IdsOf(G) = IdsOf(H)
        <3>1. IdsOf(G) \subseteq IdsOf(H)
            BY <1>3 DEF IdsOf
        <3>2. ASSUME NEW e \in H PROVE e.id \in IdsOf(G)
            <4>1. [e EXCEPT !.visibleAt = at] \in G
                OBVIOUS
            <4> QED BY <1>2, <4>1 DEF IdsOf
        <3> QED BY <3>1, <3>2 DEF IdsOf
    <2>2. IdsOf(Everywhere') = IdsOf(Everywhere \ H) \cup IdsOf(G)
        BY <1>6 DEF IdsOf
    <2>3. IdsOf(Everywhere) = IdsOf(Everywhere \ H) \cup IdsOf(H)
        BY <1>5 DEF IdsOf
    <2> QED BY <2>1, <2>2, <2>3 DEF IdsOf
<1>11. /\ (messages \cap inFlight = {})' /\ (messages \cap deadLetters = {})'
       /\ (inFlight \cap deadLetters = {})'
    <2>1. \A g \in G, f \in messages \cup (inFlight \ H) \cup deadLetters : g # f
        BY <1>1, <1>8 DEF Everywhere
    <2> QED BY <1>1, <2>1 DEF Conservation
<1>12. Conservation'
    BY <1>9, <1>10, <1>11 DEF Conservation
<1>13. HandleInv'
    <2>1. \A e \in inFlight' : e \in inFlight \/ e \in G
        OBVIOUS
    <2> QED BY <1>1, <1>3, <1>5, <1>7, <2>1 DEF HandleInv
<1>14. CountInv'
    <2>1. (\A e \in Waiting, x \in receipts : x.id = e.id => x.received <= e.received)'
        BY <1>3, <1>5, <1>7 DEF CountInv
    <2>2. (\A e \in Waiting : \A n \in 1 .. e.received :
               \E x \in receipts : x.id = e.id /\ x.received = n)'
        <3> SUFFICES ASSUME NEW e \in Waiting', NEW n \in 1 .. e.received
                     PROVE  \E x \in receipts : x.id = e.id /\ x.received = n
            OBVIOUS
        <3>1. PICK f \in Waiting : f.id = e.id /\ f.received = e.received
            BY <1>3, <1>5, <1>7
        <3> QED BY <3>1 DEF CountInv
    <2> QED BY <2>1, <2>2 DEF CountInv
<1> QED BY <1>12, <1>13, <1>14

LEMMA InvStep == IInv /\ [Next]_vars => IInv'
<1> SUFFICES ASSUME IInv, [Next]_vars PROVE IInv'
    OBVIOUS
<1>0. TypeOK'
    BY TypeStep DEF IInv
<1>1. ASSUME NEW S \in SUBSET Ids, NEW delay \in Delays, Enqueue(S, delay)
      PROVE  IInv'
    BY <1>0, <1>1, EnqueueStep DEF IInv
<1>2. ASSUME NEW S \in SUBSET messages, NEW max \in 1 .. MaxBatch, Receive(S, max)
      PROVE  IInv'
    BY <1>0, <1>2, ReceiveStep DEF IInv
<1>3. ASSUME NEW r \in receipts, Ack(r) PROVE IInv'
    BY <1>0, <1>3, AckStep DEF IInv
<1>4. ASSUME NEW r \in receipts, Nack(r) PROVE IInv'
    <2>1. now \in Nat
        BY DEF IInv, TypeOK
    <2> QED BY <1>0, <1>4, <2>1, ReplaceStep DEF IInv, Nack
<1>5. ASSUME NEW r \in receipts, ExtendVisibility(r, VisibilityTimeout) PROVE IInv'
    <2>1. now + VisibilityTimeout \in Nat
        BY QueueAssumption DEF IInv, TypeOK
    <2> QED BY <1>0, <1>5, <2>1, ReplaceStep DEF IInv, ExtendVisibility
<1>6. CASE Close \/ Tick \/ UNCHANGED vars
    <2>1. UNCHANGED <<messages, inFlight, deadLetters, enqueued, receipts, acked>>
        BY <1>6 DEF Close, Tick, vars
    <2>2. UNCHANGED <<Everywhere, Waiting, IdsOf(Everywhere)>>
        BY <2>1 DEF Everywhere, Waiting, IdsOf
    <2> QED BY <1>0, <2>1, <2>2 DEF IInv, Conservation, HandleInv, CountInv
<1> QED BY <1>1, <1>2, <1>3, <1>4, <1>5, <1>6 DEF Next, Poll

-----------------------------------------------------------------------------
(* The inductive invariant holds throughout: see IInv.                      *)
THEOREM Invariance == Spec => []IInv
BY InitEstablishes, InvStep, PTL DEF Spec

(* InMemoryQueue.ts keeps every envelope, receipt and history set well typed. *)
THEOREM TypeCorrect == Spec => []TypeOK
<1>1. IInv => TypeOK
    BY DEF IInv
<1> QED BY Invariance, <1>1, PTL

(* The queue neither loses nor duplicates a message, for any number of      *)
(* messages, consumers and redeliveries.                                    *)
THEOREM NothingLostOrDuplicated == Spec => []Conservation
<1>1. IInv => Conservation
    BY DEF IInv
<1> QED BY Invariance, <1>1, PTL

(* A receipt of an earlier delivery never settles a later one.              *)
THEOREM StaleReceiptsAreInert == Spec => []OnlyCurrentReceiptWorks
<1>1. IInv => OnlyCurrentReceiptWorks
    BY DEF IInv, HandleInv, OnlyCurrentReceiptWorks, Waiting, TypeOK, Envelope, QueueMessage
<1> QED BY Invariance, <1>1, PTL

(* The redrive ceiling of receive holds for any maxReceiveCount.            *)
THEOREM CeilingHolds == Spec => []DeliveryCeiling
<1>1. IInv => DeliveryCeiling
    BY DEF IInv, HandleInv, CountInv, DeliveryCeiling
<1> QED BY Invariance, <1>1, PTL

(* An acked message is never handed out or dead-lettered again: receive     *)
(* takes envelopes from the array only, and an acked id has none left.      *)
THEOREM AckIsFinal == Spec => AckedStaysAcked
<1>1. ASSUME IInv, [Next]_vars
      PROVE  /\ acked \subseteq acked'
             /\ \A r \in receipts' \ receipts : r.id \notin acked
             /\ \A e \in deadLetters' \ deadLetters : e.id \notin acked
    <2>1. ASSUME NEW S \in SUBSET messages, NEW max \in 1 .. MaxBatch, Receive(S, max)
          PROVE  /\ acked' = acked
                 /\ \A r \in receipts' \ receipts : r.id \notin acked
                 /\ \A e \in deadLetters' \ deadLetters : e.id \notin acked
        <3>1. \A e \in S : e \in Envelope /\ e.id \notin acked
            BY <1>1 DEF IInv, TypeOK, Conservation, Everywhere, IdsOf
        <3>2. \A e \in S : Receipt(Deliver(e)).id = e.id /\ Bury(e).id = e.id
            BY <3>1 DEF Receipt, Deliver, Bury, Envelope
        <3> QED BY <2>1, <3>1, <3>2 DEF Receive
    <2>2. ASSUME NEW r \in receipts, Ack(r)
          PROVE  acked \subseteq acked' /\ receipts' = receipts /\ deadLetters' = deadLetters
        BY <2>2 DEF Ack
    <2>3. CASE \/ \E S \in SUBSET Ids, delay \in Delays : Enqueue(S, delay)
               \/ \E r \in receipts : Nack(r) \/ ExtendVisibility(r, VisibilityTimeout)
               \/ Close \/ Tick \/ UNCHANGED vars
        BY <2>3 DEF Enqueue, Nack, ExtendVisibility, Close, Tick, vars
    <2> QED BY <1>1, <2>1, <2>2, <2>3 DEF Next, Poll
<1> QED BY <1>1, Invariance, PTL DEF Spec, AckedStaysAcked

-----------------------------------------------------------------------------
(* The refinement: initial states map to initial states, and every step of  *)
(* the queue is a step of the port or changes nothing the port can see.     *)

LEMMA PhaseFacts ==
    ASSUME IInv, NEW i \in Ids
    PROVE  /\ i \in acked => phaseBar[i] = "done"
           /\ i \in IdsOf(deadLetters) => phaseBar[i] = "dead"
           /\ i \in IdsOf(inFlight) => phaseBar[i] = "leased"
           /\ i \in IdsOf(messages) => phaseBar[i] = "ready"
           /\ i \notin enqueued => phaseBar[i] = "unsent"
<1>1. /\ IdsOf(deadLetters) \cap acked = {} /\ IdsOf(inFlight) \cap acked = {}
      /\ IdsOf(messages) \cap acked = {}
    BY DEF IInv, Conservation, Everywhere, IdsOf
<1>2. /\ IdsOf(deadLetters) \cap IdsOf(inFlight) = {}
      /\ IdsOf(deadLetters) \cap IdsOf(messages) = {}
      /\ IdsOf(inFlight) \cap IdsOf(messages) = {}
    BY DEF IInv, Conservation, Everywhere, IdsOf
<1>3. acked \cup IdsOf(deadLetters) \cup IdsOf(inFlight) \cup IdsOf(messages) \subseteq enqueued
    BY DEF IInv, Conservation, Everywhere, IdsOf
<1> QED BY <1>1, <1>2, <1>3 DEF phaseBar, PhaseOf

LEMMA AttemptsFacts ==
    ASSUME IInv, NEW e \in Waiting
    PROVE  Port!Attempts(e.id) = {<<e.id, k>> : k \in 1 .. e.received}
<1>1. Port!Attempts(e.id) = {d \in deliveriesBar : d[1] = e.id}
    BY DEF Port!Attempts
<1>2. e.received \in Nat
    BY DEF IInv, HandleInv
<1>3. ASSUME NEW d \in deliveriesBar, d[1] = e.id
      PROVE  \E k \in 1 .. e.received : d = <<e.id, k>>
    <2>1. PICK r \in receipts : d = <<r.id, r.received>>
        BY DEF deliveriesBar
    <2>2. r.id = e.id /\ r.received \in 1 .. MaxReceiveCount /\ r.received <= e.received
        BY <1>3, <2>1 DEF IInv, CountInv, HandleInv
    <2> QED BY <1>2, <2>1, <2>2, QueueAssumption
<1>4. ASSUME NEW k \in 1 .. e.received
      PROVE  <<e.id, k>> \in deliveriesBar
    BY DEF IInv, CountInv, deliveriesBar
<1> QED BY <1>1, <1>3, <1>4

LEMMA PortEnqueue ==
    ASSUME IInv, IInv', NEW S \in SUBSET Ids, NEW delay \in Delays, Enqueue(S, delay)
    PROVE  Port!Send(S)
<1>1. \A i \in S : phaseBar[i] = "unsent"
    BY PhaseFacts DEF Enqueue
<1>2. \A i \in S : i \in IdsOf(messages)'
    <2> TAKE i \in S
    <2>1. NewEnvelope(i, delay) \in messages' /\ NewEnvelope(i, delay).id = i
        BY DEF Enqueue, NewEnvelope
    <2> QED BY <2>1 DEF IdsOf
<1>3. \A i \in Ids \ S : i \in IdsOf(messages)' <=> i \in IdsOf(messages)
    BY DEF Enqueue, NewEnvelope, IdsOf
<1>4. UNCHANGED <<acked, IdsOf(deadLetters), IdsOf(inFlight), deliveriesBar>>
    BY DEF Enqueue, IdsOf, deliveriesBar
<1>5. \A i \in S : phaseBar'[i] = "ready"
    <2>1. \A i \in S : i \notin acked /\ i \notin IdsOf(deadLetters) /\ i \notin IdsOf(inFlight)
        BY DEF Enqueue, IInv, Conservation, Everywhere, IdsOf
    <2> QED BY <1>2, <1>4, <2>1 DEF phaseBar, PhaseOf
<1>6. \A i \in Ids \ S : phaseBar'[i] = phaseBar[i]
    BY <1>3, <1>4 DEF phaseBar, PhaseOf
<1>7. phaseBar' = [i \in Ids |-> IF i \in S THEN "ready" ELSE phaseBar[i]]
    BY <1>5, <1>6 DEF phaseBar
<1> QED BY <1>1, <1>4, <1>7 DEF Port!Send

LEMMA PortReceive ==
    ASSUME IInv, NEW S \in SUBSET messages, NEW max \in 1 .. MaxBatch, Receive(S, max)
    PROVE  \E D, B \in SUBSET Ids : \E n \in [Ids -> 1 .. MaxReceiveCount] : Port!Poll(D, B, n)
<1> USE QueueAssumption
<1> DEFINE Good == {f \in S : ~Exhausted(f)}
           Bad == {f \in S : Exhausted(f)}
           D == IdsOf(Good)
           B == IdsOf(Bad)
           Of(i) == CHOOSE e \in Good : e.id = i
           n == [i \in Ids |-> IF i \in D THEN Of(i).received + 1 ELSE 1]
<1>1. \A e, f \in Everywhere : e.id = f.id => e = f
    BY DEF IInv, Conservation
<1>2. S \subseteq Everywhere /\ S \subseteq Waiting /\ S \subseteq Envelope
    BY DEF Everywhere, Waiting, IInv, TypeOK
<1>3. D \in SUBSET Ids /\ B \in SUBSET Ids
    BY <1>2 DEF IdsOf, Envelope
<1>4. \A e \in Good : e.id \in D /\ Of(e.id) = e
    BY <1>1, <1>2 DEF IdsOf
<1>5. \A e \in Good : e.received + 1 \in 1 .. MaxReceiveCount
    BY <1>2 DEF IInv, HandleInv, Exhausted
<1>6. \A e \in Bad : e.received = MaxReceiveCount
    BY <1>2 DEF IInv, HandleInv, Exhausted
<1>7. \A e \in Good : n[e.id] = e.received + 1
    BY <1>3, <1>4
<1>8. n \in [Ids -> 1 .. MaxReceiveCount]
    <2>1. \A i \in D : \E e \in Good : e.id = i
        BY DEF IdsOf
    <2> QED BY <1>4, <1>5, <2>1
<1>9. D \cap B = {}
    BY <1>1, <1>2 DEF IdsOf
<1>10. \A i \in D \cup B : phaseBar[i] = "ready"
    <2>1. \A i \in D \cup B : i \in Ids /\ i \in IdsOf(messages)
        BY <1>3 DEF IdsOf
    <2> QED BY <2>1, PhaseFacts
<1> HIDE DEF n
<1>11. \A i \in D : /\ n[i] \in 1 .. MaxReceiveCount
                    /\ Port!Attempts(i) = {<<i, k>> : k \in 1 .. (n[i] - 1)}
    <2>1. ASSUME NEW e \in Good
          PROVE  /\ n[e.id] \in 1 .. MaxReceiveCount
                 /\ Port!Attempts(e.id) = {<<e.id, k>> : k \in 1 .. (n[e.id] - 1)}
        <3>1. e \in Waiting /\ e.received \in Nat
            BY <1>2 DEF IInv, HandleInv
        <3>2. n[e.id] = e.received + 1
            BY <1>7
        <3>3. n[e.id] - 1 = e.received
            BY <3>1, <3>2
        <3>4. Port!Attempts(e.id) = {<<e.id, k>> : k \in 1 .. e.received}
            BY <3>1, AttemptsFacts
        <3>5. n[e.id] \in 1 .. MaxReceiveCount
            BY <1>5, <3>2
        <3> QED BY <3>3, <3>4, <3>5
    <2>2. \A i \in D : \E e \in Good : e.id = i
        BY DEF IdsOf
    <2> QED BY <2>1, <2>2
<1>12. \A i \in B : Port!Attempts(i) = {<<i, k>> : k \in 1 .. MaxReceiveCount}
    <2> SUFFICES ASSUME NEW e \in Bad
                 PROVE  Port!Attempts(e.id) = {<<e.id, k>> : k \in 1 .. MaxReceiveCount}
        BY DEF IdsOf
    <2> QED BY <1>2, <1>6, AttemptsFacts
<1>13. \A e \in S : Deliver(e).id = e.id /\ Bury(e).id = e.id /\ Deliver(e).received = e.received + 1
    BY <1>2 DEF Deliver, Bury, Envelope
<1>14. /\ IdsOf(inFlight)' = IdsOf(inFlight) \cup D
       /\ IdsOf(deadLetters)' = IdsOf(deadLetters) \cup B
    <2>1. \A e \in Good : \E x \in inFlight' : x.id = e.id
        BY <1>13 DEF Receive
    <2>2. \A e \in Bad : \E x \in deadLetters' : x.id = e.id
        BY <1>13 DEF Receive
    <2> QED BY <1>13, <2>1, <2>2 DEF Receive, IdsOf
<1>15. IdsOf(messages)' = IdsOf(messages) \ (D \cup B) /\ acked' = acked
    <2>1. messages' = messages \ S /\ S = Good \cup Bad /\ messages \subseteq Everywhere
        BY DEF Receive, Everywhere
    <2>2. acked' = acked
        BY DEF Receive
    <2> QED BY <1>1, <2>1, <2>2 DEF IdsOf
<1>16. phaseBar' = [i \in Ids |-> IF i \in D THEN "leased"
                                ELSE IF i \in B THEN "dead" ELSE phaseBar[i]]
    <2>1. \A i \in D \cup B : i \notin acked /\ i \notin IdsOf(deadLetters) /\ i \notin IdsOf(inFlight)
        BY DEF IInv, Conservation, Everywhere, IdsOf
    <2> QED BY <1>9, <1>14, <1>15, <2>1 DEF phaseBar, PhaseOf
<1>17. deliveriesBar' = deliveriesBar \cup {<<i, n[i]>> : i \in D}
    <2>1. receipts' = receipts \cup {Receipt(Deliver(e)) : e \in Good}
        BY DEF Receive
    <2>2. \A e \in Good : /\ Receipt(Deliver(e)).id = e.id
                          /\ Receipt(Deliver(e)).received = n[e.id]
        BY <1>7, <1>13 DEF Receipt
    <2>3. \A d \in deliveriesBar' : d \in deliveriesBar \/ \E i \in D : d = <<i, n[i]>>
        BY <2>1, <2>2, <1>4 DEF deliveriesBar
    <2>4. deliveriesBar \subseteq deliveriesBar'
        BY <2>1 DEF deliveriesBar
    <2>5. ASSUME NEW i \in D PROVE <<i, n[i]>> \in deliveriesBar'
        <3>1. PICK e \in Good : e.id = i
            BY DEF IdsOf
        <3>2. Receipt(Deliver(e)) \in receipts'
            BY <2>1
        <3> QED BY <2>2, <3>1, <3>2 DEF deliveriesBar
    <2> QED BY <2>3, <2>4, <2>5
<1>18. Port!Poll(D, B, n)
    BY <1>9, <1>10, <1>11, <1>12, <1>16, <1>17 DEF Port!Poll
<1> QED BY <1>3, <1>8, <1>18

LEMMA PortAck ==
    ASSUME IInv, NEW r \in receipts, Ack(r)
    PROVE  (\E i \in Ids : Port!Settle(i)) \/ UNCHANGED Port!vars
<1>1. deliveriesBar' = deliveriesBar
    BY DEF Ack, deliveriesBar
<1>2. CASE Holding(r) = {}
    <2>1. UNCHANGED <<messages, inFlight, deadLetters, acked>>
        BY <1>2 DEF Ack, IdsOf
    <2>2. phaseBar' = phaseBar
        BY <2>1 DEF phaseBar, PhaseOf, IdsOf
    <2> QED BY <1>1, <2>2 DEF Port!vars
<1>3. CASE Holding(r) # {}
    <2>1. PICK e \in inFlight : e \in Holding(r)
        BY <1>3 DEF Holding
    <2>2. \A f \in Everywhere : f.id = e.id => f = e
        BY <2>1 DEF IInv, Conservation, Everywhere
    <2>3. e.id \in Ids
        BY <2>1 DEF IInv, TypeOK, Envelope
    <2>4. Holding(r) = {e}
        <3>1. \A f \in Holding(r) : f \in inFlight /\ f.handle = <<f.id, f.received>> /\ f.handle = r.handle
            BY DEF Holding, IInv, HandleInv, Waiting
        <3>2. \A f \in Holding(r) : f.id = e.id
            BY <2>1, <3>1
        <3> QED BY <2>1, <2>2, <3>1, <3>2 DEF Everywhere
    <2>5. /\ acked' = acked \cup {e.id}
          /\ IdsOf(inFlight)' = IdsOf(inFlight) \ {e.id}
          /\ UNCHANGED <<IdsOf(messages), IdsOf(deadLetters)>>
        BY <2>1, <2>2, <2>4 DEF Ack, IdsOf, Everywhere
    <2>6. phaseBar[e.id] = "leased"
        BY <2>1, <2>3, PhaseFacts DEF IdsOf
    <2>7. phaseBar' = [phaseBar EXCEPT ![e.id] = "done"]
        BY <2>5 DEF phaseBar, PhaseOf
    <2> QED BY <1>1, <2>3, <2>6, <2>7 DEF Port!Settle
<1> QED BY <1>2, <1>3

LEMMA PortNack ==
    ASSUME IInv, NEW r \in receipts, Nack(r)
    PROVE  \E i \in Ids : Port!Return(i)
<1>1. deliveriesBar' = deliveriesBar
    BY DEF Nack, deliveriesBar
<1>2. PICK e \in inFlight : e \in Holding(r)
    BY DEF Holding, Nack
<1>3. \A f \in Everywhere : f.id = e.id => f = e
    BY <1>2 DEF IInv, Conservation, Everywhere
<1>4. e.id \in Ids /\ e \in Envelope
    BY <1>2 DEF IInv, TypeOK, Envelope
<1>5. Holding(r) = {e}
    <2>1. \A f \in Holding(r) : f \in inFlight /\ f.handle = <<f.id, f.received>> /\ f.handle = r.handle
        BY DEF Holding, IInv, HandleInv, Waiting
    <2>2. \A f \in Holding(r) : f.id = e.id
        BY <1>2, <2>1
    <2> QED BY <1>2, <1>3, <2>1, <2>2 DEF Everywhere
<1>6. [e EXCEPT !.visibleAt = now].id = e.id
    BY <1>4 DEF Envelope
<1>7. /\ IdsOf(messages)' = IdsOf(messages) \cup {e.id}
      /\ IdsOf(inFlight)' = IdsOf(inFlight) \ {e.id}
      /\ UNCHANGED <<acked, IdsOf(deadLetters)>>
    <2>1. messages' = messages \cup {[e EXCEPT !.visibleAt = now]} /\ inFlight' = inFlight \ {e}
        BY <1>5 DEF Nack
    <2>2. IdsOf(messages)' = IdsOf(messages) \cup {e.id}
        BY <1>6, <2>1 DEF IdsOf
    <2>3. IdsOf(inFlight)' = IdsOf(inFlight) \ {e.id}
        BY <1>2, <1>3, <2>1 DEF IdsOf, Everywhere
    <2> QED BY <2>2, <2>3 DEF Nack, IdsOf
<1>8. phaseBar[e.id] = "leased" /\ e.id \notin acked /\ e.id \notin IdsOf(deadLetters)
    BY <1>2, <1>3, <1>4, PhaseFacts DEF IdsOf, IInv, Conservation, Everywhere
<1>9. phaseBar' = [phaseBar EXCEPT ![e.id] = "ready"]
    BY <1>7, <1>8 DEF phaseBar, PhaseOf
<1> QED BY <1>1, <1>4, <1>8, <1>9 DEF Port!Return

LEMMA PortStep == IInv /\ IInv' /\ [Next]_vars => [Port!Next]_Port!vars
<1> SUFFICES ASSUME IInv, IInv', [Next]_vars PROVE Port!Next \/ UNCHANGED Port!vars
    BY DEF Port!vars
<1>1. ASSUME NEW S \in SUBSET Ids, NEW delay \in Delays, Enqueue(S, delay)
      PROVE  Port!Next
    BY <1>1, PortEnqueue DEF Port!Next
<1>2. ASSUME NEW S \in SUBSET messages, NEW max \in 1 .. MaxBatch, Receive(S, max)
      PROVE  Port!Next
    BY <1>2, PortReceive DEF Port!Next
<1>3. ASSUME NEW r \in receipts, Ack(r) PROVE Port!Next \/ UNCHANGED Port!vars
    BY <1>3, PortAck DEF Port!Next
<1>4. ASSUME NEW r \in receipts, Nack(r) PROVE Port!Next
    BY <1>4, PortNack DEF Port!Next
<1>5. ASSUME NEW r \in receipts, ExtendVisibility(r, VisibilityTimeout)
      PROVE  UNCHANGED Port!vars
    <2> DEFINE G == {[e EXCEPT !.visibleAt = now + VisibilityTimeout] : e \in Holding(r)}
    <2>1. \A e \in Holding(r) : [e EXCEPT !.visibleAt = now + VisibilityTimeout].id = e.id
        BY DEF Holding, IInv, TypeOK, Envelope
    <2>2. IdsOf(G) = IdsOf(Holding(r))
        <3>1. IdsOf(G) \subseteq IdsOf(Holding(r))
            BY <2>1 DEF IdsOf
        <3>2. ASSUME NEW e \in Holding(r) PROVE e.id \in IdsOf(G)
            <4>1. [e EXCEPT !.visibleAt = now + VisibilityTimeout] \in G
                OBVIOUS
            <4> QED BY <2>1, <4>1 DEF IdsOf
        <3> QED BY <3>1, <3>2 DEF IdsOf
    <2>3. inFlight' = (inFlight \ Holding(r)) \cup G /\ Holding(r) \subseteq inFlight
        BY <1>5 DEF ExtendVisibility, Holding
    <2> HIDE DEF G
    <2>4. IdsOf(inFlight)' = IdsOf(inFlight)
        BY <2>2, <2>3 DEF IdsOf
    <2>5. UNCHANGED <<acked, IdsOf(messages), IdsOf(deadLetters), deliveriesBar>>
        BY <1>5 DEF ExtendVisibility, IdsOf, deliveriesBar
    <2> QED BY <2>4, <2>5 DEF Port!vars, phaseBar, PhaseOf
<1>6. CASE Close \/ Tick \/ UNCHANGED vars
    <2>1. UNCHANGED <<messages, inFlight, deadLetters, receipts, acked>>
        BY <1>6 DEF Close, Tick, vars
    <2> QED BY <2>1 DEF Port!vars, phaseBar, PhaseOf, IdsOf, deliveriesBar
<1> QED BY <1>1, <1>2, <1>3, <1>4, <1>5, <1>6 DEF Next, Poll

(* The in-memory queue implements the Queue port's abstract queue.          *)
THEOREM QueueImplementsPort == Spec => ImplementsPort
<1>1. Init => Port!Init
    BY DEF Init, Port!Init, phaseBar, PhaseOf, IdsOf, deliveriesBar
<1> QED BY <1>1, PortStep, Invariance, PTL DEF Spec, ImplementsPort, Port!Spec
=============================================================================
