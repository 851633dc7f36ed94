------------------------- MODULE MediaAsset_proofs -------------------------
(***************************************************************************)
(* Safety of the download pipeline for any number of posts, contents,      *)
(* slots, messages, receives and faults.                                   *)
(***************************************************************************)
EXTENDS MediaAsset, TLAPS

(* A post whose download was done, or skipped for want of a URL. *)
Done(m) == row[m].key # NoContent \/ row[m].bare
Sent(x) == msg[x].state # "unsent"

(* A job is sent for an existing row, a row's key is that of its post, and  *)
(* a row without a URL is one of a post that was listed without it.         *)
MsgInv == \A x \in Msgs : Sent(x) => row[msg[x].media].status # "none"
RowInv ==
    \A m \in Media : /\ row[m].key \in {NoContent, Bytes[m]}
                     /\ row[m].status = "stored" => row[m].key # NoContent
                     /\ row[m].status # "none" => row[m].url \/ row[m].bare

(* What a slot has established when it is about to ack or to skip.          *)
SlotInv(s) ==
    /\ pc[s] # "idle" => job[s] \in Msgs \X (1 .. MaxReceives) /\ Sent(job[s][1])
    /\ pc[s] = "ack" => Done(MediaOf(s))
    /\ pc[s] = "skip" => row[MediaOf(s)].bare

(* As long as no two slots have used one partial file at once, no two do.   *)
Exclusive == ~shared
Alone ==
    \A s, v \in Slots : UsesPartial(s) /\ UsesPartial(v) /\ TempOf(s) = TempOf(v) => s = v

KeysWhole == \A m \in Media : row[m].key # NoContent => target[row[m].key] = "whole"

WritingInv(s) ==
    /\ pc[s] = "store" => target[Content(s)] = "whole"
    /\ pc[s] = "write" => boot.driver = "local" /\ temp[TempOf(s)] = s
    /\ pc[s] = "rename" => boot.driver = "local" /\ temp[TempOf(s)] = "whole"

StoreInv ==
    /\ \A c \in Contents : target[c] \in {"absent", "whole"}
    /\ KeysWhole
    /\ Alone
    /\ \A s \in Slots : WritingInv(s)

IInv ==
    /\ TypeOK
    /\ MsgInv
    /\ RowInv
    /\ \A s \in Slots : SlotInv(s)
    /\ AckedMeansSettled
    /\ Exclusive => StoreInv

-----------------------------------------------------------------------------
(* What every step respects: a message keeps its post once it is sent, and  *)
(* a row neither disappears nor loses its key or its history.               *)
MsgFrame == \A x \in Msgs : Sent(x) => Sent(x)' /\ msg'[x].media = msg[x].media
RowFrame ==
    \A m \in Media :
        /\ row[m].status # "none" => row'[m].status # "none"
        /\ row[m].bare => row'[m].bare
        /\ row[m].key # NoContent => row'[m].key = row[m].key

(* Once a message is sent for it, a post that is done stays done. *)
LEMMA DoneStays ==
    ASSUME IInv, MsgFrame, RowFrame, NEW x \in Msgs, Sent(x)
    PROVE  /\ Sent(x)' /\ msg'[x].media = msg[x].media /\ msg[x].media \in Media
           /\ Done(msg[x].media) => Done(msg[x].media)'
           /\ row[msg[x].media].bare => row'[msg[x].media].bare
<1>1. msg[x].media \in Media
    BY DEF IInv, TypeOK, Msg
<1>2. row[msg[x].media].status # "none"
    BY DEF IInv, MsgInv
<1>3. row'[msg[x].media].status # "none" /\ Sent(x)' /\ msg'[x].media = msg[x].media
    BY <1>1, <1>2 DEF MsgFrame, RowFrame
<1> QED BY <1>1, <1>2, <1>3 DEF MsgFrame, RowFrame, Done

(* A slot that does not move keeps what it has established. *)
LEMMA SlotKeeps ==
    ASSUME IInv, MsgFrame, RowFrame, NEW v \in Slots,
           pc'[v] = pc[v], job'[v] = job[v]
    PROVE  /\ SlotInv(v)'
           /\ pc[v] # "idle" => MediaOf(v)' = MediaOf(v)
<1>1. SlotInv(v)
    BY DEF IInv
<1>2. CASE pc[v] = "idle"
    BY <1>2 DEF SlotInv
<1>3. CASE pc[v] # "idle"
    <2> DEFINE x == job[v][1]
    <2>1. x \in Msgs /\ Sent(x) /\ job[v] \in Msgs \X (1 .. MaxReceives)
        BY <1>1, <1>3 DEF SlotInv
    <2>2. /\ Sent(x)' /\ msg'[x].media = msg[x].media /\ msg[x].media \in Media
          /\ Done(msg[x].media) => Done(msg[x].media)'
          /\ row[msg[x].media].bare => row'[msg[x].media].bare
        BY <2>1, DoneStays
    <2>3. MediaOf(v)' = MediaOf(v) /\ MediaOf(v) = msg[x].media
        BY <2>2 DEF MediaOf
    <2> QED BY <1>1, <2>1, <2>2, <2>3 DEF SlotInv, Done
<1> QED BY <1>2, <1>3

(* If no message becomes acked, acked messages stay settled. *)
LEMMA AckedKeeps ==
    ASSUME IInv, MsgFrame, RowFrame,
           \A x \in Msgs : msg'[x].state = "acked" => msg[x].state = "acked"
    PROVE  AckedMeansSettled'
<1> SUFFICES ASSUME NEW x \in Msgs, msg'[x].state = "acked"
             PROVE  row'[msg'[x].media].key # NoContent \/ row'[msg'[x].media].bare
    BY DEF AckedMeansSettled
<1>1. msg[x].state = "acked" /\ Sent(x)
    BY DEF Sent
<1>2. Done(msg[x].media)
    BY <1>1 DEF IInv, AckedMeansSettled, Done
<1>3. msg'[x].media = msg[x].media /\ Done(msg[x].media)'
    BY <1>1, <1>2, DoneStays
<1> QED BY <1>3 DEF Done

(* A slot that does not move is not disturbed while the files are left     *)
(* alone.                                                                  *)
LEMMA WritingKeeps ==
    ASSUME IInv, MsgFrame, RowFrame, UNCHANGED <<boot, target, temp>>,
           NEW v \in Slots, pc'[v] = pc[v], job'[v] = job[v], WritingInv(v)
    PROVE  WritingInv(v)'
<1>1. CASE pc[v] = "idle"
    BY <1>1 DEF WritingInv
<1>2. CASE pc[v] # "idle"
    <2>1. MediaOf(v)' = MediaOf(v)
        BY <1>2, SlotKeeps
    <2> QED BY <2>1 DEF WritingInv, Content, TempOf
<1> QED BY <1>1, <1>2

(* The post and the content of a busy slot. *)
LEMMA BusySlot ==
    ASSUME IInv, NEW s \in Slots, pc[s] # "idle"
    PROVE  /\ job[s] \in Msgs \X (1 .. MaxReceives) /\ job[s][1] \in Msgs
           /\ Sent(job[s][1])
           /\ MediaOf(s) \in Media /\ Content(s) \in Contents
           /\ TempOf(s) \in Processes \X Contents
           /\ row[MediaOf(s)].status # "none"
<1> USE AssetAssumption
<1>1. job[s] \in Msgs \X (1 .. MaxReceives) /\ job[s][1] \in Msgs /\ Sent(job[s][1])
    BY DEF IInv, SlotInv
<1>2. MediaOf(s) \in Media
    BY <1>1 DEF IInv, TypeOK, Msg, MediaOf
<1>3. row[MediaOf(s)].status # "none"
    BY <1>1 DEF IInv, MsgInv, MediaOf
<1>4. boot.home[s] \in Processes
    BY DEF IInv, TypeOK
<1> QED BY <1>1, <1>2, <1>3, <1>4 DEF Content, TempOf

(* Partial files stay apart as long as no slot opens one. *)
LEMMA AloneKeeps ==
    ASSUME IInv, MsgFrame, boot' = boot, Alone,
           \A v \in Slots : UsesPartial(v)' => UsesPartial(v) /\ job'[v] = job[v]
    PROVE  Alone'
<1>1. ASSUME NEW v \in Slots, UsesPartial(v)' PROVE UsesPartial(v) /\ TempOf(v)' = TempOf(v)
    <2>1. UsesPartial(v) /\ job'[v] = job[v] /\ pc[v] # "idle"
        BY <1>1 DEF UsesPartial
    <2>2. msg'[job[v][1]].media = msg[job[v][1]].media
        BY <2>1, BusySlot DEF MsgFrame
    <2> QED BY <2>1, <2>2 DEF TempOf, Content, MediaOf
<1> QED BY <1>1 DEF Alone

(***************************************************************************)
(* A step that moves one slot and writes neither tables, messages nor      *)
(* files: reading the row, asking the CDN, looking for the object, and the *)
(* failures that only change where the slot goes.                          *)
(***************************************************************************)
LEMMA SlotMoves ==
    ASSUME IInv, NEW s \in Slots, NEW k \in Steps, pc[s] # "idle",
           UNCHANGED <<boot, row, msg, store, job>>, Goto(s, k), faults' \in Nat,
           k = "ack" => Done(MediaOf(s)),
           k = "skip" => row[MediaOf(s)].bare,
           k = "store" => target[Content(s)] # "absent",
           k \notin {"write", "rename"}
    PROVE  IInv'
<1>1. TypeOK'
    BY DEF IInv, TypeOK, store, Goto
<1>2. MsgFrame /\ RowFrame
    BY DEF MsgFrame, RowFrame, Sent
<1>3. MsgInv' /\ RowInv'
    BY DEF IInv, MsgInv, RowInv, Sent
<1>4. pc'[s] = k /\ \A v \in Slots : v # s => pc'[v] = pc[v]
    BY DEF IInv, TypeOK, Goto
<1>5. MediaOf(s)' = MediaOf(s) /\ Content(s)' = Content(s) /\ Content(s) \in Contents
    BY BusySlot DEF MediaOf, Content
<1>6. \A v \in Slots : SlotInv(v)'
    <2>1. SlotInv(s)'
        BY <1>4, <1>5, BusySlot DEF SlotInv, Done, Sent
    <2>2. ASSUME NEW v \in Slots, v # s PROVE SlotInv(v)'
        BY <1>2, <1>4, <2>2, SlotKeeps
    <2> QED BY <2>1, <2>2
<1>7. AckedMeansSettled'
    BY <1>2, AckedKeeps
<1>8. ASSUME Exclusive' PROVE StoreInv'
    <2>1. StoreInv
        BY <1>8 DEF IInv, Exclusive, store
    <2>2. WritingInv(s)'
        BY <1>4, <1>5, <2>1 DEF WritingInv, StoreInv, store
    <2>3. ASSUME NEW v \in Slots, v # s PROVE WritingInv(v)'
        BY <1>2, <1>4, <2>1, <2>3, WritingKeeps DEF StoreInv, store
    <2>4. Alone'
        BY <1>2, <1>4, <2>1, AloneKeeps DEF StoreInv, UsesPartial
    <2> QED BY <2>1, <2>2, <2>3, <2>4 DEF StoreInv, KeysWhole, store
<1> QED BY <1>1, <1>3, <1>6, <1>7, <1>8 DEF IInv

LEMMA ReadStep ==
    ASSUME IInv, NEW s \in Slots,
           \/ Load(s) \/ Fetch(s) \/ FetchFails(s) \/ Exists(s) \/ RenameFails(s) \/ CallFails(s)
    PROVE  IInv'
<1> USE DEF Steps, TrySteps, PutSteps
<1>0. faults \in Nat /\ faults + 1 \in Nat
    BY DEF IInv, TypeOK
<1>1. CASE Load(s)
    <2> DEFINE r == row[MediaOf(s)]
               k == IF AlreadyDone(r) THEN "ack" ELSE IF r.url THEN "mark" ELSE "skip"
    <2>1. /\ pc[s] # "idle" /\ Goto(s, k) /\ UNCHANGED <<boot, row, msg, store, job, faults>>
        BY <1>1 DEF Load
    <2>2. k \in Steps
        OBVIOUS
    <2>3. k = "ack" => Done(MediaOf(s))
        BY <2>1, BusySlot DEF AlreadyDone, IInv, RowInv, Done
    <2>4. k = "skip" => row[MediaOf(s)].bare
        BY <2>1, BusySlot DEF IInv, RowInv
    <2>5. k \notin {"write", "rename", "store"}
        OBVIOUS
    <2> HIDE DEF k
    <2> QED BY <1>0, <2>1, <2>2, <2>3, <2>4, <2>5, SlotMoves
<1>2. CASE Fetch(s)
    BY <1>0, <1>2, SlotMoves DEF Fetch
<1>3. CASE FetchFails(s)
    BY <1>0, <1>3, SlotMoves DEF FetchFails
<1>4. CASE Exists(s)
    <2> DEFINE k == IF target[Content(s)] = "absent" THEN "put" ELSE "store"
    <2>1. /\ pc[s] # "idle" /\ Goto(s, k) /\ UNCHANGED <<boot, row, msg, store, job, faults>>
        BY <1>4 DEF Exists
    <2>2. /\ k \in Steps /\ k \notin {"write", "rename", "ack", "skip"}
          /\ k = "store" => target[Content(s)] # "absent"
        OBVIOUS
    <2> HIDE DEF k
    <2> QED BY <1>0, <2>1, <2>2, SlotMoves
<1>5. CASE RenameFails(s)
    BY <1>0, <1>5, SlotMoves DEF RenameFails
<1>6. CASE CallFails(s)
    <2> DEFINE k == ErrorStep(pc[s])
    <2>1. /\ pc[s] # "idle" /\ Goto(s, k) /\ UNCHANGED <<boot, row, msg, store, job>>
          /\ faults' = faults + 1 /\ pc[s] # "nack"
        BY <1>6 DEF CallFails, Call
    <2>2. pc[s] \in Steps
        BY DEF IInv, TypeOK
    <2>3. k \in Steps /\ k \notin {"write", "rename", "ack", "skip", "store"}
        BY <2>1, <2>2 DEF ErrorStep
    <2> HIDE DEF k
    <2> QED BY <1>0, <2>1, <2>3, SlotMoves
<1> QED BY <1>1, <1>2, <1>3, <1>4, <1>5, <1>6

(***************************************************************************)
(* A step of the queue: rows and files stay, messages keep their posts.    *)
(* A slot that leaves, or that has just received a message, has nothing to *)
(* keep.                                                                   *)
(***************************************************************************)
LEMMA QueueStep ==
    ASSUME IInv, TypeOK', MsgFrame, UNCHANGED <<boot, row, store>>, AckedMeansSettled',
           \A x \in Msgs : Sent(x)' => Sent(x),
           \A v \in Slots : \/ pc'[v] = pc[v] /\ job'[v] = job[v]
                            \/ pc'[v] = "idle"
                            \/ /\ pc'[v] = "load" /\ job'[v] \in Msgs \X (1 .. MaxReceives)
                               /\ Sent(job'[v][1])
    PROVE  IInv'
<1>1. RowFrame
    BY DEF RowFrame
<1>2. MsgInv' /\ RowInv'
    BY DEF IInv, MsgInv, RowInv, MsgFrame
<1>3. ASSUME NEW v \in Slots PROVE SlotInv(v)'
    <2>1. CASE pc'[v] = pc[v] /\ job'[v] = job[v]
        BY <1>1, <2>1, SlotKeeps
    <2>2. CASE pc'[v] = "idle"
        BY <2>2 DEF SlotInv
    <2>3. CASE /\ pc'[v] = "load" /\ job'[v] \in Msgs \X (1 .. MaxReceives)
               /\ Sent(job'[v][1])
        <3>1. job'[v][1] \in Msgs
            BY <2>3
        <3>2. Sent(job[v][1])'
            BY <2>3, <3>1 DEF MsgFrame, Sent
        <3> QED BY <2>3, <3>2 DEF SlotInv
    <2> QED BY <2>1, <2>2, <2>3
<1>4. ASSUME Exclusive' PROVE StoreInv'
    <2>1. StoreInv
        BY <1>4 DEF IInv, Exclusive, store
    <2>2. ASSUME NEW v \in Slots PROVE WritingInv(v)'
        <3>1. CASE pc'[v] = pc[v] /\ job'[v] = job[v]
            BY <1>1, <2>1, <3>1, WritingKeeps DEF StoreInv, store
        <3>2. CASE pc'[v] \in {"idle", "load"}
            BY <3>2 DEF WritingInv
        <3> QED BY <3>1, <3>2
    <2>3. Alone'
        BY <2>1, AloneKeeps DEF StoreInv, UsesPartial
    <2> QED BY <2>1, <2>2, <2>3 DEF StoreInv, KeysWhole, store
<1> QED BY <1>2, <1>3, <1>4 DEF IInv

LEMMA DeliverStep ==
    ASSUME IInv, NEW s \in Slots, NEW x \in Msgs, Deliver(s, x)
    PROVE  IInv'
<1> USE AssetAssumption
<1>1. msg[x] \in Msg /\ msg[x].receives \in Nat /\ msg[x].receives + 1 \in 1 .. MaxReceives
    BY DEF IInv, TypeOK, Msg, Deliver, Exhausted
<1>2. TypeOK'
    <2>1. msg' \in [Msgs -> Msg]
        BY <1>1 DEF IInv, TypeOK, Msg, Deliver
    <2>2. job' \in [Slots -> (Msgs \X (1 .. MaxReceives)) \cup {NoMsg}]
        BY <1>1 DEF IInv, TypeOK, Deliver
    <2> QED BY <2>1, <2>2 DEF IInv, TypeOK, Deliver, store, Goto, Steps
<1>3. MsgFrame /\ RowFrame /\ \A y \in Msgs : Sent(y)' => Sent(y)
    BY DEF MsgFrame, RowFrame, Sent, Deliver, IInv, TypeOK, Msg
<1>4. AckedMeansSettled'
    <2>1. \A y \in Msgs : msg'[y].state = "acked" => msg[y].state = "acked"
        BY DEF Deliver, IInv, TypeOK, Msg
    <2> QED BY <1>3, <2>1, AckedKeeps
<1>5. /\ pc'[s] = "load" /\ job'[s] \in Msgs \X (1 .. MaxReceives) /\ Sent(job'[s][1])
      /\ \A v \in Slots : v # s => pc'[v] = pc[v] /\ job'[v] = job[v]
    BY <1>1 DEF Deliver, IInv, TypeOK, Goto, Sent
<1>6. UNCHANGED <<boot, row, store>>
    BY DEF Deliver
<1> QED BY <1>2, <1>3, <1>4, <1>5, <1>6, QueueStep

(* The redrive policy, a visibility timeout: one message changes its state. *)
LEMMA TimerStep ==
    ASSUME IInv, NEW x \in Msgs, Redrive(x) \/ VisibilityExpires(x)
    PROVE  IInv'
<1>1. UNCHANGED <<boot, row, store, slot, faults>>
    BY DEF Redrive, VisibilityExpires
<1>2. PICK k \in {"dead", "visible"} : msg' = [msg EXCEPT ![x].state = k]
    BY DEF Redrive, VisibilityExpires
<1>3. msg[x].state # "unsent" /\ msg[x] \in Msg
    BY DEF Redrive, VisibilityExpires, IInv, TypeOK
<1>4. TypeOK'
    <2>1. msg' \in [Msgs -> Msg]
        BY <1>2, <1>3 DEF IInv, TypeOK, Msg
    <2> QED BY <1>1, <2>1 DEF IInv, TypeOK, store, slot
<1>5. MsgFrame /\ RowFrame /\ \A y \in Msgs : Sent(y)' => Sent(y)
    BY <1>1, <1>2, <1>3 DEF MsgFrame, RowFrame, Sent, IInv, TypeOK, Msg
<1>6. AckedMeansSettled'
    <2>1. \A y \in Msgs : msg'[y].state = "acked" => msg[y].state = "acked"
        BY <1>2 DEF IInv, TypeOK, Msg
    <2> QED BY <1>5, <2>1, AckedKeeps
<1> QED BY <1>1, <1>4, <1>5, <1>6, QueueStep DEF slot

(* ack and nack: the slot leaves; an ack removes only what is done. *)
LEMMA SettleStep ==
    ASSUME IInv, NEW s \in Slots, NEW obeyed \in BOOLEAN, Ack(s, obeyed) \/ Nack(s, obeyed)
    PROVE  IInv'
<1> DEFINE x == job[s][1]
<1>1. /\ pc[s] \in {"ack", "nack"} /\ Leave(s) /\ UNCHANGED <<boot, row, store, faults>>
    BY DEF Ack, Nack
<1>2. x \in Msgs /\ Sent(x) /\ MediaOf(s) = msg[x].media
    BY <1>1, BusySlot DEF MediaOf
<1>3. PICK k \in {"acked", "visible", msg[x].state} :
          /\ msg' = [msg EXCEPT ![x].state = k]
          /\ k = "acked" => pc[s] = "ack" \/ msg[x].state = "acked"
    BY DEF Ack, Nack
<1>4. msg[x].state # "unsent" /\ msg[x] \in Msg /\ k # "unsent"
    BY <1>2, <1>3 DEF IInv, TypeOK, Sent
<1>5. /\ msg' \in [Msgs -> Msg] /\ msg'[x].state = k
      /\ \A y \in Msgs : msg'[y].media = msg[y].media /\ (y # x => msg'[y] = msg[y])
    BY <1>2, <1>3, <1>4 DEF IInv, TypeOK, Msg
<1>6. /\ pc' = [pc EXCEPT ![s] = "idle"] /\ job' = [job EXCEPT ![s] = NoMsg]
    BY <1>1 DEF Leave, Goto
<1>7. TypeOK'
    BY <1>1, <1>5, <1>6 DEF IInv, TypeOK, store, Steps
<1>8. MsgFrame /\ RowFrame /\ \A y \in Msgs : Sent(y)' => Sent(y)
    BY <1>1, <1>2, <1>4, <1>5 DEF MsgFrame, RowFrame, Sent
<1>9. AckedMeansSettled'
    <2>1. k = "acked" => Done(msg[x].media)
        BY <1>2, <1>3 DEF IInv, SlotInv, AckedMeansSettled, Done
    <2>2. row' = row
        BY <1>1
    <2> QED BY <1>5, <2>1, <2>2 DEF IInv, AckedMeansSettled, Done
<1>10. \A v \in Slots : (pc'[v] = pc[v] /\ job'[v] = job[v]) \/ pc'[v] = "idle"
    BY <1>6 DEF IInv, TypeOK
<1> QED BY <1>1, <1>7, <1>8, <1>9, <1>10, QueueStep

LEMMA NackFailsStep ==
    ASSUME IInv, NEW s \in Slots, NackFails(s)
    PROVE  IInv'
<1>1. /\ UNCHANGED <<boot, row, msg, store>> /\ faults' = faults + 1
      /\ pc' = [pc EXCEPT ![s] = "idle"] /\ job' = [job EXCEPT ![s] = NoMsg]
    BY DEF NackFails, Call, Leave, Goto
<1>2. TypeOK'
    BY <1>1 DEF IInv, TypeOK, store, Steps
<1>3. MsgFrame /\ RowFrame /\ \A y \in Msgs : Sent(y)' => Sent(y)
    BY <1>1 DEF MsgFrame, RowFrame, Sent
<1>4. AckedMeansSettled'
    BY <1>1, <1>3, AckedKeeps
<1>5. \A v \in Slots : (pc'[v] = pc[v] /\ job'[v] = job[v]) \/ pc'[v] = "idle"
    BY <1>1 DEF IInv, TypeOK
<1> QED BY <1>1, <1>2, <1>3, <1>4, <1>5, QueueStep

(***************************************************************************)
(* A slot updates the row of its post.                                     *)
(***************************************************************************)
LEMMA RowStep ==
    ASSUME IInv, NEW s \in Slots, NEW k \in {"ack", "nack", "fetch"}, pc[s] # "idle",
           NEW r \in Row, row' = [row EXCEPT ![MediaOf(s)] = r],
           r.url = row[MediaOf(s)].url, r.bare = row[MediaOf(s)].bare, r.status # "none",
           \/ r.key = row[MediaOf(s)].key /\ r.status # "stored"
           \/ r.key = Content(s) /\ pc[s] = "store",
           k = "ack" => r.key # NoContent \/ r.bare,
           UNCHANGED <<boot, msg, store, job, faults>>, Goto(s, k)
    PROVE  IInv'
<1> USE AssetAssumption
<1> DEFINE m == MediaOf(s)
<1>0. /\ m \in Media /\ Content(s) \in Contents /\ Content(s) = Bytes[m]
      /\ job[s] \in Msgs \X (1 .. MaxReceives) /\ Sent(job[s][1])
      /\ row[m].status # "none" /\ job[s][1] \in Msgs
    BY BusySlot DEF Content
<1>1. /\ row' \in [Media -> Row] /\ row'[m] = r
      /\ \A n \in Media : n # m => row'[n] = row[n]
    BY <1>0 DEF IInv, TypeOK
<1>2. TypeOK'
    BY <1>1 DEF IInv, TypeOK, store, Goto, Steps, TrySteps, PutSteps
<1>3. RowInv'
    BY <1>0, <1>1 DEF IInv, RowInv
<1>4. MsgFrame
    BY DEF MsgFrame, Sent
<1>5. RowFrame
    BY <1>0, <1>1 DEF RowFrame, IInv, RowInv
<1>6. MsgInv'
    BY <1>4, <1>5 DEF IInv, MsgInv, MsgFrame, RowFrame, TypeOK, Msg, Sent
<1>7. pc'[s] = k /\ job' = job /\ \A v \in Slots : v # s => pc'[v] = pc[v]
    BY DEF IInv, TypeOK, Goto
<1>8. MediaOf(s)' = m
    BY DEF MediaOf
<1>9. \A v \in Slots : SlotInv(v)'
    <2>1. SlotInv(s)'
        BY <1>0, <1>1, <1>7, <1>8 DEF SlotInv, Done, Sent
    <2>2. ASSUME NEW v \in Slots, v # s PROVE SlotInv(v)'
        BY <1>4, <1>5, <1>7, <2>2, SlotKeeps
    <2> QED BY <2>1, <2>2
<1>10. AckedMeansSettled'
    BY <1>4, <1>5, AckedKeeps
<1>11. ASSUME Exclusive' PROVE StoreInv'
    <2>1. StoreInv
        BY <1>11 DEF IInv, Exclusive, store
    <2>2. KeysWhole'
        BY <1>0, <1>1, <2>1 DEF StoreInv, KeysWhole, WritingInv, store
    <2>3. WritingInv(s)'
        BY <1>7 DEF WritingInv
    <2>4. ASSUME NEW v \in Slots, v # s PROVE WritingInv(v)'
        BY <1>4, <1>5, <1>7, <2>1, <2>4, WritingKeeps DEF StoreInv, store
    <2>5. Alone'
        BY <1>4, <1>7, <2>1, AloneKeeps DEF StoreInv, UsesPartial
    <2> QED BY <2>1, <2>2, <2>3, <2>4, <2>5 DEF StoreInv, store
<1> QED BY <1>2, <1>3, <1>6, <1>9, <1>10, <1>11 DEF IInv

LEMMA MarkStep ==
    ASSUME IInv, NEW s \in Slots,
           MarkSkipped(s) \/ MarkDownloading(s) \/ MarkStored(s) \/ MarkFailed(s)
    PROVE  IInv'
<1> USE AssetAssumption
<1> DEFINE m == MediaOf(s)
<1>1. pc[s] # "idle" /\ UNCHANGED <<boot, msg, store, job, faults>>
    BY DEF MarkSkipped, MarkDownloading, MarkStored, MarkFailed
<1>2. m \in Media /\ row[m] \in Row /\ Content(s) \in Contents
    BY <1>1, BusySlot DEF IInv, TypeOK
<1>3. ASSUME NEW k \in {"ack", "nack", "fetch"}, NEW status \in {"skipped", "downloading", "failed"},
             row' = [row EXCEPT ![m].status = status], Goto(s, k),
             k = "ack" => row[m].bare
      PROVE  IInv'
    <2> DEFINE r == [row[m] EXCEPT !.status = status]
    <2>1. row' = [row EXCEPT ![m] = r]
        BY <1>3
    <2>2. /\ r \in Row /\ r.url = row[m].url /\ r.bare = row[m].bare /\ r.key = row[m].key
          /\ r.status # "none" /\ r.status # "stored"
        BY <1>2, <1>3 DEF Row
    <2>3. k = "ack" => r.key # NoContent \/ r.bare
        BY <1>3, <2>2
    <2> HIDE DEF r, m
    <2> QED BY <1>1, <1>3, <2>1, <2>2, <2>3, RowStep DEF m
<1>4. CASE MarkSkipped(s)
    <2>1. row[m].bare
        BY <1>4 DEF MarkSkipped, IInv, SlotInv
    <2> QED BY <1>3, <1>4, <2>1 DEF MarkSkipped, SetStatus
<1>5. CASE MarkDownloading(s)
    BY <1>3, <1>5 DEF MarkDownloading, SetStatus
<1>6. CASE MarkFailed(s)
    BY <1>3, <1>6 DEF MarkFailed, SetStatus
<1>7. CASE MarkStored(s)
    <2> DEFINE r == [row[m] EXCEPT !.status = "stored", !.key = Content(s)]
    <2>1. /\ row' = [row EXCEPT ![m] = r] /\ pc[s] = "store" /\ Goto(s, "ack")
        BY <1>2, <1>7 DEF MarkStored, IInv, TypeOK
    <2>2. /\ r \in Row /\ r.url = row[m].url /\ r.bare = row[m].bare /\ r.key = Content(s)
          /\ r.status # "none" /\ r.key # NoContent
        BY <1>2 DEF Row
    <2> HIDE DEF r
    <2> QED BY <1>1, <2>1, <2>2, RowStep
<1> QED BY <1>4, <1>5, <1>6, <1>7

(***************************************************************************)
(* The sync side: a row is created or its URL refreshed, and maybe a       *)
(* message is sent for it.                                                 *)
(***************************************************************************)
LEMMA SyncStep ==
    ASSUME IInv, NEW m \in Media,
           SyncFails(m) \/ \E u \in BOOLEAN : SyncLists(m, u)
    PROVE  IInv'
<1> USE AssetAssumption
<1>1. PICK u \in BOOLEAN : EnsurePending(m, u)
    BY DEF SyncFails, SyncLists
<1>2. UNCHANGED <<boot, store, slot>> /\ faults' \in Nat
    <2>1. faults \in Nat /\ faults + 1 \in Nat
        BY DEF IInv, TypeOK
    <2>2. CASE SyncFails(m)
        BY <2>1, <2>2 DEF SyncFails
    <2>3. ASSUME NEW w \in BOOLEAN, SyncLists(m, w)
          PROVE  UNCHANGED <<boot, store, slot>> /\ faults' \in Nat
        BY <2>1, <2>3 DEF SyncLists
    <2> QED BY <2>2, <2>3
<1>3. row[m] \in Row
    BY DEF IInv, TypeOK
<1> DEFINE r == [row[m] EXCEPT !.url = u,
                               !.bare = row[m].bare \/ ~u,
                               !.status = IF row[m].status # "none" THEN row[m].status
                                          ELSE IF u THEN "pending" ELSE "skipped"]
<1>4. row' = [row EXCEPT ![m] = r]
    BY <1>1, <1>3 DEF EnsurePending, IInv, TypeOK
<1>5. /\ r \in Row /\ r.key = row[m].key /\ r.url = u /\ r.status # "none"
      /\ r.bare = (row[m].bare \/ ~u)
      /\ r.status = "stored" => row[m].status = "stored"
      /\ row[m].status # "none" => r.status = row[m].status
    BY <1>3 DEF Row
<1> HIDE DEF r
<1>6. /\ row' \in [Media -> Row] /\ row'[m] = r
      /\ \A n \in Media : n # m => row'[n] = row[n]
    BY <1>4, <1>5 DEF IInv, TypeOK
<1>7. \/ msg' = msg
      \/ \E x \in Msgs : /\ msg[x].state = "unsent"
                         /\ msg' = [msg EXCEPT ![x].media = m, ![x].state = "visible"]
    BY DEF SyncFails, SyncLists
<1>8. /\ msg' \in [Msgs -> Msg]
      /\ \A x \in Msgs : \/ msg'[x] = msg[x]
                         \/ /\ msg[x].state = "unsent" /\ msg'[x].media = m
                            /\ msg'[x].state = "visible"
    <2>1. CASE msg' = msg
        BY <2>1 DEF IInv, TypeOK
    <2>2. ASSUME NEW x \in Msgs, msg[x].state = "unsent",
                 msg' = [msg EXCEPT ![x].media = m, ![x].state = "visible"]
          PROVE  /\ msg' \in [Msgs -> Msg]
                 /\ \A y \in Msgs : \/ msg'[y] = msg[y]
                                    \/ /\ msg[y].state = "unsent" /\ msg'[y].media = m
                                       /\ msg'[y].state = "visible"
        BY <2>2 DEF IInv, TypeOK, Msg
    <2> QED BY <1>7, <2>1, <2>2
<1>9. TypeOK'
    BY <1>2, <1>6, <1>8 DEF IInv, TypeOK, store, slot
<1>10. MsgFrame
    BY <1>8 DEF MsgFrame, Sent
<1>11. RowFrame
    BY <1>1, <1>5, <1>6 DEF RowFrame, EnsurePending
<1>12. RowInv'
    BY <1>5, <1>6 DEF IInv, RowInv
<1>13. MsgInv'
    <2> SUFFICES ASSUME NEW x \in Msgs, Sent(x)'
                 PROVE  row'[msg'[x].media].status # "none"
        BY DEF MsgInv
    <2>1. CASE msg'[x] = msg[x]
        <3>1. Sent(x) /\ msg[x].media \in Media
            BY <2>1 DEF Sent, IInv, TypeOK, Msg
        <3> QED BY <1>11, <2>1, <3>1 DEF IInv, MsgInv, RowFrame
    <2>2. CASE msg'[x].media = m
        BY <1>5, <1>6, <2>2
    <2> QED BY <1>8, <2>1, <2>2
<1>14. \A v \in Slots : pc'[v] = pc[v] /\ job'[v] = job[v]
    BY <1>2 DEF slot
<1>15. \A v \in Slots : SlotInv(v)'
    BY <1>10, <1>11, <1>14, SlotKeeps
<1>16. AckedMeansSettled'
    <2>1. \A x \in Msgs : msg'[x].state = "acked" => msg[x].state = "acked"
        BY <1>8
    <2> QED BY <1>10, <1>11, <2>1, AckedKeeps
<1>17. ASSUME Exclusive' PROVE StoreInv'
    <2>1. StoreInv
        BY <1>2, <1>17 DEF IInv, Exclusive, store
    <2>2. KeysWhole'
        BY <1>2, <1>5, <1>6, <2>1 DEF StoreInv, KeysWhole, store
    <2>3. ASSUME NEW v \in Slots PROVE WritingInv(v)'
        BY <1>2, <1>10, <1>11, <1>14, <2>1, WritingKeeps DEF StoreInv, store
    <2>4. Alone'
        BY <1>2, <1>10, <1>14, <2>1, AloneKeeps DEF StoreInv, UsesPartial
    <2> QED BY <1>2, <2>1, <2>2, <2>3, <2>4 DEF StoreInv, store
<1> QED BY <1>9, <1>12, <1>13, <1>15, <1>16, <1>17 DEF IInv

(***************************************************************************)
(* A step on the files: tables and messages stay, and slots keep their     *)
(* jobs or are gone.                                                       *)
(***************************************************************************)
LEMMA FileStep ==
    ASSUME IInv, TypeOK', UNCHANGED <<boot, row, msg>>,
           \A v \in Slots : \/ pc'[v] = pc[v] /\ job'[v] = job[v]
                            \/ pc'[v] = "idle"
                            \/ /\ pc[v] # "idle" /\ job'[v] = job[v]
                               /\ pc'[v] \notin {"ack", "skip"},
           shared => shared',
           Exclusive /\ Exclusive' =>
               /\ \A c \in Contents : /\ target'[c] \in {"absent", "whole"}
                                      /\ target[c] = "whole" => target'[c] = "whole"
               /\ Alone'
               /\ \A v \in Slots : WritingInv(v)'
    PROVE  IInv'
<1> USE AssetAssumption
<1>1. MsgFrame /\ RowFrame
    BY DEF MsgFrame, RowFrame, Sent
<1>2. MsgInv' /\ RowInv'
    BY DEF IInv, MsgInv, RowInv, Sent
<1>3. ASSUME NEW v \in Slots PROVE SlotInv(v)'
    <2>1. CASE pc'[v] = pc[v] /\ job'[v] = job[v]
        BY <1>1, <2>1, SlotKeeps
    <2>2. CASE pc'[v] = "idle"
        BY <2>2 DEF SlotInv
    <2>3. CASE pc[v] # "idle" /\ job'[v] = job[v] /\ pc'[v] \notin {"ack", "skip"}
        BY <2>3, BusySlot DEF SlotInv, Sent
    <2> QED BY <2>1, <2>2, <2>3
<1>4. AckedMeansSettled'
    BY <1>1, AckedKeeps
<1>5. ASSUME Exclusive' PROVE StoreInv'
    <2>1. Exclusive /\ StoreInv
        BY <1>5 DEF IInv, Exclusive, store
    <2>2. ASSUME NEW m \in Media, row[m].key # NoContent
          PROVE  target'[row[m].key] = "whole"
        <3>1. row[m].key \in Contents
            BY <2>2 DEF IInv, TypeOK, Row
        <3> QED BY <1>5, <2>1, <2>2, <3>1 DEF StoreInv, KeysWhole
    <2> QED BY <1>5, <2>1, <2>2 DEF StoreInv, KeysWhole
<1> QED BY <1>2, <1>3, <1>4, <1>5 DEF IInv

(* A busy slot keeps its content while messages and jobs are left alone. *)
LEMMA SameContent ==
    ASSUME UNCHANGED <<boot, msg, job>>, NEW v \in Slots
    PROVE  Content(v)' = Content(v) /\ TempOf(v)' = TempOf(v)
BY DEF Content, TempOf, MediaOf

LEMMA S3PutStep ==
    ASSUME IInv, NEW s \in Slots, S3Put(s)
    PROVE  IInv'
<1> USE AssetAssumption
<1>1. /\ boot.driver = "s3" /\ pc[s] = "put" /\ UNCHANGED <<boot, row, msg, temp, handle, shared, job, faults>>
      /\ target' = [target EXCEPT ![Content(s)] = "whole"] /\ pc' = [pc EXCEPT ![s] = "store"]
    BY DEF S3Put, Goto
<1>2. Content(s) \in Contents
    BY <1>1, BusySlot
<1>3. TypeOK'
    BY <1>1, <1>2 DEF IInv, TypeOK, File, Steps, TrySteps
<1>4. pc'[s] = "store" /\ \A v \in Slots : v # s => pc'[v] = pc[v]
    BY <1>1 DEF IInv, TypeOK
<1>5. ASSUME Exclusive, Exclusive'
      PROVE  /\ \A c \in Contents : /\ target'[c] \in {"absent", "whole"}
                                    /\ target[c] = "whole" => target'[c] = "whole"
             /\ Alone'
             /\ \A v \in Slots : WritingInv(v)'
    <2>1. \A c \in Contents : /\ target'[c] \in {"absent", "whole"}
                              /\ target[c] = "whole" => target'[c] = "whole"
        BY <1>1, <1>2, <1>5 DEF IInv, StoreInv, TypeOK
    <2>2. ASSUME NEW v \in Slots PROVE WritingInv(v)'
        <3>1. WritingInv(v) /\ Content(v)' = Content(v) /\ TempOf(v)' = TempOf(v)
            BY <1>1, <1>5, SameContent DEF IInv, StoreInv
        <3>2. CASE v = s
            BY <1>1, <1>2, <1>4, <3>1, <3>2 DEF WritingInv, IInv, TypeOK
        <3>3. CASE v # s /\ pc[v] # "idle"
            BY <1>1, <1>4, <2>1, <3>1, <3>3, BusySlot DEF WritingInv
        <3>4. CASE v # s /\ pc[v] = "idle"
            BY <1>4, <3>4 DEF WritingInv
        <3> QED BY <3>2, <3>3, <3>4
    <2>3. Alone'
        <3>1. Alone /\ MsgFrame
            BY <1>1, <1>5 DEF IInv, StoreInv, MsgFrame, Sent
        <3> QED BY <1>1, <1>4, <3>1, AloneKeeps DEF UsesPartial
    <2> QED BY <2>1, <2>2, <2>3
<1> QED BY <1>1, <1>3, <1>4, <1>5, FileStep

(* LocalDiskStorage.putStream.  No other slot that has a partial file has  *)
(* that of s: it would be shared, from the moment the second opened it.    *)
LEMMA PartialStep ==
    ASSUME IInv, NEW s \in Slots,
           Open(s) \/ Write(s) \/ Rename(s) \/ WriteFails(s)
    PROVE  IInv'
<1> USE AssetAssumption
<1>1. /\ pc[s] \in PutSteps /\ UNCHANGED <<boot, row, msg, job>>
      /\ \E k \in {"write", "rename", "store", "fail"} : pc' = [pc EXCEPT ![s] = k]
    BY DEF Open, Write, Rename, WriteFails, Goto, PutSteps
<1>2. Content(s) \in Contents /\ TempOf(s) \in Processes \X Contents
    BY <1>1, BusySlot DEF PutSteps
<1>3. TypeOK'
    <2>1. /\ target' \in [Contents -> File] /\ temp' \in [Processes \X Contents -> File]
          /\ handle' \in [Slots -> {"none", "temp", "target", "gone"}]
        <3>1. CASE Open(s)
            BY <1>2, <3>1 DEF Open, OpenPartial, IInv, TypeOK, File
        <3>2. CASE Write(s)
            BY <3>2 DEF Write, CloseFile, Settled, IInv, TypeOK, File
        <3>3. CASE Rename(s)
            BY <1>2, <3>3 DEF Rename, IInv, TypeOK, File
        <3>4. CASE WriteFails(s)
            BY <1>2, <3>4 DEF WriteFails, Settled, IInv, TypeOK, File
        <3> QED BY <3>1, <3>2, <3>3, <3>4
    <2>2. faults' \in Nat
        BY DEF Open, Write, Rename, WriteFails, Call, IInv, TypeOK
    <2>3. pc' \in [Slots -> Steps]
        BY <1>1 DEF IInv, TypeOK, Steps, TrySteps, PutSteps
    <2>4. shared' \in BOOLEAN
        BY DEF Open, Write, Rename, WriteFails, IInv, TypeOK
    <2> QED BY <1>1, <2>1, <2>2, <2>3, <2>4 DEF IInv, TypeOK
<1>4. pc'[s] \notin {"ack", "skip"} /\ \A v \in Slots : v # s => pc'[v] = pc[v]
    BY <1>1 DEF IInv, TypeOK
<1>5. ASSUME Exclusive, Exclusive'
      PROVE  /\ \A c \in Contents : /\ target'[c] \in {"absent", "whole"}
                                    /\ target[c] = "whole" => target'[c] = "whole"
             /\ Alone'
             /\ \A v \in Slots : WritingInv(v)'
    <2>1. StoreInv /\ boot.driver = "local" /\ Alone
        <3>1. StoreInv /\ WritingInv(s)
            BY <1>5 DEF IInv, StoreInv
        <3>2. boot.driver = "local"
            BY <3>1 DEF Open, Write, Rename, WriteFails, WritingInv
        <3> QED BY <3>1, <3>2 DEF StoreInv
    <2>2. /\ \A c \in Contents : target[c] \in {"absent", "whole"} /\ target[c] # s
          /\ \A v \in Slots : v \notin {"absent", "whole", "broken"}
        BY <2>1 DEF StoreInv
    <2>3. ASSUME NEW v \in Slots, v # s, UsesPartial(v)
          PROVE  TempOf(v) \in Processes \X Contents /\ TempOf(v) # TempOf(s)
        <3>1. TempOf(v) \in Processes \X Contents
            BY <2>3, BusySlot DEF UsesPartial
        <3>2. CASE Open(s)
            BY <1>5, <2>3, <3>1, <3>2 DEF Open, Exclusive
        <3>3. CASE UsesPartial(s)
            BY <2>1, <2>3, <3>1, <3>3 DEF Alone
        <3> QED BY <3>1, <3>2, <3>3 DEF Write, Rename, WriteFails, UsesPartial
    <2>4. ASSUME NEW v \in Slots
          PROVE  WritingInv(v) /\ Content(v)' = Content(v) /\ TempOf(v)' = TempOf(v)
        BY <1>1, <2>1, SameContent DEF StoreInv
    <2> DEFINE Kept(v) == pc[v] \in {"write", "rename"} => temp'[TempOf(v)] = temp[TempOf(v)]
               Goal == /\ \A c \in Contents : /\ target'[c] \in {"absent", "whole"}
                                              /\ target[c] = "whole" => target'[c] = "whole"
                       /\ WritingInv(s)'
                       /\ \A v \in Slots : v # s => Kept(v)
    <2>5. ASSUME Open(s) PROVE Goal
        <3>1. pc'[s] = "write" /\ target' = target /\ temp' = [temp EXCEPT ![TempOf(s)] = s]
            BY <2>5 DEF Open, OpenPartial, Goto, IInv, TypeOK
        <3>2. temp'[TempOf(s)] = s
            BY <1>2, <3>1 DEF IInv, TypeOK
        <3>3. WritingInv(s)'
            BY <1>1, <2>1, <2>4, <3>1, <3>2 DEF WritingInv
        <3>4. ASSUME NEW v \in Slots, v # s PROVE Kept(v)
            BY <2>3, <3>1, <3>4 DEF IInv, TypeOK, UsesPartial
        <3> QED BY <2>2, <3>1, <3>3, <3>4
    <2>6. ASSUME Write(s) PROVE Goal
        <3>1. /\ pc'[s] = "rename" /\ temp[TempOf(s)] = s
              /\ temp' = [f \in Processes \X Contents |-> Settled(temp[f], s, "whole")]
              /\ target' = [c \in Contents |-> Settled(target[c], s, "whole")]
            BY <2>4, <2>6 DEF Write, CloseFile, Goto, WritingInv, IInv, TypeOK
        <3>2. temp'[TempOf(s)] = "whole"
            BY <1>2, <3>1 DEF Settled
        <3>3. \A c \in Contents : target'[c] = target[c]
            BY <2>2, <3>1 DEF Settled
        <3>4. WritingInv(s)'
            BY <1>1, <2>1, <2>4, <3>1, <3>2 DEF WritingInv
        <3>5. ASSUME NEW v \in Slots, v # s PROVE Kept(v)
            <4> SUFFICES ASSUME pc[v] \in {"write", "rename"}
                         PROVE  temp'[TempOf(v)] = temp[TempOf(v)]
                OBVIOUS
            <4>1. temp[TempOf(v)] \in {v, "whole"}
                BY <2>4 DEF WritingInv
            <4>2. temp[TempOf(v)] # s
                BY <2>2, <3>5, <4>1
            <4> QED BY <2>3, <3>1, <3>5, <4>2 DEF Settled, UsesPartial
        <3> QED BY <2>2, <3>3, <3>4, <3>5
    <2>7. ASSUME Rename(s) PROVE Goal
        <3>1. /\ pc'[s] = "store" /\ temp[TempOf(s)] = "whole"
              /\ target' = [target EXCEPT ![Content(s)] = "whole"]
              /\ temp' = [temp EXCEPT ![TempOf(s)] = "absent"]
            BY <2>4, <2>7 DEF Rename, Goto, WritingInv, IInv, TypeOK
        <3>2. /\ target'[Content(s)] = "whole"
              /\ \A c \in Contents : /\ target'[c] \in {"absent", "whole"}
                                     /\ target[c] = "whole" => target'[c] = "whole"
            BY <1>2, <2>2, <3>1 DEF IInv, TypeOK
        <3>3. WritingInv(s)'
            BY <2>4, <3>1, <3>2 DEF WritingInv
        <3>4. ASSUME NEW v \in Slots, v # s PROVE Kept(v)
            BY <2>3, <3>1, <3>4 DEF IInv, TypeOK, UsesPartial
        <3> QED BY <3>2, <3>3, <3>4
    <2>8. ASSUME WriteFails(s) PROVE Goal
        <3>1. /\ pc'[s] = "fail" /\ temp' = [temp EXCEPT ![TempOf(s)] = "absent"]
              /\ target' = [c \in Contents |-> Settled(target[c], s, "broken")]
            BY <2>8 DEF WriteFails, Goto, IInv, TypeOK
        <3>2. \A c \in Contents : target'[c] = target[c]
            BY <2>2, <3>1 DEF Settled
        <3>3. WritingInv(s)'
            BY <3>1 DEF WritingInv
        <3>4. ASSUME NEW v \in Slots, v # s PROVE Kept(v)
            BY <2>3, <3>1, <3>4 DEF IInv, TypeOK, UsesPartial
        <3> QED BY <2>2, <3>2, <3>3, <3>4
    <2>9. Goal
        BY <2>5, <2>6, <2>7, <2>8
    <2>10. ASSUME NEW v \in Slots PROVE WritingInv(v)'
        <3>1. CASE v = s
            BY <2>9, <3>1
        <3>2. CASE v # s /\ pc[v] = "idle"
            BY <1>4, <3>2 DEF WritingInv
        <3>3. CASE v # s /\ pc[v] # "idle"
            <4>1. /\ pc'[v] = pc[v] /\ Content(v) \in Contents
                  /\ Content(v)' = Content(v) /\ TempOf(v)' = TempOf(v) /\ WritingInv(v)
                BY <1>4, <2>4, <3>3, BusySlot
            <4>2. boot' = boot /\ Kept(v)
                BY <1>1, <2>9, <3>3
            <4> QED BY <2>9, <4>1, <4>2 DEF WritingInv
        <3> QED BY <3>1, <3>2, <3>3
    <2>11. Alone'
        <3>1. CASE Open(s)
            <4>1. \A v \in Slots : v # s /\ UsesPartial(v)' =>
                      UsesPartial(v) /\ TempOf(v)' = TempOf(v) /\ TempOf(v) # TempOf(s)
                BY <1>4, <2>3, <2>4 DEF UsesPartial
            <4>2. TempOf(s)' = TempOf(s)
                BY <2>4
            <4> QED BY <2>1, <4>1, <4>2 DEF Alone
        <3>2. CASE UsesPartial(s)
            <4>1. MsgFrame
                BY <1>1 DEF MsgFrame, Sent
            <4> QED BY <1>1, <1>4, <2>1, <3>2, <4>1, AloneKeeps DEF UsesPartial
        <3> QED BY <3>1, <3>2 DEF Write, Rename, WriteFails, UsesPartial
    <2> QED BY <2>9, <2>10, <2>11
<1>6. shared => shared'
    BY DEF Open, Write, Rename, WriteFails
<1> QED BY <1>1, <1>3, <1>4, <1>5, <1>6, FileStep DEF PutSteps

(* A process dies with its slots: what it was writing stays as a partial   *)
(* file, and no other slot has touched that file.                          *)
LEMMA CrashStep ==
    ASSUME IInv, NEW p \in Processes, Crash(p)
    PROVE  IInv'
<1> USE AssetAssumption
<1>1. /\ UNCHANGED <<boot, row, msg, shared>> /\ faults' = faults + 1
      /\ temp' = [f \in Processes \X Contents |-> Dead(p, temp[f])]
      /\ target' = [c \in Contents |-> Dead(p, target[c])]
      /\ handle' = [s \in Slots |-> IF boot.home[s] = p THEN "none" ELSE handle[s]]
      /\ pc' = [s \in Slots |-> IF boot.home[s] = p THEN "idle" ELSE pc[s]]
      /\ job' = [s \in Slots |-> IF boot.home[s] = p THEN NoMsg ELSE job[s]]
    BY DEF Crash
<1>2. \A f \in File : Dead(p, f) \in File
    BY DEF Dead, File
<1>3. TypeOK'
    BY <1>1, <1>2 DEF IInv, TypeOK, Steps
<1>4. \A v \in Slots : (pc'[v] = pc[v] /\ job'[v] = job[v]) \/ pc'[v] = "idle"
    BY <1>1
<1>5. ASSUME Exclusive, Exclusive'
      PROVE  /\ \A c \in Contents : /\ target'[c] \in {"absent", "whole"}
                                    /\ target[c] = "whole" => target'[c] = "whole"
             /\ Alone'
             /\ \A v \in Slots : WritingInv(v)'
    <2>1. Dead(p, "whole") = "whole" /\ Dead(p, "absent") = "absent"
        BY DEF Dead
    <2>2. \A c \in Contents : target[c] \in {"absent", "whole"} /\ target'[c] = target[c]
        BY <1>1, <1>5, <2>1 DEF IInv, StoreInv
    <2>3. ASSUME NEW v \in Slots, pc'[v] # "idle" PROVE WritingInv(v)'
        <3>1. boot.home[v] # p /\ pc'[v] = pc[v] /\ job'[v] = job[v] /\ pc[v] # "idle"
            BY <1>1, <2>3
        <3>2. /\ Content(v) \in Contents /\ TempOf(v) \in Processes \X Contents
              /\ Content(v)' = Content(v) /\ TempOf(v)' = TempOf(v)
            BY <1>1, <3>1, BusySlot DEF Content, TempOf, MediaOf
        <3>3. Dead(p, v) = v
            BY <3>1 DEF Dead
        <3>4. WritingInv(v)
            BY <1>5 DEF IInv, StoreInv
        <3> QED BY <1>1, <2>1, <2>2, <3>1, <3>2, <3>3, <3>4 DEF WritingInv
    <2>4. ASSUME NEW v \in Slots, pc'[v] = "idle" PROVE WritingInv(v)'
        BY <2>4 DEF WritingInv
    <2>5. Alone'
        <3>1. Alone /\ MsgFrame
            BY <1>1, <1>5 DEF IInv, StoreInv, MsgFrame, Sent
        <3> QED BY <1>1, <3>1, AloneKeeps DEF UsesPartial
    <2> QED BY <2>2, <2>3, <2>4, <2>5
<1> QED BY <1>1, <1>3, <1>4, <1>5, FileStep

LEMMA InitIInv == Init => IInv
<1> SUFFICES ASSUME Init PROVE IInv
    OBVIOUS
<1> USE AssetAssumption
<1>1. (CHOOSE m \in Media : TRUE) \in Media
    OBVIOUS
<1>2. TypeOK
    <2>1. shared \in BOOLEAN /\ boot \in [driver : {"local", "s3"}, home : Homes]
        BY DEF Init
    <2> QED BY <1>1, <2>1 DEF Init, TypeOK, Row, Msg, File, Steps
<1>3. MsgInv /\ RowInv /\ AckedMeansSettled
    BY DEF Init, MsgInv, RowInv, AckedMeansSettled, Sent
<1>4. \A s \in Slots : SlotInv(s) /\ WritingInv(s)
    BY DEF Init, SlotInv, WritingInv
<1>5. StoreInv
    BY <1>4 DEF Init, StoreInv, KeysWhole, Alone, UsesPartial
<1> QED BY <1>2, <1>3, <1>4, <1>5 DEF IInv

LEMMA NextIInv == IInv /\ [Next]_vars => IInv'
<1> SUFFICES ASSUME IInv, [Next]_vars PROVE IInv'
    OBVIOUS
<1>1. ASSUME NEW m \in Media, SyncFails(m) \/ \E u \in BOOLEAN : SyncLists(m, u)
      PROVE  IInv'
    BY <1>1, SyncStep
<1>2. ASSUME NEW x \in Msgs, Redrive(x) \/ VisibilityExpires(x)
      PROVE  IInv'
    BY <1>2, TimerStep
<1>3. ASSUME NEW s \in Slots, NEW x \in Msgs, Deliver(s, x)
      PROVE  IInv'
    BY <1>3, DeliverStep
<1>4. ASSUME NEW s \in Slots, SlotStep(s) PROVE IInv'
    BY <1>4, ReadStep, MarkStep, S3PutStep, PartialStep, SettleStep DEF SlotStep
<1>5. ASSUME NEW s \in Slots, CallFails(s) \/ NackFails(s) \/ WriteFails(s)
      PROVE  IInv'
    BY <1>5, ReadStep, NackFailsStep, PartialStep
<1>6. ASSUME NEW p \in Processes, Crash(p) PROVE IInv'
    BY <1>6, CrashStep
<1>7. CASE UNCHANGED vars
    <2>1. TypeOK'
        BY <1>7 DEF IInv, TypeOK, vars, store, slot
    <2>2. UNCHANGED <<boot, row, msg, target, temp, shared, pc, job>>
        BY <1>7 DEF vars, store, slot
    <2>3. Exclusive => \A v \in Slots : WritingInv(v)'
        BY <2>2 DEF IInv, StoreInv, WritingInv, Content, TempOf, MediaOf
    <2>4. Exclusive => \A c \in Contents : target[c] \in {"absent", "whole"}
        BY DEF IInv, StoreInv
    <2>5. Exclusive => Alone'
        BY <2>2 DEF IInv, StoreInv, Alone, UsesPartial, Content, TempOf, MediaOf
    <2> QED BY <2>1, <2>2, <2>3, <2>4, <2>5, FileStep
<1> QED BY <1>1, <1>2, <1>3, <1>4, <1>5, <1>6, <1>7 DEF Next

-----------------------------------------------------------------------------
(* The inductive invariant holds in every behaviour of the pipeline,        *)
(* whatever is redelivered, fails or crashes.                               *)
THEOREM Invariance == Spec => []IInv
BY InitIInv, NextIInv, PTL DEF Spec

(* Type correctness: in particular a message is never delivered more often  *)
(* than the redrive policy allows.                                          *)
THEOREM TypeCorrect == Spec => []TypeOK
<1>1. IInv => TypeOK
    BY DEF IInv
<1> QED BY <1>1, Invariance, PTL

(* MediaAssetService.download returns normally, and so JobRunner acks, only *)
(* when the post's bytes are recorded or Meta has listed it without a URL.  *)
THEOREM AckIsEarned == Spec => []AckedMeansSettled
<1>1. IInv => AckedMeansSettled
    BY DEF IInv
<1> QED BY <1>1, Invariance, PTL

(* A stored asset names a whole object, and no truncated one is ever found  *)
(* at a key, until two slots of a process have used one partial file at     *)
(* once: never, if each process downloads one file at a time                *)
(* (DOWNLOAD_CONCURRENCY = 1) or the driver is S3.                          *)
THEOREM StoredObjectsAreWhole ==
    Spec => [](StoredIsWhole /\ (~shared => NoTruncatedObject))
<1>1. IInv => StoredIsWhole /\ (~shared => NoTruncatedObject)
    BY DEF IInv, StoreInv, NoTruncatedObject, StoredIsWhole, KeysWhole, Exclusive
<1> QED BY <1>1, Invariance, PTL
=============================================================================
