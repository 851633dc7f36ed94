----------------------------- MODULE MediaAsset -----------------------------
(***************************************************************************)
(* Downloading media files: DOWNLOAD_MEDIA_ASSET jobs, from the media_assets *)
(* row and the job a sync creates to the stored object.  It composes       *)
(* MediaAssetService.download with MediaAssetRepository, both storage       *)
(* drivers, and the part of JobRunner.process that settles the message.    *)
(*                                                                         *)
(* Download slots run concurrently, several of them in one process when    *)
(* DOWNLOAD_CONCURRENCY > 1.  One action is one awaited call; every call    *)
(* may fail, and a process may die between any two.  Delivery is           *)
(* at-least-once: a message whose visibility timeout runs out is delivered *)
(* again even while a slot still works on it.                               *)
(*                                                                         *)
(* The bytes behind a URL are a member of Contents, which stands for their *)
(* sha256 and hence for the storage key; posts that share it are reposts.  *)
(***************************************************************************)
EXTENDS Naturals

CONSTANTS Slots,         \* concurrent downloads
          Processes,     \* worker processes
          Homes,         \* the ways slots may belong to processes
          Media,
          Contents,
          Bytes,         \* the content of each post's file
          Msgs,          \* bound: the download messages a behaviour may send
          MaxReceives,   \* the redrive policy's maxReceiveCount
          MaxFaults,     \* bound: failed calls and dead processes
          NoMsg, NoContent

ASSUME AssetAssumption ==
    /\ Homes \subseteq [Slots -> Processes]
    /\ Bytes \in [Media -> Contents]
    /\ MaxReceives \in Nat \ {0}
    /\ MaxFaults \in Nat
    /\ Media # {}
    /\ NoMsg \notin Msgs
    /\ NoContent \notin Contents
    /\ Slots \cap {"absent", "whole", "broken"} = {}

VARIABLES boot,      \* fixed at boot: STORAGE_DRIVER, and the process of each slot
          row,       \* media_assets
          msg,       \* the queue's messages
          target,    \* the object at each content-addressed key
          temp,      \* LocalDiskStorage's <key>.<pid>.partial files
          handle,    \* where the file a slot has open is found
          shared,    \* history: two slots have used one partial file at once
          pc, job,   \* each slot's step and the delivery it works on
          faults     \* failures and crashes so far

store == <<target, temp, handle, shared>>
slot == <<pc, job>>
vars == <<boot, row, msg, store, slot, faults>>

(* bare is no column but history: Meta has listed the post without a URL.   *)
Row == [status : {"none", "pending", "downloading", "stored", "failed", "skipped"},
        url : BOOLEAN, bare : BOOLEAN, key : Contents \cup {NoContent}]
Msg == [media : Media, state : {"unsent", "visible", "hidden", "acked", "dead"},
        receives : 0 .. MaxReceives]

(* What is at a path: nothing, the whole content, a truncated file nobody   *)
(* writes to any more, or one that slot s is still writing.                 *)
File == {"absent", "whole", "broken"} \cup Slots

(* The steps of download inside its try block, and of storage.putStream.    *)
PutSteps == {"put", "write", "rename"}
TrySteps == {"fetch", "exists", "store"} \cup PutSteps
Steps == {"idle", "load", "skip", "mark", "fail", "ack", "nack"} \cup TrySteps

TypeOK ==
    /\ boot \in [driver : {"local", "s3"}, home : Homes]
    /\ row \in [Media -> Row]
    /\ msg \in [Msgs -> Msg]
    /\ target \in [Contents -> File]
    /\ temp \in [Processes \X Contents -> File]
    /\ handle \in [Slots -> {"none", "temp", "target", "gone"}]
    /\ shared \in BOOLEAN
    /\ pc \in [Slots -> Steps]
    /\ job \in [Slots -> (Msgs \X (1 .. MaxReceives)) \cup {NoMsg}]
    /\ faults \in Nat

Init ==
    /\ boot \in [driver : {"local", "s3"}, home : Homes]
    /\ row = [m \in Media |-> [status |-> "none", url |-> FALSE, bare |-> FALSE,
                              key |-> NoContent]]
    /\ msg = [x \in Msgs |-> [media |-> CHOOSE m \in Media : TRUE, state |-> "unsent",
                              receives |-> 0]]
    /\ target = [c \in Contents |-> "absent"]
    /\ temp = [f \in Processes \X Contents |-> "absent"]
    /\ handle = [s \in Slots |-> "none"]
    /\ shared = FALSE
    /\ pc = [s \in Slots |-> "idle"]
    /\ job = [s \in Slots |-> NoMsg]
    /\ faults = 0

Goto(s, step) == pc' = [pc EXCEPT ![s] = step]
MediaOf(s) == msg[job[s][1]].media
Content(s) == Bytes[MediaOf(s)]
TempOf(s) == <<boot.home[s], Content(s)>>

-----------------------------------------------------------------------------
(***************************************************************************)
(* The sync side: upsertMedia and ensurePending overwrite the URL of a     *)
(* post each time it is listed, with a fresh one or with none, and a row   *)
(* that is still pending gets a job.  A row skipped for want of a URL      *)
(* stays skipped when Meta gives one again.                                *)
(* Inserting the row and enqueuing the job are one action here: a message  *)
(* may stay undelivered for any time, so enqueuing it later adds nothing.  *)
(***************************************************************************)
EnsurePending(m, u) ==
    row' = [row EXCEPT ![m].url = u,
                       ![m].bare = @ \/ ~u,
                       ![m].status = IF @ # "none" THEN @
                                     ELSE IF u THEN "pending" ELSE "skipped"]

WantsJob(m) == row'[m].status = "pending" /\ row'[m].url

SyncLists(m, u) ==
    /\ EnsurePending(m, u)
    /\ \/ /\ WantsJob(m)
          /\ \E x \in Msgs :
                /\ msg[x].state = "unsent"
                /\ msg' = [msg EXCEPT ![x].media = m, ![x].state = "visible"]
       \/ ~WantsJob(m) /\ UNCHANGED msg
    /\ UNCHANGED <<boot, store, slot, faults>>

(* The sync fails or dies before it has enqueued the job.                   *)
SyncFails(m) ==
    /\ faults < MaxFaults
    /\ faults' = faults + 1
    /\ EnsurePending(m, TRUE)
    /\ WantsJob(m)
    /\ UNCHANGED <<boot, msg, store, slot>>

(***************************************************************************)
(* The queue, as SQS behaves towards SqsQueue: a visible message is handed *)
(* out and hidden, or parked once its receives are used up.                *)
(***************************************************************************)
Exhausted(x) == msg[x].receives >= MaxReceives

Deliver(s, x) ==
    /\ pc[s] = "idle"
    /\ msg[x].state = "visible" /\ ~Exhausted(x)
    /\ msg' = [msg EXCEPT ![x].state = "hidden", ![x].receives = msg[x].receives + 1]
    /\ job' = [job EXCEPT ![s] = <<x, msg[x].receives + 1>>]
    /\ Goto(s, "load")
    /\ UNCHANGED <<boot, row, store, faults>>

Redrive(x) ==
    /\ msg[x].state = "visible" /\ Exhausted(x)
    /\ msg' = [msg EXCEPT ![x].state = "dead"]
    /\ UNCHANGED <<boot, row, store, slot, faults>>

VisibilityExpires(x) ==
    /\ msg[x].state = "hidden"
    /\ msg' = [msg EXCEPT ![x].state = "visible"]
    /\ UNCHANGED <<boot, row, store, slot, faults>>

Leave(s) ==
    /\ Goto(s, "idle")
    /\ job' = [job EXCEPT ![s] = NoMsg]

(* ack and nack name a delivery by its receipt; with the receipt of an      *)
(* earlier delivery SQS may or may not act.                                 *)
Latest(s) == msg[job[s][1]].receives = job[s][2]
Pending(x) == msg[x].state \in {"visible", "hidden"}

Ack(s, obeyed) ==
    LET x == job[s][1]
    IN  /\ pc[s] = "ack"
        /\ Latest(s) => obeyed
        /\ msg' = [msg EXCEPT ![x].state = IF obeyed /\ Pending(x) THEN "acked" ELSE @]
        /\ Leave(s)
        /\ UNCHANGED <<boot, row, store, faults>>

Nack(s, obeyed) ==
    LET x == job[s][1]
    IN  /\ pc[s] = "nack"
        /\ Latest(s) => obeyed
        /\ msg' = [msg EXCEPT ![x].state = IF obeyed /\ Pending(x) THEN "visible" ELSE @]
        /\ Leave(s)
        /\ UNCHANGED <<boot, row, store, faults>>

-----------------------------------------------------------------------------
(***************************************************************************)
(* MediaAssetService.download.  The status updates are unconditional, so   *)
(* they overwrite whatever another delivery of the post has written.       *)
(***************************************************************************)
SkipsStoredOrStarted(r) == r.status \in {"stored", "downloading"}    \* mutant
AlreadyDone(r) == r.status = "stored"

Load(s) ==
    LET r == row[MediaOf(s)]
    IN  /\ pc[s] = "load"
        /\ Goto(s, IF AlreadyDone(r) THEN "ack" ELSE IF r.url THEN "mark" ELSE "skip")
        /\ UNCHANGED <<boot, row, msg, store, job, faults>>

SetStatus(s, status) == row' = [row EXCEPT ![MediaOf(s)].status = status]

MarkSkipped(s) ==
    /\ pc[s] = "skip"
    /\ SetStatus(s, "skipped")
    /\ Goto(s, "ack")
    /\ UNCHANGED <<boot, msg, store, job, faults>>

MarkDownloading(s) ==
    /\ pc[s] = "mark"
    /\ SetStatus(s, "downloading")
    /\ Goto(s, "fetch")
    /\ UNCHANGED <<boot, msg, store, job, faults>>

(* The request to the CDN, the temp file and the hash.  The signed URL may  *)
(* have expired, which is no rare fault, or the request may fail otherwise. *)
Fetch(s) ==
    /\ pc[s] = "fetch"
    /\ Goto(s, "exists")
    /\ UNCHANGED <<boot, row, msg, store, job, faults>>

FetchFails(s) ==
    /\ pc[s] = "fetch"
    /\ Goto(s, "fail")
    /\ UNCHANGED <<boot, row, msg, store, job, faults>>

(* stat (local) or HEAD (S3) on the content-addressed key.                  *)
Exists(s) ==
    /\ pc[s] = "exists"
    /\ Goto(s, IF target[Content(s)] = "absent" THEN "put" ELSE "store")
    /\ UNCHANGED <<boot, row, msg, store, job, faults>>

(* S3Storage.putStream: an object appears as a whole or not at all.         *)
S3Put(s) ==
    /\ boot.driver = "s3"
    /\ pc[s] = "put"
    /\ target' = [target EXCEPT ![Content(s)] = "whole"]
    /\ Goto(s, "store")
    /\ UNCHANGED <<boot, row, msg, temp, handle, shared, job, faults>>

(* LocalDiskStorage.putStream: open (create or truncate) the partial file,  *)
(* write it, rename it.  Two slots of one process that store the same       *)
(* content use the same partial file.                                       *)
OpenAtKey(s) ==    \* mutant: no partial file
    /\ target' = [target EXCEPT ![Content(s)] = s]
    /\ handle' = [handle EXCEPT ![s] = "target"]
    /\ UNCHANGED temp

OpenPartial(s) ==
    /\ temp' = [temp EXCEPT ![TempOf(s)] = s]
    /\ handle' = [handle EXCEPT ![s] = "temp"]
    /\ UNCHANGED target

(* Between opening its partial file and having renamed it. *)
UsesPartial(s) == pc[s] \in {"write", "rename"}

Open(s) ==
    /\ boot.driver = "local"
    /\ pc[s] = "put"
    /\ OpenPartial(s)
    /\ shared' = (shared \/ \E v \in Slots : UsesPartial(v) /\ TempOf(v) = TempOf(s))
    /\ Goto(s, "write")
    /\ UNCHANGED <<boot, row, msg, job, faults>>

(* A file is whole once the slot that truncated it last has written all.    *)
Settled(f, s, outcome) == IF f = s THEN outcome ELSE f

CloseFile(s, outcome) ==
    /\ temp' = [f \in Processes \X Contents |-> Settled(temp[f], s, outcome)]
    /\ target' = [c \in Contents |-> Settled(target[c], s, outcome)]

Write(s) ==
    /\ pc[s] = "write"
    /\ CloseFile(s, "whole")
    /\ handle' = [handle EXCEPT ![s] = "none"]
    /\ Goto(s, "rename")
    /\ UNCHANGED <<boot, row, msg, shared, job, faults>>

(* What happens to open files when the partial file of s moves to the key,  *)
(* and when it is removed: they stay open, under another name or none.      *)
SamePartial(v, s) == handle[v] = "temp" /\ TempOf(v) = TempOf(s)
SameTarget(v, s) == handle[v] = "target" /\ Content(v) = Content(s)

Rename(s) ==
    /\ pc[s] = "rename"
    /\ temp[TempOf(s)] # "absent"
    /\ target' = [target EXCEPT ![Content(s)] = temp[TempOf(s)]]
    /\ temp' = [temp EXCEPT ![TempOf(s)] = "absent"]
    /\ handle' = [v \in Slots |-> IF SamePartial(v, s) THEN "target"
                                  ELSE IF SameTarget(v, s) THEN "gone" ELSE handle[v]]
    /\ Goto(s, "store")
    /\ UNCHANGED <<boot, row, msg, shared, job, faults>>

RenameFails(s) ==
    /\ pc[s] = "rename"
    /\ temp[TempOf(s)] = "absent"
    /\ Goto(s, "fail")
    /\ UNCHANGED <<boot, row, msg, store, job, faults>>

MarkStored(s) ==
    /\ pc[s] = "store"
    /\ row' = [row EXCEPT ![MediaOf(s)].status = "stored",
                          ![MediaOf(s)].key = Content(s)]
    /\ Goto(s, "ack")
    /\ UNCHANGED <<boot, msg, store, job, faults>>

(* The catch block; the error is rethrown and JobRunner nacks.              *)
MarkFailed(s) ==
    /\ pc[s] = "fail"
    /\ SetStatus(s, "failed")
    /\ Goto(s, "nack")
    /\ UNCHANGED <<boot, msg, store, job, faults>>

(***************************************************************************)
(* Failures.  A call outside the try block, or in the catch, goes straight *)
(* to JobRunner's nack, as does a failed ack; one inside it is recorded    *)
(* first.  A failed write removes the partial file.                        *)
(***************************************************************************)
ErrorStep(step) == CASE step \in TrySteps -> "fail"
                     [] step \in {"load", "skip", "mark", "fail", "ack"} -> "nack"
                     [] OTHER -> "idle"

Call(s) ==    \* some call is awaited that can fail
    /\ pc[s] # "idle"
    /\ ~(pc[s] = "exists" /\ boot.driver = "local")
    /\ faults < MaxFaults
    /\ faults' = faults + 1

CallFails(s) ==
    /\ Call(s)
    /\ pc[s] \notin {"fetch", "write", "rename", "nack"}
    /\ Goto(s, ErrorStep(pc[s]))
    /\ UNCHANGED <<boot, row, msg, store, job>>

NackFails(s) ==
    /\ Call(s)
    /\ pc[s] = "nack"
    /\ Leave(s)
    /\ UNCHANGED <<boot, row, msg, store>>

WriteFails(s) ==
    /\ Call(s)
    /\ pc[s] \in {"write", "rename"}
    /\ temp' = [temp EXCEPT ![TempOf(s)] = "absent"]
    /\ target' = [c \in Contents |-> Settled(target[c], s, "broken")]
    /\ handle' = [v \in Slots |-> IF v = s THEN "none"
                                  ELSE IF SamePartial(v, s) THEN "gone" ELSE handle[v]]
    /\ Goto(s, "fail")
    /\ UNCHANGED <<boot, row, msg, shared, job>>

(* A process dies, with all its slots; rows, messages and files stay.       *)
Dead(p, f) == IF \E s \in Slots : boot.home[s] = p /\ f = s THEN "broken" ELSE f

Crash(p) ==
    /\ \E s \in Slots : boot.home[s] = p /\ pc[s] # "idle"
    /\ faults < MaxFaults
    /\ faults' = faults + 1
    /\ temp' = [f \in Processes \X Contents |-> Dead(p, temp[f])]
    /\ target' = [c \in Contents |-> Dead(p, target[c])]
    /\ handle' = [s \in Slots |-> IF boot.home[s] = p THEN "none" ELSE handle[s]]
    /\ pc' = [s \in Slots |-> IF boot.home[s] = p THEN "idle" ELSE pc[s]]
    /\ job' = [s \in Slots |-> IF boot.home[s] = p THEN NoMsg ELSE job[s]]
    /\ UNCHANGED <<boot, row, msg, shared>>

SlotStep(s) ==
    \/ Load(s) \/ MarkSkipped(s) \/ MarkDownloading(s) \/ Fetch(s) \/ FetchFails(s) \/ Exists(s)
    \/ S3Put(s) \/ Open(s) \/ Write(s) \/ Rename(s) \/ RenameFails(s)
    \/ MarkStored(s) \/ MarkFailed(s)
    \/ \E obeyed \in BOOLEAN : Ack(s, obeyed) \/ Nack(s, obeyed)

Next ==
    \/ \E m \in Media : SyncFails(m) \/ \E u \in BOOLEAN : SyncLists(m, u)
    \/ \E x \in Msgs : Redrive(x) \/ VisibilityExpires(x)
    \/ \E s \in Slots : \/ \E x \in Msgs : Deliver(s, x)
                        \/ SlotStep(s)
                        \/ CallFails(s) \/ NackFails(s) \/ WriteFails(s)
    \/ \E p \in Processes : Crash(p)

Spec == Init /\ [][Next]_vars

(***************************************************************************)
(* Fairness: a live slot keeps executing, an idle one keeps polling, and   *)
(* SQS lets visibility timeouts run out and applies its redrive policy.    *)
(***************************************************************************)
FairSpec ==
    /\ Spec
    /\ \A s \in Slots : WF_vars(SlotStep(s))
    /\ \A x \in Msgs : /\ SF_vars(\E s \in Slots : Deliver(s, x))
                       /\ WF_vars(VisibilityExpires(x))
                       /\ WF_vars(Redrive(x))

-----------------------------------------------------------------------------
(* A media_assets row that names an object names a whole one: whatever      *)
(* crashes, fails or is redelivered, an asset recorded as stored can be     *)
(* read back (MediaAssetService.ts:123, LocalDiskStorage.ts:48-50), unless  *)
(* two slots of a process have used one partial file at the same time.      *)
StoredIsWhole ==
    ~shared => \A m \in Media : row[m].key # NoContent => target[row[m].key] = "whole"

(* A download job disappears from the queue only after the work is done:    *)
(* the bytes of its post are recorded, or Meta has listed the post without  *)
(* a URL to get them from ("Only called after the job has fully succeeded", *)
(* Queue.ts:54).                                                            *)
AckedMeansSettled ==
    \A x \in Msgs :
        msg[x].state = "acked" =>
            LET r == row[msg[x].media] IN r.key # NoContent \/ r.bare

(* No download is stuck half-way: a row in status downloading is brought to *)
(* an end by a redelivery, or its message is left in the DLQ for an         *)
(* operator to see.  Only a post that Meta also listed without a URL may    *)
(* stay in it: one delivery skips and acks it, another has just begun.      *)
AssetSettles ==
    \A m \in Media :
        row[m].status = "downloading" ~>
            \/ row[m].key # NoContent \/ row[m].bare
            \/ row[m].status \in {"failed", "skipped"}
            \/ \E x \in Msgs : msg[x].media = m /\ msg[x].state = "dead"

(* "a crash mid-write cannot leave a truncated file sitting at a content-   *)
(* addressed key - which would then look valid to exists() forever"         *)
(* (LocalDiskStorage.ts:48-50).                                             *)
NoTruncatedObject == \A c \in Contents : target[c] # "broken"
=============================================================================
