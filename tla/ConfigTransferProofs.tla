-------------------------- MODULE ConfigTransferProofs --------------------------
(***************************************************************************)
(* Proofs about ConfigTransfer, for every set of documents, number of      *)
(* chunks and queue length: the buffer a callback reads is the document    *)
(* its event names, and cb_busy marks it for exactly that time.            *)
(***************************************************************************)
EXTENDS ConfigTransfer, TLAPS

(* What a message of each kind carries.                                    *)
LEMMA ChunkMessage ==
  ASSUME NEW m \in Message \cup {NoMsg}, m.kind = "chunk"
  PROVE  m \in ChunkMsg
BY DEF Message, NoMsg, Meta, Junk, Refusal, ChunkMsg

LEMMA LowerKeepsType ==
  ASSUME TypeOK, net.msg.kind = "chunk"
  PROVE  /\ LowerNow \in [Chunk -> Doc \cup {Garbage}]
         /\ net.msg.doc \in Doc /\ net.msg.idx \in Chunk
         /\ Seen \in SUBSET Chunk
         /\ Length \in BOOLEAN /\ LengthNow \in BOOLEAN
<1>1. net.msg \in ChunkMsg
  BY ChunkMessage DEF TypeOK
<1>2. net.msg.data \in Doc \cup {Garbage, Undecodable} /\ net.msg.idx \in Chunk
  BY <1>1 DEF ChunkMsg
<1>3. LowerNow \in [Chunk -> Doc \cup {Garbage}]
  BY <1>2 DEF LowerNow, TypeOK
<1> QED
  BY <1>1, <1>2, <1>3 DEF ChunkMsg, Seen, Length, LengthNow, TypeOK

(* The queue grows by one job within its length.                           *)
LEMMA EmitQueuedType ==
  ASSUME TypeOK, NEW type \in {"json", "other"}, NEW reset \in BOOLEAN,
         NEW doc \in Doc \cup {Garbage}, EmitQueued(type, reset, doc)
  PROVE  /\ queue' \in Seq(Job) /\ Len(queue') <= QueueLen
         /\ cb_busy' \in BOOLEAN /\ started' \in BOOLEAN
<1> DEFINE job == [type |-> type, reset |-> reset, doc |-> doc,
                   rid |-> IF reset THEN pending_rid ELSE NoRid]
<1>1. job \in Job
  BY DEF Job, TypeOK
<1>2. queue' = Append(queue, job)
  BY DEF EmitQueued
<1>3. queue' \in Seq(Job) /\ Len(queue') = Len(queue) + 1
  BY <1>1, <1>2 DEF TypeOK
<1>4. Len(queue) < QueueLen
  BY DEF EmitQueued, QueueHasRoom
<1>5. Len(queue') <= QueueLen
  BY <1>3, <1>4, BoundAssumption DEF TypeOK
<1>6. cb_busy' \in BOOLEAN /\ started' \in BOOLEAN
  BY DEF EmitQueued, TypeOK
<1> QED
  BY <1>3, <1>5, <1>6

LEMMA EmitType ==
  ASSUME TypeOK, NEW type \in {"json", "other"}, NEW reset \in BOOLEAN,
         NEW doc \in Doc \cup {Garbage}, Emit(type, reset, doc)
  PROVE  /\ queue' \in Seq(Job) /\ Len(queue') <= QueueLen
         /\ cb_busy' \in BOOLEAN /\ started' \in BOOLEAN
         /\ net' \in {NetIdle, [at |-> "lost_head", msg |-> NoMsg]}
<1>1. CASE EmitQueued(type, reset, doc)
  BY <1>1, EmitQueuedType DEF EmitQueued
<1>2. CASE EmitLost(type, reset)
  BY <1>2 DEF EmitLost, BusyAfterLoss, TypeOK
<1> QED
  BY <1>1, <1>2 DEF Emit

LEMMA EmitFailType ==
  ASSUME TypeOK, EmitFail
  PROVE  /\ queue' \in Seq(Job) /\ Len(queue') <= QueueLen
         /\ cb_busy' \in BOOLEAN /\ started' \in BOOLEAN
         /\ net' \in {NetIdle, [at |-> "lost_head", msg |-> NoMsg]}
<1>1. "other" \in {"json", "other"} /\ TRUE \in BOOLEAN /\ Garbage \in Doc \cup {Garbage}
  OBVIOUS
<1>2. Emit("other", TRUE, Garbage)
  BY DEF EmitFail
<1> QED
  BY <1>1, <1>2, EmitType

(* A rid is only handed out while there is one left: the part of the types *)
(* that depends on where the worker stands.                                *)
RidBounds ==
  /\ worker.at = "arm" => requests < MaxRequests
  /\ worker.at \in {"head", "tail"} /\ worker.why = "stale" => requests < MaxRequests
  /\ worker.at = "publish" => requests > 0

TypeInv == TypeOK /\ RidBounds

LEMMA InitType == Init => TypeInv
<1> SUFFICES ASSUME Init PROVE TypeInv
  OBVIOUS
<1>1. NoJob \in Job /\ WorkerIdle.job = NoJob
  BY DEF NoJob, Job, WorkerIdle
<1>2. worker \in [at : {"idle", "head", "tail", "callback", "arm", "publish"},
                  why : {"job", "stale", "abort", "unsent"},
                  calls : 0 .. MaxCalls, job : Job]
  BY <1>1, BoundAssumption DEF Init, WorkerIdle
<1>3. net \in [at : {"idle", "handle", "apply", "stale_head", "stale_tail",
                     "lost_head", "lost_tail"}, msg : Message \cup {NoMsg}]
  BY DEF Init, NetIdle
<1>4. queue \in Seq(Job) /\ Len(queue) <= QueueLen
  BY BoundAssumption DEF Init
<1>5. pending_rid \in Rid \cup {NoRid} /\ requests \in 0 .. MaxRequests /\ sent \in SUBSET Rid
  BY BoundAssumption DEF Init, Rid, NoRid
<1>6. transfer_active \in BOOLEAN /\ transfer_start \in {"zero", "recent", "stale"}
  BY DEF Init
<1>7. lower \in [Chunk -> Doc \cup {Garbage}]
  BY DEF Init
<1>8. /\ chunk_meta_init \in BOOLEAN /\ resp_sha \in Doc \cup {NoSha}
      /\ total_chunks \in {0, TotalChunks} /\ chunk_bmap \in SUBSET Chunk
      /\ gzip_len_set \in BOOLEAN /\ upper \in Doc \cup {Garbage}
      /\ cb_busy \in BOOLEAN /\ started \in BOOLEAN
  BY DEF Init, NoSha
<1>9. RidBounds
  BY DEF Init, RidBounds, WorkerIdle
<1> QED
  BY <1>2, <1>3, <1>4, <1>5, <1>6, <1>7, <1>8, <1>9 DEF TypeOK, TypeInv

(* transfer_reset keeps the types in either task.                          *)
LEMMA ResetTypes ==
  ASSUME TypeOK, ResetHead \/ ResetTail,
         UNCHANGED <<bufVars, dispatchVars, requestVars>>,
         net' \in [at : {"idle", "handle", "apply", "stale_head", "stale_tail",
                         "lost_head", "lost_tail"}, msg : Message \cup {NoMsg}],
         worker' \in [at : {"idle", "head", "tail", "callback", "arm", "publish"},
                      why : {"job", "stale", "abort", "unsent"},
                      calls : 0 .. MaxCalls, job : Job]
  PROVE  TypeOK'
<1>1. CASE ResetHead
  BY <1>1 DEF ResetHead, TypeOK, tailVars, bufVars, dispatchVars, requestVars
<1>2. CASE ResetTail
  BY <1>2 DEF ResetTail, TypeOK, headVars, bufVars, dispatchVars, requestVars, NoRid
<1> QED
  BY <1>1, <1>2

LEMMA NetKeepsType ==
  ASSUME TypeOK, (\E m \in Message : Receive(m)) \/ NetStep
  PROVE  TypeOK'
<1> USE DEF vars, transferVars, headVars, tailVars, bufVars, dispatchVars, requestVars
<1>a. NetIdle \in [at : {"idle"}, msg : {NoMsg}]
  BY DEF NetIdle
<1>b. [at |-> "lost_head", msg |-> NoMsg] \in [at : {"lost_head"}, msg : {NoMsg}]
  OBVIOUS
<1>1. CASE \E m \in Message : Receive(m)
  BY <1>1 DEF Receive, TypeOK
<1>2. CASE NetResetHead
  <2>1. net' \in [at : {"stale_tail", "lost_tail"}, msg : Message \cup {NoMsg}]
    BY <1>2 DEF NetResetHead, TypeOK
  <2> QED
    BY <1>2, <2>1, ResetTypes DEF NetResetHead, TypeOK
<1>3. CASE NetResetTail
  <2>1. net' \in [at : {"idle", "handle"}, msg : Message \cup {NoMsg}]
    BY <1>3, <1>a DEF NetResetTail, TypeOK
  <2> QED
    BY <1>3, <2>1, ResetTypes DEF NetResetTail, TypeOK
<1>4. CASE HandleMeta
  <2>1. "other" \in {"json", "other"} /\ FALSE \in BOOLEAN /\ Garbage \in Doc \cup {Garbage}
    OBVIOUS
  <2>2. Emit("other", FALSE, Garbage)
    BY <1>4 DEF HandleMeta
  <2>3. /\ queue' \in Seq(Job) /\ Len(queue') <= QueueLen
        /\ cb_busy' \in BOOLEAN /\ started' \in BOOLEAN
        /\ net' \in {NetIdle, [at |-> "lost_head", msg |-> NoMsg]}
    BY <2>1, <2>2, EmitType
  <2> QED
    BY <1>4, <1>a, <1>b, <2>3 DEF HandleMeta, ParseInUpper, TypeOK
<1>5. CASE RespIgnored
  BY <1>5, <1>a DEF RespIgnored, TypeOK
<1>6. CASE RespMalformed
  BY <1>6, <1>a, <1>b, EmitFailType DEF RespMalformed, ParseInUpper, TypeOK
<1>7. CASE RespMatches
  BY <1>7 DEF RespMatches, TypeOK
<1>8. CASE RespRefused
  BY <1>8, <1>a, <1>b, EmitFailType DEF RespRefused, TypeOK
<1>9. CASE ChunkInconsistent
  BY <1>9, <1>a, <1>b, EmitFailType DEF ChunkInconsistent, TypeOK
<1>10. ASSUME ChunkAgrees
       PROVE  /\ chunk_meta_init' \in BOOLEAN
              /\ resp_sha' \in Doc \cup {NoSha}
              /\ total_chunks' \in {0, TotalChunks}
              /\ chunk_bmap' \in SUBSET Chunk
              /\ lower' \in [Chunk -> Doc \cup {Garbage}]
              /\ Length \in BOOLEAN /\ LengthNow \in BOOLEAN
              /\ net.msg.doc \in Doc
  BY <1>10, LowerKeepsType DEF ChunkAgrees
<1>11. CASE ChunkUnusable
  BY <1>11, <1>10, <1>a, <1>b, EmitFailType DEF ChunkUnusable, ChunkAgrees, TypeOK
<1>12. CASE ChunkStored
  BY <1>12, <1>10, <1>a DEF ChunkStored, ChunkAgrees, TypeOK
<1>13. CASE ChunkMismatch
  BY <1>13, <1>10, <1>a, <1>b, EmitFailType DEF ChunkMismatch, ChunkAgrees, TypeOK
<1>14. CASE ChunkDelivers
  <2>1. upper' \in Doc \cup {Garbage} /\ gzip_len_set' \in BOOLEAN
    BY <1>14, <1>10 DEF ChunkDelivers
  <2>2. /\ queue' \in Seq(Job) /\ Len(queue') <= QueueLen
        /\ cb_busy' \in BOOLEAN /\ started' \in BOOLEAN
        /\ net' \in {NetIdle, [at |-> "lost_head", msg |-> NoMsg]}
    BY <1>14, <1>10, EmitType DEF ChunkDelivers
  <2> QED
    BY <1>14, <1>10, <1>a, <1>b, <2>1, <2>2 DEF ChunkDelivers, ChunkAgrees, TypeOK
<1> QED
  BY <1>1, <1>2, <1>3, <1>4, <1>5, <1>6, <1>7, <1>8, <1>9, <1>11, <1>12, <1>13, <1>14
  DEF NetStep

LEMMA WorkerKeepsType ==
  ASSUME TypeInv, WorkerStep
  PROVE  TypeOK'
<1> USE DEF vars, transferVars, headVars, tailVars, bufVars, dispatchVars, requestVars
<1> DEFINE Worker == [at : {"idle", "head", "tail", "callback", "arm", "publish"},
                      why : {"job", "stale", "abort", "unsent"},
                      calls : 0 .. MaxCalls, job : Job]
<1>a. TypeOK /\ worker \in Worker /\ requests \in 0 .. MaxRequests
  BY DEF TypeOK, TypeInv
<1>b. WorkerIdle \in Worker
  BY BoundAssumption DEF WorkerIdle, NoJob, Job, Rid, NoRid
<1>1. CASE Dequeue
  <2>1. Head(queue) \in Job /\ Tail(queue) \in Seq(Job) /\ Len(Tail(queue)) <= QueueLen
    BY <1>1, <1>a, BoundAssumption DEF Dequeue, TypeOK
  <2>2. worker' \in Worker
    BY <1>1, <1>a, <1>b, <2>1 DEF Dequeue, FirstStep
  <2> QED
    BY <1>1, <1>a, <2>1, <2>2 DEF Dequeue, TypeOK
<1>2. CASE WorkerResetHead
  <2>1. worker' \in Worker
    BY <1>2, <1>a DEF WorkerResetHead
  <2> QED
    BY <1>2, <1>a, <2>1, ResetTypes DEF WorkerResetHead, TypeOK
<1>3. CASE WorkerResetTail
  <2>1. worker' \in Worker
    BY <1>3, <1>a DEF WorkerResetTail
  <2> QED
    BY <1>3, <1>a, <2>1, ResetTypes DEF WorkerResetTail, TypeOK
<1>4. CASE CallAbort
  <2>0. worker.calls + 1 \in 0 .. MaxCalls
    BY <1>4, <1>a, BoundAssumption DEF CallAbort
  <2>1. worker' \in Worker
    BY <1>4, <1>a, <2>0 DEF CallAbort
  <2> QED
    BY <1>4, <1>a, <2>1 DEF CallAbort, TypeOK
<1>5. CASE CallRequest
  <2>1. worker.calls + 1 \in 0 .. MaxCalls
    BY <1>5, <1>a, BoundAssumption DEF CallRequest
  <2>2. worker' \in Worker
    BY <1>5, <1>a, <2>1 DEF CallRequest
  <2> QED
    BY <1>5, <1>a, <2>2 DEF CallRequest, TypeOK
<1>6. CASE Arm
  <2>1. worker' \in Worker
    BY <1>6, <1>a DEF Arm
  <2>2. requests + 1 \in Rid /\ requests + 1 \in 0 .. MaxRequests
    BY <1>6, <1>a, BoundAssumption DEF Arm, TypeInv, RidBounds, Rid
  <2> QED
    BY <1>6, <1>a, <2>1, <2>2 DEF Arm, TypeOK
<1>7. CASE Publish
  <2>1. worker' \in Worker
    BY <1>7, <1>a DEF Publish
  <2>2. requests \in Rid
    BY <1>7, <1>a, BoundAssumption DEF Publish, TypeInv, RidBounds, Rid
  <2> QED
    BY <1>7, <1>a, <2>1, <2>2 DEF Publish, TypeOK
<1>8. CASE PublishFails
  <2>1. worker' \in Worker
    BY <1>8, <1>a DEF PublishFails
  <2> QED
    BY <1>8, <1>a, <2>1 DEF PublishFails, TypeOK
<1>9. CASE CallbackReturns
  BY <1>9, <1>a, <1>b DEF CallbackReturns, TypeOK
<1> QED
  BY <1>1, <1>2, <1>3, <1>4, <1>5, <1>6, <1>7, <1>8, <1>9 DEF WorkerStep

LEMMA WorkerKeepsRids ==
  ASSUME TypeInv, WorkerStep
  PROVE  RidBounds'
<1> USE DEF vars, transferVars, headVars, tailVars, bufVars, dispatchVars, requestVars
<1>a. RidBounds /\ requests \in 0 .. MaxRequests /\ worker \in [at : {"idle", "head",
        "tail", "callback", "arm", "publish"}, why : {"job", "stale", "abort", "unsent"},
        calls : 0 .. MaxCalls, job : Job]
  BY DEF TypeInv, TypeOK
<1>1. CASE Dequeue
  BY <1>1 DEF Dequeue, FirstStep, WorkerIdle, RidBounds
<1>2. CASE WorkerResetHead
  BY <1>2, <1>a DEF WorkerResetHead, RidBounds
<1>3. CASE WorkerResetTail
  BY <1>3, <1>a DEF WorkerResetTail, RidBounds
<1>4. CASE CallAbort
  BY <1>4, <1>a DEF CallAbort, RidBounds
<1>5. CASE CallRequest
  BY <1>5, <1>a DEF CallRequest, RidBounds
<1>6. CASE Arm
  BY <1>6, <1>a, BoundAssumption DEF Arm, RidBounds
<1>7. CASE Publish
  BY <1>7, <1>a DEF Publish, RidBounds
<1>8. CASE PublishFails
  BY <1>8, <1>a DEF PublishFails, RidBounds
<1>9. CASE CallbackReturns
  BY <1>9 DEF CallbackReturns, WorkerIdle, RidBounds
<1> QED
  BY <1>1, <1>2, <1>3, <1>4, <1>5, <1>6, <1>7, <1>8, <1>9 DEF WorkerStep

LEMMA NextType == TypeInv /\ [Next]_vars => TypeInv'
<1> SUFFICES ASSUME TypeInv, [Next]_vars PROVE TypeInv'
  OBVIOUS
<1> USE DEF TypeInv, RidBounds
<1>1. CASE Expire
  BY <1>1 DEF Expire, TypeOK, headVars, bufVars, dispatchVars, requestVars
<1>2. CASE UNCHANGED vars \/ \E m \in Message : Dropped(m)
  <2>1. UNCHANGED vars
    BY <1>2 DEF Dropped
  <2> QED
    BY <2>1 DEF TypeOK, vars, transferVars, headVars, tailVars, bufVars,
                dispatchVars, requestVars
<1>3. CASE (\E m \in Message : Receive(m)) \/ NetStep
  <2>1. UNCHANGED <<requests, worker>>
    BY <1>3 DEF Receive, NetStep, NetResetHead, NetResetTail, HandleMeta, RespIgnored,
      RespMalformed, RespMatches, RespRefused, ChunkInconsistent, ChunkUnusable,
      ChunkStored, ChunkMismatch, ChunkDelivers, ChunkAgrees, requestVars
  <2> QED
    BY <1>3, <2>1, NetKeepsType
<1> QED
  BY <1>1, <1>2, <1>3, WorkerKeepsType, WorkerKeepsRids DEF Next

(* Every state of the pull is well typed: no more jobs than the queue has  *)
(* room for, no chunk outside the buffer.                                  *)
THEOREM TypeCorrect == Spec => []TypeOK
<1>1. TypeInv => TypeOK
  BY DEF TypeInv
<1> QED
  BY <1>1, InitType, NextType, PTL DEF Spec

-------------------------------------------------------------------------------
(* The buffer. `Marked` is what makes the two properties inductive: the    *)
(* MQTT task is inside a message only while the buffer is free, and an     *)
(* idle worker holds no event.                                             *)

Marked ==
  /\ net.at # "idle" => ~cb_busy
  /\ worker.at = "idle" => worker.job.type # "json"

BufferInv == TypeOK /\ DeliveredIntact /\ BusyMatchesJob /\ Marked

(* While the buffer is free, no event reads it.                            *)
LEMMA FreeMeansUnread ==
  ASSUME BusyMatchesJob, ~cb_busy
  PROVE  worker.job.type # "json" /\ JsonQueued = {}
BY DEF BusyMatchesJob

(* An event that carries no document is queued or lost.                    *)
LEMMA OtherEvent ==
  ASSUME BufferInv, ~cb_busy, NEW reset \in BOOLEAN,
         Emit("other", reset, Garbage), worker' = worker
  PROVE  DeliveredIntact' /\ BusyMatchesJob' /\ Marked'
<1>1. worker.job.type # "json" /\ JsonQueued = {}
  BY FreeMeansUnread DEF BufferInv
<1>2. ~cb_busy'
  BY DEF Emit, EmitQueued, EmitLost, BusyAfterLoss
<1>3. JsonQueued' = {}
  <2>1. CASE UNCHANGED queue
    BY <1>1, <2>1 DEF JsonQueued
  <2>2. CASE EmitQueued("other", reset, Garbage)
    <3> DEFINE job == [type |-> "other", reset |-> reset, doc |-> Garbage,
                       rid |-> IF reset THEN pending_rid ELSE NoRid]
    <3>1. queue' = Append(queue, job) /\ queue \in Seq(Job) /\ job.type # "json"
      BY <2>2 DEF EmitQueued, BufferInv, TypeOK
    <3>2. \A i \in 1 .. Len(queue) : queue[i].type # "json"
      BY <1>1 DEF JsonQueued
    <3>3. \A i \in 1 .. Len(queue') : queue'[i].type # "json"
      BY <3>1, <3>2
    <3> QED
      BY <3>3 DEF JsonQueued
  <2> QED
    BY <2>1, <2>2 DEF Emit, EmitLost
<1>4. DeliveredIntact'
  BY <1>1, <1>3 DEF DeliveredIntact, Unfinished, JsonQueued
<1>5. BusyMatchesJob'
  BY <1>1, <1>2, <1>3 DEF BusyMatchesJob
<1>6. Marked'
  BY <1>1, <1>2 DEF Marked
<1> QED
  BY <1>4, <1>5, <1>6

(* The document is in the buffer when its event is queued.                 *)
LEMMA JsonEvent ==
  ASSUME BufferInv, ~cb_busy, NEW doc \in Doc, Emit("json", TRUE, doc),
         upper' = doc, worker' = worker
  PROVE  DeliveredIntact' /\ BusyMatchesJob' /\ Marked'
<1>1. worker.job.type # "json" /\ JsonQueued = {}
  BY FreeMeansUnread DEF BufferInv
<1>2. CASE EmitLost("json", TRUE)
  <2>1. ~cb_busy' /\ queue' = queue
    BY <1>2 DEF EmitLost, BusyAfterLoss
  <2>2. JsonQueued' = {}
    BY <1>1, <2>1 DEF JsonQueued
  <2> QED
    BY <1>1, <2>1, <2>2 DEF DeliveredIntact, Unfinished, JsonQueued, BusyMatchesJob, Marked
<1>3. CASE EmitQueued("json", TRUE, doc)
  <2> DEFINE job == [type |-> "json", reset |-> TRUE, doc |-> doc, rid |-> pending_rid]
             last == Len(queue) + 1
  <2>1. queue' = Append(queue, job) /\ queue \in Seq(Job)
    BY <1>3 DEF EmitQueued, BufferInv, TypeOK
  <2>2. \A i \in 1 .. Len(queue) : queue[i].type # "json"
    BY <1>1 DEF JsonQueued
  <2>3. /\ Len(queue') = last /\ queue'[last] = job /\ last \in 1 .. Len(queue')
        /\ \A i \in 1 .. Len(queue') : i # last => queue'[i].type # "json"
    BY <2>1, <2>2
  <2>4. JsonQueued' = {last}
    BY <2>3 DEF JsonQueued
  <2>5. cb_busy' /\ net' = NetIdle
    BY <1>3 DEF EmitQueued
  <2>6. DeliveredIntact'
    BY <1>1, <2>3 DEF DeliveredIntact, Unfinished
  <2>7. BusyMatchesJob'
    BY <1>1, <2>4, <2>5 DEF BusyMatchesJob
  <2>8. Marked'
    BY <1>1, <2>5 DEF Marked, NetIdle
  <2> QED
    BY <2>6, <2>7, <2>8
<1> QED
  BY <1>2, <1>3 DEF Emit

(* A step of the MQTT task that queues nothing may write the buffer only   *)
(* while it is free.                                                       *)
LEMMA QuietStep ==
  ASSUME BufferInv, UNCHANGED <<cb_busy, queue, worker>>,
         upper' = upper \/ ~cb_busy,
         net'.at # "idle" => ~cb_busy
  PROVE  DeliveredIntact' /\ BusyMatchesJob' /\ Marked'
<1>1. JsonQueued' = JsonQueued
  BY DEF JsonQueued
<1>2. BusyMatchesJob' /\ Marked'
  BY <1>1 DEF BufferInv, BusyMatchesJob, Marked
<1>3. Unfinished' = Unfinished
  BY DEF Unfinished
<1>4. CASE upper' = upper
  BY <1>2, <1>3, <1>4 DEF BufferInv, DeliveredIntact
<1>5. CASE ~cb_busy
  <2>1. \A job \in Unfinished : job.type # "json"
    BY <1>5, FreeMeansUnread DEF BufferInv, Unfinished, JsonQueued
  <2> QED
    BY <1>2, <1>3, <2>1 DEF DeliveredIntact
<1> QED
  BY <1>2, <1>4, <1>5

LEMMA NetKeepsBuffer ==
  ASSUME BufferInv, (\E m \in Message : Receive(m)) \/ NetStep
  PROVE  DeliveredIntact' /\ BusyMatchesJob' /\ Marked'
<1> USE DEF dispatchVars, bufVars
<1>a. net.at # "idle" => ~cb_busy
  BY DEF BufferInv, Marked
<1>b. NetIdle.at = "idle"
  BY DEF NetIdle
<1>1. CASE \E m \in Message : Receive(m)
  BY <1>1, QuietStep DEF Receive, BufferFree
<1>2. CASE NetResetHead
  BY <1>2, <1>a, QuietStep DEF NetResetHead
<1>3. CASE NetResetTail
  BY <1>3, <1>a, QuietStep DEF NetResetTail
<1>4. CASE HandleMeta
  <2>1. Emit("other", FALSE, Garbage) /\ worker' = worker /\ ~cb_busy
    BY <1>4, <1>a DEF HandleMeta
  <2> QED
    BY <2>1, OtherEvent
<1>5. CASE RespIgnored
  BY <1>5, <1>a, <1>b, QuietStep DEF RespIgnored
<1>6. CASE RespMatches
  BY <1>6, <1>a, QuietStep DEF RespMatches
<1>7. CASE ChunkStored
  BY <1>7, <1>a, <1>b, QuietStep DEF ChunkStored, ChunkAgrees
<1>8. CASE RespMalformed \/ RespRefused \/ ChunkInconsistent \/ ChunkUnusable \/ ChunkMismatch
  <2>1. EmitFail /\ worker' = worker /\ ~cb_busy
    BY <1>8, <1>a DEF RespMalformed, RespRefused, ChunkInconsistent, ChunkUnusable,
                      ChunkMismatch, ChunkAgrees
  <2> QED
    BY <2>1, OtherEvent DEF EmitFail
<1>9. CASE ChunkDelivers
  <2>1. net.msg.doc \in Doc
    BY <1>9, LowerKeepsType DEF ChunkDelivers, ChunkAgrees, BufferInv
  <2>2. /\ Emit("json", TRUE, net.msg.doc) /\ upper' = net.msg.doc
        /\ worker' = worker /\ ~cb_busy
    BY <1>9, <1>a DEF ChunkDelivers, ChunkAgrees
  <2> QED
    BY <2>1, <2>2, JsonEvent
<1> QED
  BY <1>1, <1>2, <1>3, <1>4, <1>5, <1>6, <1>7, <1>8, <1>9 DEF NetStep

(* The worker takes the first job; the others move up.                     *)
LEMMA DequeueKeepsBuffer ==
  ASSUME BufferInv, Dequeue
  PROVE  DeliveredIntact' /\ BusyMatchesJob' /\ Marked'
<1>1. /\ queue \in Seq(Job) /\ queue # <<>> /\ queue' = Tail(queue)
      /\ upper' = upper /\ cb_busy' = cb_busy /\ net' = net
      /\ worker.job.type # "json"
      /\ worker'.job = queue[1] /\ worker'.at # "idle"
  BY DEF Dequeue, bufVars, BufferInv, TypeOK, Marked, WorkerIdle, FirstStep
<1>2. /\ Len(queue) \in Nat /\ Len(queue) > 0
      /\ Len(queue') = Len(queue) - 1
      /\ \A i \in 1 .. Len(queue') : i + 1 \in 1 .. Len(queue) /\ queue'[i] = queue[i + 1]
  BY <1>1
<1>3. \A i \in 1 .. Len(queue) : i = 1 \/ (i - 1 \in 1 .. Len(queue') /\ queue'[i - 1] = queue[i])
  BY <1>2
<1>4. 1 \in 1 .. Len(queue)
  BY <1>2
<1>5. DeliveredIntact'
  <2>1. Unfinished' \subseteq Unfinished
    BY <1>1, <1>2, <1>4 DEF Unfinished
  <2> QED
    BY <2>1, <1>1 DEF DeliveredIntact, BufferInv
<1>6. BusyMatchesJob'
  <2>1. \A i \in JsonQueued' : i + 1 \in JsonQueued /\ i + 1 # 1 /\ i \in Nat
    BY <1>2 DEF JsonQueued
  <2>2. \A i \in JsonQueued : i = 1 \/ i - 1 \in JsonQueued'
    BY <1>3 DEF JsonQueued
  <2>3. worker'.job.type = "json" <=> 1 \in JsonQueued
    BY <1>1, <1>4 DEF JsonQueued
  <2>4. \A i, j \in JsonQueued : i = j
    BY DEF BufferInv, BusyMatchesJob
  <2>5. \A i, j \in JsonQueued' : i = j
    BY <2>1, <2>4
  <2>6. worker'.job.type = "json" => JsonQueued' = {}
    BY <2>1, <2>3, <2>4
  <2>7. cb_busy <=> JsonQueued # {}
    BY <1>1 DEF BufferInv, BusyMatchesJob
  <2>8. JsonQueued # {} <=> (1 \in JsonQueued \/ JsonQueued' # {})
    BY <2>1, <2>2
  <2> QED
    BY <1>1, <2>3, <2>5, <2>6, <2>7, <2>8 DEF BusyMatchesJob
<1>7. Marked'
  BY <1>1 DEF Marked, BufferInv
<1> QED
  BY <1>5, <1>6, <1>7

LEMMA ReturnKeepsBuffer ==
  ASSUME BufferInv, CallbackReturns
  PROVE  DeliveredIntact' /\ BusyMatchesJob' /\ Marked'
<1>1. /\ queue' = queue /\ upper' = upper /\ net' = net
      /\ worker' = WorkerIdle
      /\ cb_busy' = (cb_busy /\ worker.job.type # "json")
  BY DEF CallbackReturns, bufVars, OwnsBuffer
<1>2. WorkerIdle.job.type # "json" /\ JsonQueued' = JsonQueued
  BY <1>1 DEF WorkerIdle, NoJob, JsonQueued
<1>3. DeliveredIntact'
  BY <1>1, <1>2 DEF DeliveredIntact, Unfinished, BufferInv
<1>4. cb_busy' <=> JsonQueued' # {}
  BY <1>1, <1>2 DEF BufferInv, BusyMatchesJob
<1>5. BusyMatchesJob'
  BY <1>1, <1>2, <1>4 DEF BufferInv, BusyMatchesJob
<1>6. Marked'
  BY <1>1, <1>2 DEF Marked, BufferInv
<1> QED
  BY <1>3, <1>5, <1>6

LEMMA WorkerKeepsBuffer ==
  ASSUME BufferInv, WorkerStep
  PROVE  DeliveredIntact' /\ BusyMatchesJob' /\ Marked'
<1>1. CASE Dequeue
  BY <1>1, DequeueKeepsBuffer
<1>2. CASE CallbackReturns
  BY <1>2, ReturnKeepsBuffer
<1>3. CASE \/ WorkerResetHead \/ WorkerResetTail \/ CallAbort \/ CallRequest
           \/ Arm \/ Publish \/ PublishFails
  <2>1. /\ queue' = queue /\ upper' = upper /\ cb_busy' = cb_busy /\ net' = net
        /\ worker'.job = worker.job /\ worker'.at # "idle"
    BY <1>3 DEF WorkerResetHead, WorkerResetTail, CallAbort, CallRequest, Arm, Publish,
                PublishFails, bufVars, dispatchVars, BufferInv, TypeOK
  <2>2. JsonQueued' = JsonQueued /\ Unfinished' = Unfinished
    BY <2>1 DEF JsonQueued, Unfinished
  <2> QED
    BY <2>1, <2>2 DEF BufferInv, DeliveredIntact, BusyMatchesJob, Marked
<1> QED
  BY <1>1, <1>2, <1>3 DEF WorkerStep

LEMMA BufferInvHolds == Spec => [](DeliveredIntact /\ BusyMatchesJob)
<1>1. Init => BufferInv
  <2> SUFFICES ASSUME Init PROVE BufferInv
    OBVIOUS
  <2>1. TypeOK
    BY InitType DEF TypeInv
  <2>2. JsonQueued = {} /\ worker.job.type # "json" /\ Unfinished = {NoJob}
    BY DEF Init, JsonQueued, Unfinished, WorkerIdle, NoJob
  <2>3. DeliveredIntact
    BY <2>2 DEF DeliveredIntact, NoJob
  <2> QED
    BY <2>1, <2>2, <2>3 DEF Init, BufferInv, BusyMatchesJob, Marked, NetIdle
<1>2. TypeOK /\ TypeOK' /\ BufferInv /\ [Next]_vars => BufferInv'
  <2> SUFFICES ASSUME TypeOK, TypeOK', BufferInv, [Next]_vars PROVE BufferInv'
    OBVIOUS
  <2>1. CASE Expire \/ (\E m \in Message : Dropped(m)) \/ UNCHANGED vars
    <3>1. UNCHANGED <<cb_busy, queue, worker, upper, net>>
      BY <2>1 DEF Expire, Dropped, vars, bufVars, dispatchVars
    <3> QED
      BY <3>1, QuietStep DEF BufferInv, Marked
  <2> QED
    BY <2>1, NetKeepsBuffer, WorkerKeepsBuffer DEF Next, BufferInv
<1>3. BufferInv => DeliveredIntact /\ BusyMatchesJob
  BY DEF BufferInv
<1> QED
  BY <1>1, <1>2, <1>3, TypeCorrect, PTL DEF Spec

(* Whatever arrives, and however the two tasks interleave, a callback      *)
(* reads the document whose sha its event names.                           *)
THEOREM DeliveredIntactAlways == Spec => []DeliveredIntact
BY BufferInvHolds, PTL

(* cb_busy is set exactly while one JSON event is queued or in its         *)
(* callback.                                                               *)
THEOREM BusyMatchesJobAlways == Spec => []BusyMatchesJob
BY BufferInvHolds, PTL

-------------------------------------------------------------------------------
(* The reset before the callback. A worker that has made no call is in its *)
(* job's own reset or past it, and nobody else can arm a transfer.         *)

ResetFirst ==
  /\ worker.calls = 0 => worker.at \in {"idle", "head", "tail", "callback"}
  /\ worker.calls = 0 /\ worker.at \in {"tail", "callback"} /\ worker.job.reset
       => ~transfer_active
  /\ worker.calls = 0 /\ worker.at \in {"head", "tail"} => worker.why = "job"
  /\ worker.at = "idle" => worker.calls = 0

LEMMA ResetFirstStep ==
  ASSUME TypeOK, ResetFirst, [Next]_vars
  PROVE  ResetFirst'
<1> USE DEF vars, transferVars, headVars, tailVars, bufVars, dispatchVars, requestVars
<1>a. /\ worker \in [at : {"idle", "head", "tail", "callback", "arm", "publish"},
                      why : {"job", "stale", "abort", "unsent"},
                      calls : 0 .. MaxCalls, job : Job]
      /\ MaxCalls \in Nat
  BY BoundAssumption DEF TypeOK
<1>1. CASE /\ worker' = worker
           /\ transfer_active' = transfer_active \/ transfer_active' = FALSE
  BY <1>1 DEF ResetFirst
<1>2. CASE (\E m \in Message : Receive(m) \/ Dropped(m)) \/ NetStep \/ Expire \/ UNCHANGED vars
  <2>1. /\ worker' = worker
        /\ transfer_active' = transfer_active \/ transfer_active' = FALSE
    BY <1>2 DEF Receive, Dropped, NetStep, NetResetHead, NetResetTail, ResetHead, ResetTail,
      HandleMeta, RespIgnored, RespMalformed, RespMatches, RespRefused, ChunkInconsistent,
      ChunkUnusable, ChunkStored, ChunkMismatch, ChunkDelivers, ChunkAgrees, Expire
  <2> QED
    BY <1>1, <2>1
<1>3. CASE Dequeue
  <2>1. /\ worker'.calls = 0 /\ worker'.job = Head(queue) /\ worker'.why = "job"
        /\ worker'.at = FirstStep(Head(queue))
    BY <1>3 DEF Dequeue, WorkerIdle
  <2> QED
    BY <2>1 DEF ResetFirst, FirstStep
<1>4. CASE WorkerResetHead
  <2>1. /\ worker.at = "head" /\ worker'.why = worker.why
        /\ worker'.at = "tail" /\ worker'.calls = worker.calls
        /\ worker'.job = worker.job /\ ~transfer_active'
    BY <1>4, <1>a DEF WorkerResetHead, ResetHead
  <2> QED
    BY <2>1 DEF ResetFirst
<1>5. CASE WorkerResetTail
  <2>1. /\ worker.at = "tail" /\ worker'.at \in {"arm", "callback"}
        /\ worker'.calls = worker.calls /\ worker'.job = worker.job
        /\ worker'.at = "arm" => worker.why = "stale"
        /\ transfer_active' = transfer_active
    BY <1>5, <1>a DEF WorkerResetTail, ResetTail
  <2> QED
    BY <2>1 DEF ResetFirst
<1>6. CASE CallAbort \/ CallRequest
  <2>1. worker.calls \in Nat /\ worker.calls + 1 # 0
    BY <1>a
  <2>2. worker'.calls = worker.calls + 1 /\ worker'.at # "idle"
    BY <1>6, <1>a DEF CallAbort, CallRequest
  <2>3. worker'.calls # 0
    BY <2>1, <2>2
  <2> QED
    BY <2>2, <2>3 DEF ResetFirst
<1>7. CASE Arm \/ Publish \/ PublishFails
  <2>1. worker.at \in {"arm", "publish"} /\ worker'.at # "idle" /\ worker'.calls = worker.calls
    BY <1>7, <1>a DEF Arm, Publish, PublishFails
  <2> QED
    BY <2>1 DEF ResetFirst
<1>8. CASE CallbackReturns
  BY <1>8 DEF CallbackReturns, WorkerIdle, ResetFirst
<1> QED
  BY <1>2, <1>3, <1>4, <1>5, <1>6, <1>7, <1>8 DEF Next, WorkerStep

(* In the callback of an event that ends a transfer, a fresh request finds *)
(* no transfer active: the reset came before the callback.                 *)
THEOREM FreshRequestAcceptedAlways == Spec => []FreshRequestAccepted
<1>1. Init => ResetFirst
  BY DEF Init, WorkerIdle, ResetFirst
<1>2. ResetFirst => FreshRequestAccepted
  BY DEF ResetFirst, FreshRequestAccepted
<1> QED
  BY <1>1, <1>2, ResetFirstStep, TypeCorrect, PTL DEF Spec
=================================================================================
