---------------------------- MODULE ConfigTransfer ----------------------------
(***************************************************************************)
(* The config pull of components/iotmer/iotmer_config.c with deferred      *)
(* callbacks (the default): config/get is requested under a fresh rid, the *)
(* answer is reassembled from chunks by index in the caller's buffer,      *)
(* verified, and handed to the application through the worker's queue.     *)
(*                                                                         *)
(* Two tasks share the context without a lock.  `net` is the task that     *)
(* runs iotmer_config_on_mqtt; `worker` is config_event_task, whose        *)
(* callback may call iotmer_config_request and iotmer_config_abort.        *)
(* transfer_reset is two steps in either task (its first stores, up to     *)
(* gzip_len, and the rest), a check is a step before the stores it guards, *)
(* and what handle_resp_chunked does after its rid comparison is one step. *)
(* An answer may come again, in any order, late or never.                  *)
(***************************************************************************)
EXTENDS Integers, Sequences

CONSTANTS
  Doc,           \* the config documents of the cloud
  Garbage,       \* bytes that are part of no document
  TotalChunks,   \* chunks of an answer
  QueueLen,      \* CONFIG_IOTMER_CONFIG_EVENT_QUEUE_LEN
  MaxRequests,   \* bound on the rids handed out
  MaxCalls       \* bound on the calls one callback makes

ASSUME DocAssumption == Doc # {} /\ Garbage \notin Doc
ASSUME BoundAssumption ==
  /\ TotalChunks \in Nat \ {0}
  /\ QueueLen \in Nat \ {0}
  /\ MaxRequests \in Nat
  /\ MaxCalls \in Nat

VARIABLES
  transfer_active,      \* ctx->transfer_active
  pending_rid,          \* ctx->pending_rid, NoRid when empty
  transfer_start,       \* ctx->transfer_start_us: "zero", "recent" or "stale"
  chunk_meta_init,      \* ctx->chunk_meta_init
  resp_sha,             \* ctx->resp_sha_hex, the document it belongs to
  total_chunks,         \* ctx->total_chunks
  chunk_bmap,           \* ctx->chunk_bmap
  gzip_len_set,         \* ctx->gzip_len # 0
  lower,                \* chunks in buf[0 .. cap / 2 - 1]
  upper,                \* what buf[cap / 2 ..] holds
  cb_busy,              \* ctx->cb_busy
  queue,                \* s_config_event_queue
  started,              \* the queue and the task exist
  requests,             \* rids handed out so far
  sent,                 \* rids whose config/get reached the cloud
  net,                  \* the MQTT task inside iotmer_config_on_mqtt
  worker                \* config_event_task

headVars     == <<transfer_active, chunk_meta_init, total_chunks, gzip_len_set>>
tailVars     == <<transfer_start, pending_rid, chunk_bmap>>
bufVars      == <<lower, upper>>
transferVars == <<headVars, tailVars, resp_sha>>
dispatchVars == <<cb_busy, queue, started>>
requestVars  == <<requests, sent>>
vars == <<transferVars, bufVars, dispatchVars, requestVars, net, worker>>

NoRid  == 0
Rid    == 1 .. MaxRequests
Chunk  == 0 .. TotalChunks - 1
Last   == TotalChunks - 1
NoSha  == Garbage
NoJob  == [type |-> "other", rid |-> NoRid, reset |-> FALSE, doc |-> Garbage]
Job    == [type : {"json", "other"}, rid : Rid \cup {NoRid}, reset : BOOLEAN,
           doc : Doc \cup {Garbage}]

(* What the cloud, or the broker's store of retained messages, may send.   *)
(* A refusal is an error response, or one that fails validation; a chunk   *)
(* names its document by sha, and its data may be another document's, not  *)
(* base64 at all, or shorter than chunk_bytes.                             *)
Undecodable == "undecodable"
Meta     == [kind : {"meta"}]
Junk     == [kind : {"junk"}]
Refusal  == [kind : {"refusal"}, rid : Rid]
ChunkMsg == [kind : {"chunk"}, rid : Rid, doc : Doc, idx : Chunk,
             data : Doc \cup {Garbage, Undecodable}]
NoMsg    == [kind |-> "none"]
Message  == Meta \cup Junk \cup Refusal \cup ChunkMsg

NetIdle == [at |-> "idle", msg |-> NoMsg]
WorkerIdle == [at |-> "idle", why |-> "job", calls |-> 0, job |-> NoJob]

-------------------------------------------------------------------------------
(* transfer_reset, by either task.                                         *)

ResetHead ==
  /\ transfer_active' = FALSE
  /\ chunk_meta_init' = FALSE
  /\ total_chunks' = 0
  /\ gzip_len_set' = FALSE
  /\ UNCHANGED <<tailVars, resp_sha>>

ResetTail ==
  /\ transfer_start' = "zero"
  /\ pending_rid' = NoRid
  /\ chunk_bmap' = {}
  /\ UNCHANGED <<headVars, resp_sha>>

(* transfer_timed_out                                                      *)
TimedOut == transfer_active /\ transfer_start = "stale"

(* The clock passes CONFIG_IOTMER_CONFIG_TRANSFER_TIMEOUT_MS.              *)
Expire ==
  /\ transfer_start = "recent"
  /\ transfer_start' = "stale"
  /\ UNCHANGED <<headVars, pending_rid, chunk_bmap, resp_sha, bufVars,
                 dispatchVars, requestVars, net, worker>>

-------------------------------------------------------------------------------
(* config_emit_event, in the MQTT task.                                    *)

QueueHasRoom == Len(queue) < QueueLen

(* Mutant: the buffer stays marked when its event is lost.                 *)
BusyKept(type) == (cb_busy \/ type = "json")

BusyAfterLoss(type) == IF type = "json" THEN FALSE ELSE cb_busy

(* The job is queued; a JSON event hands the buffer to the worker.         *)
EmitQueued(type, reset, doc) ==
  /\ QueueHasRoom
  /\ queue' = Append(queue, [type |-> type, reset |-> reset, doc |-> doc,
                             rid |-> IF reset THEN pending_rid ELSE NoRid])
  /\ cb_busy' = (cb_busy \/ type = "json")
  /\ started' = TRUE
  /\ net' = NetIdle

(* The worker cannot be created, or its queue is full: no event, and the   *)
(* MQTT task resets the transfer itself.                                   *)
EmitLost(type, reset) ==
  /\ ~started \/ ~QueueHasRoom
  /\ cb_busy' = BusyAfterLoss(type)
  /\ net' = IF reset THEN [at |-> "lost_head", msg |-> NoMsg] ELSE NetIdle
  /\ UNCHANGED <<queue, started>>

Emit(type, reset, doc) ==
  EmitQueued(type, reset, doc) \/ EmitLost(type, reset)

(* RESP_ERROR and FAIL differ in what they say, not in what they do.       *)
EmitFail == Emit("other", TRUE, Garbage)

-------------------------------------------------------------------------------
(* iotmer_config_on_mqtt, in the MQTT task.                                *)

(* Mutant: the buffer is written whoever owns it.                          *)
AlwaysFree == TRUE

BufferFree == ~cb_busy

Deliverable(m) == "rid" \in DOMAIN m => m.rid \in sent

(* A message that comes while the callback reads the buffer is dropped.    *)
Dropped(m) ==
  /\ net.at = "idle" /\ ~BufferFree /\ Deliverable(m)
  /\ UNCHANGED vars

Receive(m) ==
  /\ net.at = "idle" /\ BufferFree /\ Deliverable(m)
  /\ net' = [at |-> IF TimedOut THEN "stale_head" ELSE "handle", msg |-> m]
  /\ UNCHANGED <<transferVars, bufVars, dispatchVars, requestVars, worker>>

(* The two places where the MQTT task resets: a stale transfer before it   *)
(* handles the message, and the transfer of an event that was lost.        *)
NetResetHead ==
  /\ net.at \in {"stale_head", "lost_head"}
  /\ ResetHead
  /\ net' = [net EXCEPT !.at = IF @ = "stale_head" THEN "stale_tail" ELSE "lost_tail"]
  /\ UNCHANGED <<bufVars, dispatchVars, requestVars, worker>>

NetResetTail ==
  /\ net.at \in {"stale_tail", "lost_tail"}
  /\ ResetTail
  /\ net' = IF net.at = "stale_tail" THEN [net EXCEPT !.at = "handle"] ELSE NetIdle
  /\ UNCHANGED <<bufVars, dispatchVars, requestVars, worker>>

(* A message is parsed in the upper half, unless it is too large for it.   *)
ParseInUpper == upper' \in {upper, Garbage}

(* META, or a FAIL that leaves the transfer alone.                         *)
HandleMeta ==
  /\ net.at = "handle" /\ net.msg.kind = "meta"
  /\ ParseInUpper
  /\ Emit("other", FALSE, Garbage)
  /\ UNCHANGED <<transferVars, lower, requestVars, worker>>

Expecting == transfer_active /\ pending_rid # NoRid

(* A config/resp nobody waits for, or with the rid of another transfer.    *)
RespIgnored ==
  /\ net.at = "handle" /\ net.msg.kind \in {"junk", "refusal", "chunk"}
  /\ \/ ~Expecting /\ UNCHANGED upper
     \/ Expecting /\ net.msg.kind # "junk" /\ net.msg.rid # pending_rid
        /\ upper' = Garbage
  /\ net' = NetIdle
  /\ UNCHANGED <<transferVars, lower, dispatchVars, requestVars, worker>>

(* Too large, not JSON, or without chunk_index: its rid is never read.     *)
RespMalformed ==
  /\ net.at = "handle" /\ net.msg.kind = "junk" /\ Expecting
  /\ ParseInUpper
  /\ EmitFail
  /\ UNCHANGED <<transferVars, lower, requestVars, worker>>

RespMatches ==
  /\ net.at = "handle" /\ net.msg.kind \in {"refusal", "chunk"}
  /\ Expecting /\ net.msg.rid = pending_rid
  /\ upper' = Garbage
  /\ net' = [net EXCEPT !.at = "apply"]
  /\ UNCHANGED <<transferVars, lower, dispatchVars, requestVars, worker>>

(* The cloud refuses, or the response fails validation.                    *)
RespRefused ==
  /\ net.at = "apply" /\ net.msg.kind = "refusal"
  /\ EmitFail
  /\ UNCHANGED <<transferVars, bufVars, requestVars, worker>>

-------------------------------------------------------------------------------
(* handle_resp_chunked after the rid comparison.                           *)

Inconsistent == chunk_meta_init
                /\ (resp_sha # net.msg.doc \/ total_chunks # TotalChunks)

(* The bitmap and the length the chunk is added to: empty when this chunk  *)
(* is the first of the transfer.                                           *)
Seen    == IF chunk_meta_init THEN chunk_bmap ELSE {}
Length  == chunk_meta_init /\ gzip_len_set
NewChunk == net.msg.idx \notin Seen

Undecoded == NewChunk /\ net.msg.data = Undecodable
TooShort  == NewChunk /\ net.msg.data = Garbage /\ net.msg.idx # Last

(* What the lower half and the length are once the chunk is decoded.       *)
LowerNow  == IF NewChunk /\ net.msg.data # Undecodable
             THEN [lower EXCEPT ![net.msg.idx] = net.msg.data] ELSE lower
LengthNow == Length \/ (NewChunk /\ net.msg.idx = Last)
Complete  == Seen \cup {net.msg.idx} = Chunk
Verified  == LengthNow /\ \A i \in Chunk : LowerNow[i] = net.msg.doc

ChunkInconsistent ==
  /\ net.at = "apply" /\ net.msg.kind = "chunk" /\ Inconsistent
  /\ EmitFail
  /\ UNCHANGED <<transferVars, bufVars, requestVars, worker>>

(* Metadata and bitmap of a chunk that agrees with the first one.          *)
ChunkAgrees ==
  /\ net.at = "apply" /\ net.msg.kind = "chunk" /\ ~Inconsistent
  /\ chunk_meta_init' = TRUE
  /\ resp_sha' = net.msg.doc
  /\ total_chunks' = TotalChunks
  /\ chunk_bmap' = Seen \cup {net.msg.idx}
  /\ lower' = LowerNow
  /\ UNCHANGED <<transfer_active, transfer_start, pending_rid, requestVars, worker>>

(* The chunk stays marked although it could not be placed.                 *)
ChunkUnusable ==
  /\ ChunkAgrees
  /\ Undecoded \/ TooShort
  /\ EmitFail
  /\ gzip_len_set' = Length
  /\ UNCHANGED upper

ChunkStored ==
  /\ ChunkAgrees
  /\ ~Undecoded /\ ~TooShort /\ ~Complete
  /\ net' = NetIdle
  /\ gzip_len_set' = LengthNow
  /\ UNCHANGED <<upper, dispatchVars>>

(* Every chunk is marked, and the bytes do not hash to the sha.            *)
ChunkMismatch ==
  /\ ChunkAgrees
  /\ ~Undecoded /\ ~TooShort /\ Complete /\ ~Verified
  /\ EmitFail
  /\ gzip_len_set' = LengthNow
  /\ UNCHANGED upper

ChunkDelivers ==
  /\ ChunkAgrees
  /\ ~Undecoded /\ ~TooShort /\ Complete /\ Verified
  /\ upper' = net.msg.doc
  /\ Emit("json", TRUE, net.msg.doc)
  /\ gzip_len_set' = LengthNow

-------------------------------------------------------------------------------
(* config_event_task.                                                      *)

(* Mutant: the transfer is left to be reset after the callback.            *)
CallbackFirst(job) == "callback"

FirstStep(job) == IF job.reset THEN "head" ELSE "callback"

Dequeue ==
  /\ worker.at = "idle" /\ queue # <<>>
  /\ queue' = Tail(queue)
  /\ worker' = [WorkerIdle EXCEPT !.at = FirstStep(Head(queue)), !.job = Head(queue)]
  /\ UNCHANGED <<transferVars, bufVars, cb_busy, started, requestVars, net>>

WorkerResetHead ==
  /\ worker.at = "head"
  /\ ResetHead
  /\ worker' = [worker EXCEPT !.at = "tail"]
  /\ UNCHANGED <<bufVars, dispatchVars, requestVars, net>>

WorkerResetTail ==
  /\ worker.at = "tail"
  /\ ResetTail
  /\ worker' = [worker EXCEPT !.at = IF worker.why = "stale" THEN "arm" ELSE "callback"]
  /\ UNCHANGED <<bufVars, dispatchVars, requestVars, net>>

(* The callback calls iotmer_config_abort ...                              *)
CallAbort ==
  /\ worker.at = "callback" /\ worker.calls < MaxCalls
  /\ worker' = [worker EXCEPT !.at = "head", !.why = "abort", !.calls = @ + 1]
  /\ UNCHANGED <<transferVars, bufVars, dispatchVars, requestVars, net>>

(* ... or iotmer_config_request, which is refused, or first recovers a     *)
(* transfer that never completed.                                          *)
CallRequest ==
  /\ worker.at = "callback" /\ worker.calls < MaxCalls /\ requests < MaxRequests
  /\ worker' =
       [worker EXCEPT !.calls = @ + 1,
          !.at = IF ~transfer_active THEN "arm" ELSE IF TimedOut THEN "head" ELSE "callback",
          !.why = IF TimedOut THEN "stale" ELSE @]
  /\ UNCHANGED <<transferVars, bufVars, dispatchVars, requestVars, net>>

(* The transfer is armed before config/get is published.                   *)
Arm ==
  /\ worker.at = "arm"
  /\ requests' = requests + 1
  /\ pending_rid' = requests + 1
  /\ transfer_active' = TRUE
  /\ transfer_start' = "recent"
  /\ chunk_meta_init' = FALSE
  /\ total_chunks' = 0
  /\ gzip_len_set' = FALSE
  /\ chunk_bmap' = {}
  /\ worker' = [worker EXCEPT !.at = "publish"]
  /\ UNCHANGED <<resp_sha, bufVars, dispatchVars, sent, net>>

Publish ==
  /\ worker.at = "publish"
  /\ sent' = sent \cup {requests}
  /\ worker' = [worker EXCEPT !.at = "callback"]
  /\ UNCHANGED <<transferVars, bufVars, dispatchVars, requests, net>>

PublishFails ==
  /\ worker.at = "publish"
  /\ worker' = [worker EXCEPT !.at = "head", !.why = "unsent"]
  /\ UNCHANGED <<transferVars, bufVars, dispatchVars, requestVars, net>>

(* Mutant: the buffer is never given back.                                 *)
NeverMine(job) == FALSE

OwnsBuffer(job) == job.type = "json"

CallbackReturns ==
  /\ worker.at = "callback"
  /\ worker' = WorkerIdle
  /\ cb_busy' = (cb_busy /\ ~OwnsBuffer(worker.job))
  /\ UNCHANGED <<transferVars, bufVars, queue, started, requestVars, net>>

-------------------------------------------------------------------------------
(* The application starts with one request outside any callback, published *)
(* or not yet answered, or waits for a config/meta.                        *)
Init ==
  /\ \/ /\ transfer_active = FALSE /\ pending_rid = NoRid
        /\ transfer_start = "zero" /\ requests = 0 /\ sent = {}
     \/ /\ MaxRequests > 0
        /\ transfer_active = TRUE /\ pending_rid = 1
        /\ transfer_start = "recent" /\ requests = 1 /\ sent = {1}
  /\ chunk_meta_init = FALSE /\ resp_sha = NoSha /\ total_chunks = 0
  /\ chunk_bmap = {} /\ gzip_len_set = FALSE
  /\ lower = [i \in Chunk |-> Garbage] /\ upper = Garbage
  /\ cb_busy = FALSE /\ queue = <<>> /\ started = FALSE
  /\ net = NetIdle /\ worker = WorkerIdle

NetStep ==
  \/ NetResetHead \/ NetResetTail
  \/ HandleMeta \/ RespIgnored \/ RespMalformed \/ RespMatches \/ RespRefused
  \/ ChunkInconsistent \/ ChunkUnusable \/ ChunkStored \/ ChunkMismatch \/ ChunkDelivers

WorkerStep ==
  \/ Dequeue \/ WorkerResetHead \/ WorkerResetTail
  \/ CallAbort \/ CallRequest \/ Arm \/ Publish \/ PublishFails
  \/ CallbackReturns

Next ==
  \/ \E m \in Message : Dropped(m)
  \/ \E m \in Message : Receive(m)
  \/ NetStep \/ WorkerStep \/ Expire

(* The FreeRTOS scheduler runs the worker whenever it is ready, and the    *)
(* application's callback returns.                                         *)
Fairness == WF_vars(WorkerStep)

Spec == Init /\ [][Next]_vars /\ Fairness

-------------------------------------------------------------------------------
TypeOK ==
  /\ transfer_active \in BOOLEAN
  /\ pending_rid \in Rid \cup {NoRid}
  /\ transfer_start \in {"zero", "recent", "stale"}
  /\ chunk_meta_init \in BOOLEAN
  /\ resp_sha \in Doc \cup {NoSha}
  /\ total_chunks \in {0, TotalChunks}
  /\ chunk_bmap \in SUBSET Chunk
  /\ gzip_len_set \in BOOLEAN
  /\ lower \in [Chunk -> Doc \cup {Garbage}]
  /\ upper \in Doc \cup {Garbage}
  /\ cb_busy \in BOOLEAN
  /\ queue \in Seq(Job) /\ Len(queue) <= QueueLen
  /\ started \in BOOLEAN
  /\ requests \in 0 .. MaxRequests
  /\ sent \in SUBSET Rid
  /\ net \in [at : {"idle", "handle", "apply", "stale_head", "stale_tail",
                    "lost_head", "lost_tail"},
              msg : Message \cup {NoMsg}]
  /\ worker \in [at : {"idle", "head", "tail", "callback", "arm", "publish"},
                 why : {"job", "stale", "abort", "unsent"},
                 calls : 0 .. MaxCalls, job : Job]

(* The events queued or in their callback.                                 *)
JsonQueued == {i \in 1 .. Len(queue) : queue[i].type = "json"}
Unfinished == {worker.job} \cup {queue[i] : i \in 1 .. Len(queue)}

(* A callback reads the document whose sha its event names, from the       *)
(* moment the event is queued to the moment the callback returns, whatever *)
(* arrives meanwhile (cb_busy, iotmer_config.c:403-408 and 937-945).       *)
DeliveredIntact ==
  \A job \in Unfinished : job.type = "json" => upper = job.doc /\ job.doc \in Doc

(* cb_busy is set exactly as long as one JSON event is on its way or in    *)
(* its callback: a lost event does not keep the messages out, and no event *)
(* loses the buffer to the end of another one.                             *)
BusyMatchesJob ==
  /\ cb_busy <=> (worker.job.type = "json" \/ JsonQueued # {})
  /\ worker.job.type = "json" => JsonQueued = {}
  /\ \A i, j \in JsonQueued : i = j

(* In the callback of an event that ends a transfer, no transfer is active *)
(* until the callback itself makes a call: a fresh request is accepted     *)
(* (iotmer_config.c:332-336).                                              *)
FreshRequestAccepted ==
  worker.at = "callback" /\ worker.job.reset /\ worker.calls = 0 => ~transfer_active

(* The buffer comes back: inbound config messages are not dropped for ever. *)
BufferReleased == cb_busy ~> ~cb_busy
===============================================================================
