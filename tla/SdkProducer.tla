----------------------------- MODULE SdkProducer -----------------------------
(***************************************************************************)
(* Producers of the Rust SDK (sdk/rust/src/producer.rs) and the broker's   *)
(* produce handler (BrokerHandler::handle_produce,                         *)
(* src/src/broker/broker.rs, over append_records,                          *)
(* src/src/broker/core.rs).  A producer's calls queue commands for its     *)
(* batching task; the task sends one request at a time over the connection *)
(* and answers the calls.  The broker sends the records of a request one   *)
(* by one, each in three steps: read the partition's high watermark,       *)
(* append at it, store it plus one.  Requests of several producers, and of *)
(* one producer whose earlier request timed out, are served concurrently.  *)
(* The partition is its newest record at each offset; sequence numbers are *)
(* left out because no request carries them.                               *)
(***************************************************************************)
EXTENDS Naturals, SequencesExt

CONSTANTS
    Clients,        \* producers of the SDK
    BatchSize,      \* config.batch_size
    MaxSends,       \* bound on messages
    MaxFlushes,     \* bound on flush and close calls
    MaxProduceErrors \* bound on failing appends and timeouts

ASSUME ProducerConstants == BatchSize \in Nat \ {0} /\ MaxSends \in Nat /\ MaxFlushes \in Nat

Sends == 1 .. MaxSends      \* the n-th message sent, by whichever producer, is n
Flushes == 1 .. MaxFlushes

VARIABLES
    queue,      \* [Clients -> commands in the channel to the batching task]
    batch,      \* [Clients -> pending_messages]
    flushes,    \* [Clients -> pending_flushes]
    awaiting,   \* [Clients -> number of the request the task waits for, 0 for none]
    serving,    \* requests in handle_produce: [client, number, ids, done, pc, base, first]
    topicLog,   \* the partition: [offsets written -> message]
    watermark,  \* the partition's high_watermark in the broker's metadata
    answer,     \* [Sends -> what the call was told]
    flushed,    \* flush calls that have returned
    sent,       \* history: messages sent so far
    sentBefore, \* history: [flush call -> messages its producer had queued before it]
    senders,    \* history: [message -> its producer]
    requests,   \* history: requests so far
    racedRequests, \* history: requests that were appending while another one was
    produceErrors

producerVars == <<queue, batch, flushes, awaiting, serving, topicLog, watermark, answer,
                  flushed, sent, sentBefore, senders, requests, racedRequests, produceErrors>>
brokerVars == <<topicLog, watermark, racedRequests>>
callVars == <<sent, sentBefore, senders>>

NotAnswered == [status |-> "none"]
SendFailed == [status |-> "error"]
Sent(offset, number) == [status |-> "sent", offset |-> offset, by |-> number]  \* by: history

ProducerInit ==
    /\ queue = [p \in Clients |-> <<>>] /\ batch = [p \in Clients |-> <<>>]
    /\ flushes = [p \in Clients |-> {}] /\ awaiting = [p \in Clients |-> 0]
    /\ serving = {} /\ topicLog = <<>> /\ watermark = 0
    /\ answer = [m \in Sends |-> NotAnswered] /\ flushed = {}
    /\ sent = 0 /\ sentBefore = <<>> /\ senders = <<>> /\ requests = 0
    /\ racedRequests = {} /\ produceErrors = 0

-------------------------------------------------------------------------------
(* The calls.                                                              *)

\* send, which then waits for its answer, and send_async, which does not.
Send(p) ==
    /\ sent < MaxSends
    /\ sent' = sent + 1 /\ senders' = Append(senders, p)
    /\ queue' = [queue EXCEPT ![p] = Append(@, [kind |-> "Message", id |-> sent + 1])]
    /\ UNCHANGED <<batch, flushes, awaiting, serving, brokerVars, answer, flushed, sentBefore,
                   requests, produceErrors>>

\* flush, and close, which does nothing else.
Flush(p) ==
    /\ Len(sentBefore) < MaxFlushes
    /\ sentBefore' = Append(sentBefore, {m \in DOMAIN senders : senders[m] = p})
    /\ queue' = [queue EXCEPT ![p] = Append(@, [kind |-> "Flush", id |-> Len(sentBefore) + 1])]
    /\ UNCHANGED <<batch, flushes, awaiting, serving, brokerVars, answer, flushed, sent, senders,
                   requests, produceErrors>>

-------------------------------------------------------------------------------
(* The batching task, run_batching_loop.                                   *)

\* send_batch_internal up to the await of the response.
SendBatch(p, ids) ==
    /\ requests' = requests + 1
    /\ awaiting' = [awaiting EXCEPT ![p] = requests + 1]
    /\ serving' = serving \cup {[client |-> p, number |-> requests + 1, ids |-> ids, done |-> 0,
                                  pc |-> "read", base |-> 0, first |-> 0]}

NoRequest == UNCHANGED <<requests, awaiting, serving>>

\* A message joins the batch, which is sent when it is full.
TakeMessage(p) ==
    /\ awaiting[p] = 0 /\ queue[p] # <<>> /\ Head(queue[p]).kind = "Message"
    /\ queue' = [queue EXCEPT ![p] = Tail(@)]
    /\ batch' = [batch EXCEPT ![p] = Append(@, Head(queue[p]).id)]
    /\ IF Len(batch'[p]) >= BatchSize THEN SendBatch(p, batch'[p]) ELSE NoRequest
    /\ UNCHANGED <<flushes, brokerVars, answer, flushed, callVars, produceErrors>>

\* Mutant: the flush is answered while the batch is on its way.
TakeFlush_AnswersAtOnce(p) ==
    /\ awaiting[p] = 0 /\ queue[p] # <<>> /\ Head(queue[p]).kind = "Flush"
    /\ queue' = [queue EXCEPT ![p] = Tail(@)]
    /\ IF batch[p] # <<>> THEN SendBatch(p, batch[p]) ELSE NoRequest
    /\ flushed' = flushed \cup {Head(queue[p]).id}
    /\ UNCHANGED <<batch, flushes, brokerVars, answer, callVars, produceErrors>>

\* A flush sends the batch and is answered after it; without a batch it is answered.
TakeFlush(p) ==
    /\ awaiting[p] = 0 /\ queue[p] # <<>> /\ Head(queue[p]).kind = "Flush"
    /\ queue' = [queue EXCEPT ![p] = Tail(@)]
    /\ IF batch[p] # <<>>
       THEN /\ flushes' = [flushes EXCEPT ![p] = @ \cup {Head(queue[p]).id}]
            /\ SendBatch(p, batch[p]) /\ UNCHANGED flushed
       ELSE flushed' = flushed \cup {Head(queue[p]).id} /\ NoRequest /\ UNCHANGED flushes
    /\ UNCHANGED <<batch, brokerVars, answer, callVars, produceErrors>>

\* Mutant: the timer only sends full batches.
BatchTimer_FullOnly(p) ==
    /\ awaiting[p] = 0 /\ Len(batch[p]) >= BatchSize
    /\ SendBatch(p, batch[p])
    /\ UNCHANGED <<queue, batch, flushes, brokerVars, answer, flushed, callVars, produceErrors>>

BatchTimer(p) ==
    /\ awaiting[p] = 0 /\ batch[p] # <<>>
    /\ SendBatch(p, batch[p])
    /\ UNCHANGED <<queue, batch, flushes, brokerVars, answer, flushed, callVars, produceErrors>>

\* Mutant: the broker's offset is taken for the one before the batch.
OffsetTold_Next(first, i) == first + i

\* The i-th message of a batch is told the offset of the first one plus its place.
OffsetTold(first, i) == first + (i - 1)

\* send_batch_internal after the await: every message of the batch is answered, with an
\* offset or with the error, by its place in the batch, and then every flush, with Ok.
FinishBatch(p, result) ==
    /\ answer' = [m \in Sends |-> IF Contains(batch[p], m) THEN result[SelectInSeq(batch[p], LAMBDA x : x = m)]
                                  ELSE answer[m]]
    /\ batch' = [batch EXCEPT ![p] = <<>>]
    /\ flushed' = flushed \cup flushes[p]
    /\ flushes' = [flushes EXCEPT ![p] = {}]
    /\ awaiting' = [awaiting EXCEPT ![p] = 0]

-------------------------------------------------------------------------------
(* The broker's handler and the connection between them.                   *)

Awaited(r) == awaiting[r.client] = r.number
Finished(r) == r.done = Len(r.ids)
\* A request between its first read of the watermark and its last store.
Appending(r) == r.pc # "read" \/ (r.done > 0 /\ ~Finished(r))
Becomes(r, s) == serving' = (serving \ {r}) \cup {s}

\* producer.send of the next record: append_records takes a copy of the watermark as the
\* record's offset.  The offset of the request's first record is the one answered.
ReadWatermark(r) ==
    LET others == {s \in serving \ {r} : Appending(s)}
    IN  /\ r \in serving /\ r.pc = "read" /\ ~Finished(r)
        /\ Becomes(r, [r EXCEPT !.pc = "append", !.base = watermark,
                                !.first = IF r.done = 0 THEN watermark ELSE @])
        /\ racedRequests' = IF others = {} THEN racedRequests
                            ELSE racedRequests \cup {s.number : s \in others \cup {r}}
        /\ UNCHANGED <<queue, batch, flushes, awaiting, topicLog, watermark, answer, flushed, callVars,
                       requests, produceErrors>>

\* store.append and the replication: the record replaces what is at its offset.
AppendRecord(r) ==
    /\ r \in serving /\ r.pc = "append"
    /\ topicLog' = [o \in DOMAIN topicLog \cup {r.base} |->
                       IF o = r.base THEN r.ids[r.done + 1] ELSE topicLog[o]]
    /\ Becomes(r, [r EXCEPT !.pc = "store"])
    /\ UNCHANGED <<queue, batch, flushes, awaiting, watermark, answer, flushed, callVars, requests, racedRequests,
                   produceErrors>>

\* The watermark becomes the offset after the record, whatever it is by now.
StoreWatermark(r) ==
    /\ r \in serving /\ r.pc = "store"
    /\ watermark' = r.base + 1
    /\ Becomes(r, [r EXCEPT !.pc = "read", !.done = @ + 1])
    /\ UNCHANGED <<queue, batch, flushes, awaiting, topicLog, answer, flushed, callVars, requests, racedRequests,
                   produceErrors>>

\* The response, with the offset of the first record.
Respond(r) ==
    /\ r \in serving /\ Finished(r)
    /\ serving' = serving \ {r}
    /\ IF Awaited(r)
       THEN FinishBatch(r.client, [i \in DOMAIN batch[r.client] |-> Sent(OffsetTold(r.first, i), r.number)])
       ELSE UNCHANGED <<answer, batch, flushed, flushes, awaiting>>
    /\ UNCHANGED <<queue, brokerVars, callVars, requests, produceErrors>>

\* A record that cannot be appended or replicated, or a connection that fails, ends the
\* request with an error; what it has written stays, and so does the watermark.
ProduceError(r) ==
    /\ produceErrors < MaxProduceErrors /\ produceErrors' = produceErrors + 1
    /\ r \in serving /\ ~Finished(r)
    /\ serving' = serving \ {r}
    /\ IF Awaited(r) THEN FinishBatch(r.client, [i \in DOMAIN batch[r.client] |-> SendFailed])
       ELSE UNCHANGED <<answer, batch, flushed, flushes, awaiting>>
    /\ UNCHANGED <<queue, brokerVars, callVars, requests>>

\* request_timeout: the task goes on while the broker still serves the request.
RequestTimeout(p) ==
    /\ produceErrors < MaxProduceErrors /\ produceErrors' = produceErrors + 1
    /\ awaiting[p] # 0
    /\ FinishBatch(p, [i \in DOMAIN batch[p] |-> SendFailed])
    /\ UNCHANGED <<queue, serving, brokerVars, callVars, requests>>

BatchingTask(p) == TakeMessage(p) \/ TakeFlush(p) \/ BatchTimer(p)
Serve(r) == ReadWatermark(r) \/ AppendRecord(r) \/ StoreWatermark(r) \/ Respond(r) \/ ProduceError(r)

ProducerNext ==
    \/ \E p \in Clients : Send(p) \/ Flush(p) \/ BatchingTask(p) \/ RequestTimeout(p)
    \/ \E r \in serving : Serve(r)

\* The task takes what the channel or the timer gives it, and a request is served.
ProducerFairness ==
    /\ \A p \in Clients : WF_producerVars(BatchingTask(p))
    /\ WF_producerVars(\E r \in serving : Serve(r))

ProducerSpec == ProducerInit /\ [][ProducerNext]_producerVars /\ ProducerFairness

-------------------------------------------------------------------------------
\* A send that is told an offset finds its message there for ever, if its request did not
\* race: whatever other requests, before it or after it, raced each other, took the
\* watermark back, failed half-way or went on after their timeout, none of them writes at
\* an offset that was told.  The SDK numbers the batch from the broker's first offset and
\* handle_produce sends record by record, so this also says that the records of a request
\* lie next to each other.  Requests that race are told the same offset
\* (store_concurrent_produce).
AnsweredOffsetExact ==
    \A m \in Sends : answer[m].status = "sent" /\ answer[m].by \notin racedRequests =>
        answer[m].offset \in DOMAIN topicLog /\ topicLog[answer[m].offset] = m

\* When flush (or close) returns, every message its producer queued before has its answer,
\* whichever of batch size, timer and flush sent it ("ensuring message delivery before
\* closing"): pending_flushes are completed after the batch.
FlushCoversSends ==
    \A f \in flushed : \A m \in sentBefore[f] : answer[m] # NotAnswered

\* Every message gets an answer and every flush returns, full batch or not
\* (run_batching_loop's timer, send_batch_internal's two branches).
SendsAnswered ==
    /\ \A m \in Sends : sent >= m ~> answer[m] # NotAnswered
    /\ \A f \in Flushes : Len(sentBefore) >= f ~> f \in flushed

===============================================================================
