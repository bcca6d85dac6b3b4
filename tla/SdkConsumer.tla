----------------------------- MODULE SdkConsumer -----------------------------
(***************************************************************************)
(* A consumer of the Rust SDK (sdk/rust/src/consumer.rs) on one partition: *)
(* the fetch loop, the channel to the application, batched                 *)
(* acknowledgements, retries and the dead letter queue, commits, seeks and *)
(* close.  The broker is external: it answers fetches from a fixed log and *)
(* keeps the offset the group committed.  The tracker's lock is held       *)
(* across a commit's request, so commits in flight exclude every change of *)
(* the tracker.  pending_offsets and the circuit breaker are left out:     *)
(* nothing reads the first and nothing calls the second.                   *)
(***************************************************************************)
EXTENDS Integers, SequencesExt, FiniteSetsExt

CONSTANTS
    Committers,         \* "auto" (run_auto_commit_loop) and "manual" (commit)
    LogEnd,             \* the broker has offsets 0 .. LogEnd - 1
    FetchSize,          \* config.fetch_size
    MaxRetryAttempts,   \* config.max_retry_attempts
    CachedMessages,     \* capacity of the message cache, fetch_size * 10 in the code
    SeekTargets,        \* offsets the application seeks to
    MaxDeliveries,      \* bound on messages in the channel
    MaxAckQueue,        \* bound on acknowledgements on their way
    Upsets,             \* which of these may happen, once each: nack, seek, commit, fetch, pause
    MaxUpsets           \* bound on them together

ASSUME ConsumerConstants ==
    /\ LogEnd \in Nat /\ FetchSize \in Nat \ {0} /\ CachedMessages \in Nat \ {0}
    /\ SeekTargets \subseteq Nat /\ MaxRetryAttempts \in Nat

VARIABLES
    committed,      \* committed_offsets of the partition, 0 when there is no entry
    acknowledged,   \* acknowledged_offsets of the partition
    deliveries,     \* the channel to the application
    receiving,      \* a receive call holds the receiver and waits
    messages,       \* message_cache: offsets, the least recently used first
    ackQueue,       \* AckRequests in the channel and in the batch: [offset, success]
    failedMessages, \* failed_messages: [offset, retries]
    fetchLoop,      \* where run_consumption_loop is
    fetchFrom,      \* offset of the fetch under way
    committing,     \* [Committers \cup {"close"} -> offset of the commit under way, or NoOffset]
    paused,         \* paused_partitions has the partition
    closing,        \* how far close is
    groupOffset,    \* external: the offset the group has committed at the broker
    lateCommits,    \* external: commits the client has given up on
    received,       \* history: offsets the application has had
    processed,      \* history: offsets the application has acknowledged
    sought,         \* history: the last offset sought, NoOffset if none
    upsets          \* history: the kinds of Upsets that have happened

consumerVars == <<committed, acknowledged, deliveries, receiving, messages, ackQueue, failedMessages,
                  fetchLoop, fetchFrom, committing, closing, groupOffset, lateCommits, received,
                  processed, sought, paused, upsets>>
trackerVars == <<committed, acknowledged>>
appVars == <<receiving, messages, received>>
fetchVars == <<fetchLoop, fetchFrom, paused>>
commitVars == <<committing, groupOffset, lateCommits>>

NoOffset == -1
AllCommitters == Committers \cup {"close"}

ConsumerInit ==
    /\ committed = 0 /\ acknowledged = {} /\ deliveries = <<>> /\ receiving = FALSE
    /\ messages = <<>> /\ ackQueue = <<>> /\ failedMessages = <<>>
    /\ fetchLoop = "new" /\ fetchFrom = 0
    /\ committing = [c \in AllCommitters |-> NoOffset] /\ closing = "open"
    /\ groupOffset = 0 /\ lateCommits = {} /\ received = {} /\ processed = {} /\ sought = NoOffset
    /\ paused = FALSE /\ upsets = {}

\* Mutant: commit copies the offsets and lets go of the lock.
TrackerFree_Always == TRUE

\* offset_tracker's write lock is free.
TrackerFree == \A c \in AllCommitters : committing[c] = NoOffset
\* close holds is_closed from its first line to its last.
HoldsIsClosed == closing \in {"leaving", "committing", "receiver"}
IsClosed == closing # "open"
ReceiverOpen == closing # "closed"

Upset(kind) ==
    /\ kind \in Upsets \ upsets /\ Cardinality(upsets) < MaxUpsets
    /\ upsets' = upsets \cup {kind}

-------------------------------------------------------------------------------
(* run_consumption_loop.                                                   *)

\* build hands out the consumer and starts its tasks.
Build ==
    /\ fetchLoop = "new" /\ fetchLoop' = "check"
    /\ UNCHANGED <<trackerVars, appVars, commitVars, deliveries, ackQueue, failedMessages, fetchFrom,
                   paused, closing, processed, sought, upsets>>

\* The check of is_closed, which waits while close holds the lock; a closed consumer ends
\* the loop, another one waits for the tick of its interval.
CheckClosed ==
    /\ fetchLoop = "check" /\ ~HoldsIsClosed
    /\ fetchLoop' = IF IsClosed THEN "ended" ELSE "tick"
    /\ UNCHANGED <<trackerVars, appVars, commitVars, deliveries, ackQueue, failedMessages, fetchFrom,
                   paused, closing, processed, sought, upsets>>

\* A failed message is tried again while it has attempts left.
AddIfLeft(again, f) == IF f.retries < MaxRetryAttempts THEN Append(again, f) ELSE again

\* process_failed_messages: of the first `due` failed messages those with attempts left
\* are delivered, if the channel is open, and queued again, the others go to the dead
\* letter queue or are dropped.
RetryFailed(due) ==
    LET Again == FoldLeft(AddIfLeft, <<>>, SubSeq(failedMessages, 1, due))
    IN  /\ fetchLoop = "tick"
        /\ due <= Len(failedMessages) /\ Len(deliveries) + due <= MaxDeliveries
        /\ fetchLoop' = "fetch"
        /\ deliveries' = deliveries \o
                           (IF ReceiverOpen THEN [i \in DOMAIN Again |-> Again[i].offset] ELSE <<>>)
        /\ failedMessages' = SubSeq(failedMessages, due + 1, Len(failedMessages)) \o
                             [i \in DOMAIN Again |-> [Again[i] EXCEPT !.retries = @ + 1]]
        /\ UNCHANGED <<trackerVars, appVars, commitVars, ackQueue, fetchFrom, paused, closing,
                       processed, sought, upsets>>

\* The fetch starts behind the committed offset, whatever has been delivered; a paused
\* partition is skipped.
StartFetch ==
    /\ fetchLoop = "fetch"
    /\ \/ ~paused /\ fetchLoop' = "fetching" /\ fetchFrom' = committed + 1
       \/ paused /\ fetchLoop' = "check" /\ UNCHANGED fetchFrom
    /\ UNCHANGED <<trackerVars, appVars, commitVars, deliveries, ackQueue, failedMessages,
                   paused, closing, processed, sought, upsets>>

Fetched(o) == [i \in 1 .. Min({FetchSize, Max({0, LogEnd - o})}) |-> o + i - 1]

\* The response takes the tracker's lock and goes to the channel, or the request fails.
FinishFetch ==
    /\ fetchLoop = "fetching" /\ fetchLoop' = "check" /\ fetchFrom' = 0
    /\ \/ /\ TrackerFree
          /\ Len(deliveries) + Len(Fetched(fetchFrom)) <= MaxDeliveries
          /\ deliveries' = IF ReceiverOpen THEN deliveries \o Fetched(fetchFrom) ELSE deliveries
          /\ UNCHANGED upsets
       \/ /\ Upset("fetch")
          /\ UNCHANGED deliveries
    /\ UNCHANGED <<trackerVars, appVars, commitVars, ackQueue, failedMessages, paused, closing, processed,
                   sought>>

-------------------------------------------------------------------------------
(* The application: receive, ack, nack, seek.                              *)

\* The LRU list after offset o is used.
Touch(list, o) ==
    LET moved == Append(RemoveFirst(list, o), o)
    IN  SubSeq(moved, Max({1, Len(moved) - CachedMessages + 1}), Len(moved))

StartReceive ==
    /\ ~receiving /\ ReceiverOpen
    /\ receiving' = TRUE
    /\ UNCHANGED <<trackerVars, fetchVars, commitVars, messages, received, deliveries, ackQueue,
                   failedMessages, closing, processed, sought, upsets>>

\* The call returns a message, or none once the loop has ended and the channel is empty.
FinishReceive ==
    /\ receiving /\ receiving' = FALSE
    /\ \/ /\ deliveries # <<>>
          /\ deliveries' = Tail(deliveries)
          /\ messages' = Touch(messages, Head(deliveries))
          /\ received' = received \cup {Head(deliveries)}
       \/ deliveries = <<>> /\ fetchLoop = "ended" /\ UNCHANGED <<deliveries, messages, received>>
    /\ UNCHANGED <<trackerVars, fetchVars, commitVars, ackQueue, failedMessages, closing, processed,
                   sought, upsets>>

Ack(o) ==
    /\ o \in received /\ Len(ackQueue) < MaxAckQueue
    /\ ackQueue' = Append(ackQueue, [offset |-> o, success |-> TRUE])
    /\ processed' = processed \cup {o}
    /\ UNCHANGED <<trackerVars, appVars, fetchVars, commitVars, deliveries, failedMessages, closing,
                   sought, upsets>>

Nack(o) ==
    /\ o \in received /\ Len(ackQueue) < MaxAckQueue
    /\ Upset("nack")
    /\ ackQueue' = Append(ackQueue, [offset |-> o, success |-> FALSE])
    /\ UNCHANGED <<trackerVars, appVars, fetchVars, commitVars, deliveries, failedMessages, closing,
                   processed, sought>>

\* The broker has answered the seek: the tracker's offset is replaced; acknowledged
\* offsets stay.
Seek(o) ==
    /\ TrackerFree /\ Upset("seek")
    /\ sought' = o
    /\ committed' = o
    /\ UNCHANGED <<acknowledged, appVars, fetchVars, commitVars, deliveries, ackQueue,
                   failedMessages, closing, processed>>

\* pause_partitions and resume_partitions; the loop holds the list's lock across a fetch.
Pause ==
    /\ ~paused /\ paused' = TRUE /\ fetchLoop # "fetching"
    /\ Upset("pause")
    /\ UNCHANGED <<trackerVars, appVars, commitVars, fetchLoop, fetchFrom, deliveries,
                   ackQueue, failedMessages, closing, processed, sought>>
Resume ==
    /\ paused /\ paused' = FALSE /\ fetchLoop # "fetching"
    /\ UNCHANGED <<trackerVars, appVars, commitVars, fetchLoop, fetchFrom, deliveries,
                   ackQueue, failedMessages, closing, processed, sought, upsets>>

-------------------------------------------------------------------------------
(* process_batched_acks.                                                   *)

Tracker == [committed |-> committed, acknowledged |-> acknowledged, failed |-> failedMessages,
            messages |-> messages]

\* Mutant: the committed offset follows the highest acknowledgement.
Advance_ToHighest(t) ==
    LET to == Max(t.acknowledged \cup {t.committed})
    IN  [t EXCEPT !.committed = to, !.acknowledged = {o \in @ : o > to}]

\* update_consecutive_committed: up to the end of the run of acknowledged offsets that
\* starts behind the committed one.
Advance(t) ==
    LET Run == {o \in t.acknowledged : \A x \in t.committed + 1 .. o : x \in t.acknowledged}
        to == Max(Run \cup {t.committed})
    IN  IF to > t.committed
        THEN [t EXCEPT !.committed = to, !.acknowledged = {o \in @ : o > to}]
        ELSE t

\* One acknowledgement; a nack queues the message for a retry if the cache has it.
ApplyAck(t, ack) ==
    IF ack.success THEN Advance([t EXCEPT !.acknowledged = @ \cup {ack.offset}])
    ELSE IF Contains(t.messages, ack.offset)
         THEN [t EXCEPT !.failed = Append(@, [offset |-> ack.offset, retries |-> 0]),
                        !.messages = Touch(@, ack.offset)]
         ELSE t

\* The first n acknowledgements have reached the batch; all are applied under the lock.
ProcessAcks(n) ==
    LET after == FoldLeft(ApplyAck, Tracker, SubSeq(ackQueue, 1, n))
    IN  /\ n <= Len(ackQueue) /\ TrackerFree
        /\ ackQueue' = SubSeq(ackQueue, n + 1, Len(ackQueue))
        /\ committed' = after.committed /\ acknowledged' = after.acknowledged
        /\ failedMessages' = after.failed /\ messages' = after.messages
        /\ UNCHANGED <<fetchVars, commitVars, receiving, received, deliveries, closing, processed,
                       sought, upsets>>

-------------------------------------------------------------------------------
(* commit.                                                                 *)

\* Without an entry in the tracker there is nothing to commit.  The task of auto-commit
\* stops at a closed consumer; the call does not look.
Commit(c) ==
    /\ c \in Committers /\ committing[c] = NoOffset
    /\ c = "auto" => ~IsClosed
    /\ committed > 0 \/ sought # NoOffset
    /\ committing' = [committing EXCEPT ![c] = committed]
    /\ UNCHANGED <<trackerVars, appVars, fetchVars, groupOffset, lateCommits,
                   deliveries, ackQueue, failedMessages, closing, processed, sought, upsets>>

\* The commit ends: done, refused by the coordinator (another generation), or timed out
\* with the request still on its way.  close goes on only if it is done.
EndCommit(c) ==
    /\ committing[c] # NoOffset
    /\ committing' = [committing EXCEPT ![c] = NoOffset]
    /\ \/ /\ groupOffset' = committing[c]
          /\ closing' = IF c = "close" THEN "receiver" ELSE closing
          /\ UNCHANGED <<lateCommits, upsets>>
       \/ /\ Upset("commit")
          /\ closing' = IF c = "close" THEN "failed" ELSE closing
          /\ lateCommits' \in {lateCommits, lateCommits \cup {committing[c]}}
          /\ UNCHANGED groupOffset
    /\ UNCHANGED <<trackerVars, appVars, fetchVars, deliveries, ackQueue, failedMessages, processed,
                   sought>>

\* A commit the client has given up on arrives.
LateCommit(o) ==
    /\ o \in lateCommits
    /\ lateCommits' = lateCommits \ {o} /\ groupOffset' = o
    /\ UNCHANGED <<trackerVars, appVars, fetchVars, committing, deliveries, ackQueue,
                   failedMessages, closing, processed, sought, upsets>>

-------------------------------------------------------------------------------
(* close.                                                                  *)

\* Mutant: close waits for the fetch loop before it takes the receiver away.
CloseReceiver_Joins ==
    /\ closing = "receiver" /\ ~receiving /\ fetchLoop = "ended"
    /\ closing' = "closed" /\ deliveries' = <<>>
    /\ UNCHANGED <<trackerVars, appVars, fetchVars, commitVars, ackQueue, failedMessages, processed,
                   sought, upsets>>

\* The receiver's lock is free only between two receive calls.
CloseReceiver ==
    /\ closing = "receiver" /\ ~receiving
    /\ closing' = "closed" /\ deliveries' = <<>>
    /\ UNCHANGED <<trackerVars, appVars, fetchVars, commitVars, ackQueue, failedMessages, processed,
                   sought, upsets>>

\* close: is_closed is set and its lock held, the group is left, the offsets are
\* committed; a call that finds the flag set returns at once.
Close ==
    /\ \/ closing = "open" /\ closing' = "leaving" /\ UNCHANGED committing
       \/ closing = "leaving" /\ closing' = "committing" /\ UNCHANGED committing
       \/ /\ closing = "committing" /\ committing["close"] = NoOffset
          /\ IF committed > 0 \/ sought # NoOffset
             THEN committing' = [committing EXCEPT !["close"] = committed] /\ UNCHANGED closing
             ELSE closing' = "receiver" /\ UNCHANGED committing
    /\ UNCHANGED <<trackerVars, appVars, fetchVars, groupOffset, lateCommits,
                   deliveries, ackQueue, failedMessages, processed, sought, upsets>>

-------------------------------------------------------------------------------
FetchLoop ==
    CheckClosed \/ (\E due \in 0 .. MaxDeliveries : RetryFailed(due)) \/ StartFetch \/ FinishFetch
Offsets == 0 .. LogEnd - 1
ProcessBatch == \E n \in 1 .. MaxAckQueue : ProcessAcks(n)
EndCommits == \E c \in AllCommitters : EndCommit(c)

ConsumerStep ==
    \/ FetchLoop
    \/ StartReceive \/ FinishReceive
    \/ \E o \in Offsets : Ack(o) \/ Nack(o)
    \/ \E o \in SeekTargets : Seek(o)
    \/ ProcessBatch
    \/ \E c \in Committers : Commit(c)
    \/ EndCommits
    \/ \E o \in lateCommits : LateCommit(o)
    \/ Close \/ CloseReceiver
    \/ Pause \/ Resume

ConsumerNext == Build \/ (fetchLoop # "new" /\ ConsumerStep)

\* The fetch loop runs, requests end, and locks are given to who waits for them.
ConsumerFairness ==
    /\ WF_consumerVars(FetchLoop) /\ WF_consumerVars(FinishReceive) /\ WF_consumerVars(EndCommits)
    /\ WF_consumerVars(closing # "open" /\ Close) /\ WF_consumerVars(CloseReceiver)

ConsumerSpec == ConsumerInit /\ [][ConsumerNext]_consumerVars /\ ConsumerFairness

-------------------------------------------------------------------------------
\* Nothing is committed that the application has not acknowledged: every offset between
\* the last seek and the committed offset has been, though acknowledgements come in any
\* order, twice, after a nack, from a batch of before a seek
\* (update_consecutive_committed, acknowledged_offsets kept over seek).
CommittedProcessed ==
    \A o \in Max({sought, 0}) + 1 .. committed : o \in processed

\* The group's offset at the broker goes back only after a seek or a commit that timed
\* out: auto-commit, commit and close may overlap, but all hold the tracker's lock across
\* their request, so none of them carries an older offset than one that has been answered.
GroupOffsetKept ==
    [][upsets \cap {"seek", "commit"} = {} => groupOffset' >= groupOffset]_consumerVars

\* close returns, unless a receive waits for a message that does not come: the fetch loop
\* waits for is_closed, which close holds, and close waits for the receiver (README).
CloseReturns ==
    <>[]~receiving => (closing = "leaving" ~> closing \in {"closed", "failed"})

===============================================================================
