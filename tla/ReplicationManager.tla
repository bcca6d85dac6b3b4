-------------------------- MODULE ReplicationManager --------------------------
(***************************************************************************)
(* Leader-side replication of one partition                                *)
(* (src/src/replication/manager.rs) with the followers' data path          *)
(* (handle_replicate_data and handle_heartbeat in                          *)
(* src/src/replication/follower.rs), under one leader epoch;               *)
(* FollowerHandler models the epoch checks.                                *)
(*                                                                         *)
(* replicate_record appends locally, sends the record to every follower at *)
(* once, returns at the first min_in_sync_replicas - 1 acknowledgements    *)
(* and recomputes the high watermark from the follower states it has.      *)
(* Calls run concurrently, requests are delivered late, lost or retried,   *)
(* and answers arrive in any order.                                        *)
(***************************************************************************)
EXTENDS Naturals, FiniteSets, KthSmallest

CONSTANTS
    Followers,
    Leader,
    Tasks,         \* replicate_record calls that can be in progress at once
    MinIsr,        \* min_in_sync_replicas
    MaxLag,        \* max_replication_lag
    Unknown,       \* no entry in follower_states
    MaxOffset,     \* bound: records the callers replicate
    MaxFailures,   \* bound: sends that fail
    MaxHeartbeats  \* bound: heartbeats answered

ASSUME ReplicationConstants ==
    /\ Leader \notin Followers
    /\ MinIsr \in Nat \ {0} /\ MaxLag \in Nat
    /\ MaxOffset \in Nat /\ MaxFailures \in Nat /\ MaxHeartbeats \in Nat
    /\ IsFiniteSet(Followers)
    /\ U64Max \in Nat /\ MaxOffset <= U64Max

Offsets == 0 .. MaxOffset - 1
Replicas == Followers \cup {Leader}

VARIABLES
    log,             \* [Replicas -> set of offsets stored]
    log_end_offset,
    high_watermark,
    follower_states, \* [Followers -> [offset, fresh] or Unknown]
    task,            \* [Tasks -> progress of replicate_record]
    requests,        \* sends on their way to a follower: [off, to]
    answers,         \* answers on their way back: [off, from, offset]
    beats,           \* heartbeat answers on their way back: [from, offset]
    started,         \* offsets handed out by the callers so far
    durable,         \* history: offsets answered DurabilityLevel::Durable
    failures, heartbeats   \* bounds used up

network == <<requests, answers, beats>>
bounds == <<failures, heartbeats>>
vars == <<log, log_end_offset, high_watermark, follower_states, task, network, started,
          durable, bounds>>

IdleTask == [pc |-> "idle"]
RequiredAcks == MinIsr - 1

Init ==
    /\ log = [n \in Replicas |-> {}]
    /\ log_end_offset = 0 /\ high_watermark = 0
    /\ follower_states = [f \in Followers |-> Unknown]
    /\ task = [t \in Tasks |-> IdleTask]
    /\ requests = {} /\ answers = {} /\ beats = {}
    /\ started = 0
    /\ durable = {}
    /\ failures = 0 /\ heartbeats = 0

\* RecordLog::next_offset of a replica: one past its highest record, gaps or not.
next_offset(n) == IF log[n] = {} THEN 0 ELSE Max(log[n]) + 1

\* A call begins with the next offset of the partition.
ReplicateRecord(t) ==
    /\ task[t].pc = "idle" /\ started < MaxOffset
    /\ task' = [task EXCEPT ![t] = [pc |-> "append", off |-> started]]
    /\ started' = started + 1
    /\ UNCHANGED <<log, log_end_offset, high_watermark, follower_states, network, durable, bounds>>

\* append_to_local_wal, up to the await of the record log.
AppendLocal(t) ==
    /\ task[t].pc = "append"
    /\ log' = [log EXCEPT ![Leader] = @ \cup {task[t].off}]
    /\ task' = [task EXCEPT ![t].pc = "store"]
    /\ UNCHANGED <<log_end_offset, high_watermark, follower_states, network, started, durable, bounds>>

\* Store the log end offset, then send to all followers; alone, the leader is done.
SendAll(t) ==
    /\ task[t].pc = "store"
    /\ log_end_offset' = task[t].off + 1
    /\ IF Followers = {}
       THEN /\ high_watermark' = task[t].off
            /\ durable' = durable \cup {task[t].off}
            /\ task' = [task EXCEPT ![t] = IdleTask]
            /\ UNCHANGED requests
       ELSE /\ requests' = requests \cup {[off |-> task[t].off, to |-> f] : f \in Followers}
            /\ task' = [task EXCEPT ![t] =
                  [pc |-> "wait", off |-> task[t].off, pending |-> Followers, acked |-> {}]]
            /\ UNCHANGED <<high_watermark, durable>>
    /\ UNCHANGED <<log, follower_states, answers, beats, started, bounds>>

\* handle_replicate_data on the follower: append, answer with its next offset.
HandleReplicateData(r) ==
    /\ log' = [log EXCEPT ![r.to] = @ \cup {r.off}]
    /\ requests' = requests \ {r}
    /\ answers' = answers \cup
          {[off |-> r.off, from |-> r.to, offset |-> Max(log[r.to] \cup {r.off}) + 1]}
    /\ UNCHANGED <<log_end_offset, high_watermark, follower_states, task, beats, started, durable, bounds>>

\* The call waiting for this follower's answer to this record.
Awaits(t, off, f) == task[t].pc = "wait" /\ task[t].off = off /\ f \in task[t].pending

(***************************************************************************)
(* An acknowledgement.  With enough of them the loop breaks and the        *)
(* function returns, which drops the sends that are still pending: those   *)
(* the client has not put on the wire yet (the set cut) never go out.      *)
(***************************************************************************)
ReceiveAck(t, a) ==
    LET acked == task[t].acked \cup {a.from}
        pending == task[t].pending \ {a.from}
        enough == Cardinality(acked) >= RequiredAcks
    IN  /\ Awaits(t, a.off, a.from)
        /\ follower_states' = [follower_states EXCEPT ![a.from] = [offset |-> a.offset, fresh |-> TRUE]]
        /\ answers' = answers \ {a}
        /\ task' = [task EXCEPT ![t] =
              [pc |-> IF enough THEN "recalculate" ELSE IF pending = {} THEN "short" ELSE "wait",
               off |-> a.off, pending |-> pending, acked |-> acked]]
        /\ \E cut \in IF enough THEN SUBSET pending ELSE {{}} :
              requests' = requests \ {[off |-> a.off, to |-> f] : f \in cut}
        /\ UNCHANGED <<log, log_end_offset, high_watermark, beats, started, durable, bounds>>

\* An answer nobody waits for any more: its future was dropped or has timed out.
IgnoreAnswer(a) ==
    /\ \A t \in Tasks : ~Awaits(t, a.off, a.from)
    /\ answers' = answers \ {a}
    /\ UNCHANGED <<log, log_end_offset, high_watermark, follower_states, task, requests, beats,
                   started, durable, bounds>>

\* A send fails: the request is lost, or it times out here and is handled later.
SendFails(t, f) ==
    LET pending == task[t].pending \ {f}
    IN  /\ task[t].pc = "wait" /\ f \in task[t].pending
        /\ failures < MaxFailures /\ failures' = failures + 1
        /\ requests' \in {requests, requests \ {[off |-> task[t].off, to |-> f]}}
        /\ task' = [task EXCEPT ![t].pending = pending,
              ![t].pc = IF pending # {} THEN "wait"
                        ELSE IF Cardinality(task[t].acked) >= RequiredAcks THEN "recalculate"
                        ELSE "short"]
        /\ UNCHANGED <<log, log_end_offset, high_watermark, follower_states, answers, beats,
                       started, durable, heartbeats>>
\* Mutant: the shortfall is answered Durable.
ReturnLocalOnly_Durable(t) ==
    /\ task[t].pc = "short"
    /\ task' = [task EXCEPT ![t] = IdleTask]
    /\ durable' = durable \cup {task[t].off}
    /\ UNCHANGED <<log, log_end_offset, high_watermark, follower_states, network, started, bounds>>

\* Too few acknowledgements: the call answers Ok with DurabilityLevel::LocalOnly.
ReturnLocalOnly(t) ==
    /\ task[t].pc = "short"
    /\ task' = [task EXCEPT ![t] = IdleTask]
    /\ UNCHANGED <<log, log_end_offset, high_watermark, follower_states, network, started, durable, bounds>>

-------------------------------------------------------------------------------
(* recalculate_high_watermark.                                             *)

is_follower_in_sync(f) ==
    /\ follower_states[f] # Unknown
    /\ follower_states[f].fresh
    /\ follower_states[f].offset + MaxLag >= log_end_offset

InSyncOffsets ==
    LET insync == SetToSeq({f \in Followers : is_follower_in_sync(f)})
    IN  <<log_end_offset>> \o [i \in 1 .. Len(insync) |-> follower_states[insync[i]].offset]

\* Mutant: one position too high.
KFromBottom_OneHigher == Len(InSyncOffsets) + 2 - MinIsr

\* The position of the MinIsr-th highest offset, counted from the lowest.
KFromBottom == Len(InSyncOffsets) + 1 - MinIsr
\* The watermark the call found, compared with the one it loads: to be stored next.
Recalculate(t) ==
    /\ task[t].pc = "recalculate"
    /\ LET new == find_kth_smallest(InSyncOffsets, KFromBottom)
       IN  IF Len(InSyncOffsets) >= MinIsr /\ new > high_watermark
           THEN /\ task' = [task EXCEPT ![t] = [pc |-> "advance", off |-> task[t].off, new |-> new]]
                /\ UNCHANGED durable
           ELSE /\ task' = [task EXCEPT ![t] = IdleTask]
                /\ durable' = durable \cup {task[t].off}
    /\ UNCHANGED <<log, log_end_offset, high_watermark, follower_states, network, started, bounds>>

\* The store is a separate step: only the read lock is held, which others hold too.
AdvanceWatermark(t) ==
    /\ task[t].pc = "advance"
    /\ high_watermark' = task[t].new
    /\ durable' = durable \cup {task[t].off}
    /\ task' = [task EXCEPT ![t] = IdleTask]
    /\ UNCHANGED <<log, log_end_offset, follower_states, network, started, bounds>>

-------------------------------------------------------------------------------
(* Follower states: heartbeats, their timeout, add_follower and            *)
(* remove_follower.                                                        *)

HandleHeartbeat(f) ==
    /\ heartbeats < MaxHeartbeats /\ heartbeats' = heartbeats + 1
    /\ beats' = beats \cup {[from |-> f, offset |-> next_offset(f)]}
    /\ UNCHANGED <<log, log_end_offset, high_watermark, follower_states, task, requests, answers,
                   started, durable, failures>>

\* The monitor overwrites the follower's state with whatever arrives.
ReceiveHeartbeat(b) ==
    /\ follower_states' = [follower_states EXCEPT ![b.from] = [offset |-> b.offset, fresh |-> TRUE]]
    /\ beats' = beats \ {b}
    /\ UNCHANGED <<log, log_end_offset, high_watermark, task, requests, answers, started, durable, bounds>>

\* heartbeat_timeout passes without an answer.
HeartbeatExpires(f) ==
    /\ follower_states[f] # Unknown /\ follower_states[f].fresh
    /\ follower_states' = [follower_states EXCEPT ![f].fresh = FALSE]
    /\ UNCHANGED <<log, log_end_offset, high_watermark, task, network, started, durable, bounds>>

add_follower(f) ==
    /\ follower_states' = [follower_states EXCEPT ![f] = [offset |-> 0, fresh |-> TRUE]]
    /\ UNCHANGED <<log, log_end_offset, high_watermark, task, network, started, durable, bounds>>

remove_follower(f) ==
    /\ follower_states' = [follower_states EXCEPT ![f] = Unknown]
    /\ UNCHANGED <<log, log_end_offset, high_watermark, task, network, started, durable, bounds>>

-------------------------------------------------------------------------------
Call(t) ==
    \/ AppendLocal(t) \/ SendAll(t) \/ ReturnLocalOnly(t) \/ Recalculate(t) \/ AdvanceWatermark(t)
    \/ \E a \in answers : ReceiveAck(t, a)

Delivery ==
    \/ \E r \in requests : HandleReplicateData(r)
    \/ \E a \in answers : IgnoreAnswer(a)

Next ==
    \/ \E t \in Tasks : ReplicateRecord(t) \/ Call(t) \/ \E f \in Followers : SendFails(t, f)
    \/ Delivery
    \/ \E b \in beats : ReceiveHeartbeat(b)
    \/ \E f \in Followers :
          HandleHeartbeat(f) \/ HeartbeatExpires(f) \/ add_follower(f) \/ remove_follower(f)

Spec == Init /\ [][Next]_vars

\* Calls run on, requests on the wire arrive and are answered.
FairSpec == Spec /\ WF_vars(Delivery) /\ \A t \in Tasks : WF_vars(Call(t))

-------------------------------------------------------------------------------
\* A record answered Durable is stored on at least min_in_sync_replicas replicas, with
\* any losses, late answers and concurrent calls (wait_for_acknowledgments;
\* "Minimum replicas for durability", docs/configuration-reference.md).
DurableOnQuorum ==
    \A o \in durable : MinIsr <= Cardinality({n \in Replicas : o \in log[n]})

\* At least min_in_sync_replicas replicas have reached the watermark ("the highest offset
\* that at least min_in_sync_replicas have", recalculate_high_watermark): the selection
\* from the follower states is safe although they come from late answers and heartbeats,
\* followers are forgotten and added again, sends fail, and overlapping calls compare and
\* store in any order.
WatermarkReached ==
    high_watermark > 0 =>
        MinIsr <= Cardinality({n \in Replicas : high_watermark <= next_offset(n)})

-------------------------------------------------------------------------------
(* Said in the source, and not kept: TLC has a counterexample (README).    *)

\* When no send fails, a record that was answered Durable reaches every follower
\* ("returning early (remaining futures will complete in background)",
\* wait_for_acknowledgments).
RemainingSendsComplete ==
    \A o \in Offsets, f \in Followers : o \in durable ~> o \in log[f]

===============================================================================
