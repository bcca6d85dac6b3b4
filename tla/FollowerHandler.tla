---------------------------- MODULE FollowerHandler ----------------------------
(***************************************************************************)
(* A follower's epoch checks (src/src/replication/follower.rs) as its gRPC *)
(* service runs them (src/src/network/grpc_server.rs): replicate_data,     *)
(* send_heartbeat and transfer_leadership requests of leaders of different *)
(* epochs, each on a thread of its own.  The epoch is an atomic and the    *)
(* leader sits behind a lock, but the check, the two stores and the append *)
(* are separate steps.                                                     *)
(*                                                                         *)
(* An epoch has one leader (ReservationService), so a leader is named by   *)
(* its epoch.                                                              *)
(***************************************************************************)
EXTENDS Naturals

CONSTANTS
    Handlers,   \* requests that can be in progress at once
    MaxEpoch    \* bound: highest leader epoch

Epochs == 1 .. MaxEpoch
Kinds == {"replicate", "heartbeat", "transfer"}

VARIABLES
    leader_epoch,    \* AtomicU64
    current_leader,  \* RwLock<Option<BrokerId>>: the epoch that leader leads
    handler,         \* [Handlers -> progress of one request]
    staleAppends     \* history: records appended for a leader known to be superseded

vars == <<leader_epoch, current_leader, handler, staleAppends>>

Idle == [pc |-> "idle"]

Init ==
    /\ leader_epoch = 1 /\ current_leader = 1
    /\ handler = [h \in Handlers |-> Idle]
    /\ staleAppends = 0

Request(h, kind, e) ==
    /\ handler[h].pc = "idle"
    /\ handler' = [handler EXCEPT ![h] = [pc |-> "check", kind |-> kind, epoch |-> e]]
    /\ UNCHANGED <<leader_epoch, current_leader, staleAppends>>

\* A request of an older epoch is rejected; what an accepted one does next depends on
\* its kind, and for a leader's request on whether its epoch is news.
CheckEpoch(h) ==
    /\ handler[h].pc = "check"
    /\ LET r == handler[h]
       IN  \/ r.epoch < leader_epoch /\ handler' = [handler EXCEPT ![h] = Idle]
           \/ /\ r.epoch >= leader_epoch /\ r.kind = "transfer" /\ leader_epoch < MaxEpoch
              /\ handler' = [handler EXCEPT ![h] = [@ EXCEPT !.pc = "epoch", !.epoch = leader_epoch + 1]]
           \/ /\ r.epoch > leader_epoch /\ r.kind # "transfer"
              /\ handler' = [handler EXCEPT ![h].pc = "epoch"]
           \/ /\ r.epoch = leader_epoch /\ r.kind # "transfer"
              /\ handler' = [handler EXCEPT ![h].pc = "append"]
    /\ UNCHANGED <<leader_epoch, current_leader, staleAppends>>

StoreEpoch(h) ==
    /\ handler[h].pc = "epoch"
    /\ leader_epoch' = handler[h].epoch
    /\ handler' = [handler EXCEPT ![h].pc = "leader"]
    /\ UNCHANGED <<current_leader, staleAppends>>

StoreLeader(h) ==
    /\ handler[h].pc = "leader"
    /\ current_leader' = handler[h].epoch
    /\ handler' = [handler EXCEPT ![h] =
          IF handler[h].kind = "transfer" THEN Idle ELSE [@ EXCEPT !.pc = "append"]]
    /\ UNCHANGED <<leader_epoch, staleAppends>>

\* reserve_leadership answers the transfer Fenced, or with an error: the request fails.
TransferFenced(h) ==
    /\ handler[h].pc = "epoch" /\ handler[h].kind = "transfer"
    /\ handler' = [handler EXCEPT ![h] = Idle]
    /\ UNCHANGED <<leader_epoch, current_leader, staleAppends>>

\* Append the records (a heartbeat has none) and answer with the next offset.
AppendRecords(h) ==
    /\ handler[h].pc = "append"
    /\ handler' = [handler EXCEPT ![h] = Idle]
    /\ staleAppends' = IF handler[h].kind = "replicate" /\ handler[h].epoch < leader_epoch
                       THEN 1 ELSE staleAppends
    /\ UNCHANGED <<leader_epoch, current_leader>>

Next ==
    \E h \in Handlers :
        \/ \E kind \in Kinds, e \in Epochs : Request(h, kind, e)
        \/ CheckEpoch(h) \/ StoreEpoch(h) \/ StoreLeader(h) \/ TransferFenced(h)
        \/ AppendRecords(h)

Spec == Init /\ [][Next]_vars

-------------------------------------------------------------------------------
\* No record of a superseded leader is appended once the follower knows the newer epoch
\* ("Stale leader - reject the request", handle_replicate_data).  One request at a time
\* keeps it; a request that waits between its check and its append does not.
NoStaleAppend == staleAppends = 0

\* The follower's epoch only moves up ("If epoch is higher, update our known epoch and
\* leader", handle_replicate_data): going back lets a superseded leader in again.  Like
\* NoStaleAppend it holds for one request at a time, and not for two.
EpochNeverDecreases == [][leader_epoch' >= leader_epoch]_vars

===============================================================================
