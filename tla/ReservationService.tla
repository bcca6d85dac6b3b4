-------------------------- MODULE ReservationService --------------------------
(***************************************************************************)
(* The epoch reservation of one partition                                  *)
(* (src/src/storage/reservation.rs) and the gRPC leadership handlers that  *)
(* use it (reserve_leadership in src/src/network/grpc_server.rs).  Brokers *)
(* call acquire concurrently; each call is a loop of a versioned read and  *)
(* a conditional write of one small object in shared storage, and the      *)
(* other brokers interleave between the two.                               *)
(*                                                                         *)
(* The version a conditional write compares is the object's ETag.  It is   *)
(* modelled as the content itself, which is what LocalObjectStorage hashes *)
(* to make one, so that no A-B-A of contents is ruled out by assumption.   *)
(***************************************************************************)
EXTENDS Naturals

CONSTANTS
    Nodes,          \* brokers
    Calls,          \* acquire calls that can be in progress at once
    Epochs,         \* leader epochs the controller hands out
    Absent,         \* the reservation object does not exist
    MAX_CAS_RETRIES,
    StorageErrors   \* may storage answer a request with an error?

Reservation == [node_id : Nodes, epoch : Epochs, failover : Nat]
Claim == [node_id : Nodes, epoch : Epochs]

ASSUME ReservationConstants ==
    /\ Epochs \subseteq Nat
    /\ Absent \notin Reservation /\ Absent \notin Epochs
    /\ MAX_CAS_RETRIES \in Nat
    /\ StorageErrors \in BOOLEAN

VARIABLES
    object,      \* the reservation object, or Absent
    call,        \* [Calls -> progress of one acquire]
    leadership,  \* [Nodes -> the epoch LeadershipState holds for the partition, or Absent]
    owned,       \* history: claims for which some acquire answered Owned
    refused      \* history: claims whose acquire answered Fenced without cause

reservationVars == <<object, call, leadership, owned, refused>>

IdleCall ==
    [pc |-> "idle", node_id |-> Absent, epoch |-> Absent, tries |-> 0, seen |-> Absent]
ActiveCall ==
    [pc : {"get", "put", "set"}, node_id : Nodes, epoch : Epochs,
     tries : 0 .. MAX_CAS_RETRIES, seen : Reservation \cup {Absent}]

Init ==
    /\ object = Absent
    /\ call = [c \in Calls |-> IdleCall]
    /\ leadership = [n \in Nodes |-> Absent]
    /\ owned = {}
    /\ refused = {}

MyClaim(c) == [node_id |-> call[c].node_id, epoch |-> call[c].epoch]
Return(c) == call' = [call EXCEPT ![c] = IdleCall]
\* Mutants: an equal epoch of another node is not seen; a higher epoch is not seen.
Outranked_OnlyHigher(c) == object # Absent /\ object.epoch > call[c].epoch
Outranked_OnlyEqual(c) ==
    object # Absent /\ object.epoch = call[c].epoch /\ object.node_id # call[c].node_id

\* A newer leader holds the reservation, or another node holds this very epoch.
Outranked(c) ==
    /\ object # Absent
    /\ \/ object.epoch > call[c].epoch
       \/ object.epoch = call[c].epoch /\ object.node_id # call[c].node_id

\* assign_partition (the controller's epoch) or transfer_leadership (the handler's
\* epoch plus one) names this node the leader: it asks for the reservation.
Acquire(c, n, e) ==
    /\ call[c].pc = "idle"
    /\ call' = [call EXCEPT ![c] =
          [pc |-> "get", node_id |-> n, epoch |-> e, tries |-> MAX_CAS_RETRIES, seen |-> Absent]]
    /\ UNCHANGED <<object, leadership, owned, refused>>

\* The loop's read: fenced, already ours, or a conditional write is due.
Get(c) ==
    /\ call[c].pc = "get" /\ call[c].tries > 0
    /\ \/ /\ Outranked(c)
          /\ Return(c)
          /\ UNCHANGED owned
       \/ /\ ~Outranked(c) /\ object # Absent /\ object.epoch = call[c].epoch
          /\ call' = [call EXCEPT ![c].pc = "set"]
          /\ owned' = owned \cup {MyClaim(c)}
       \/ /\ ~Outranked(c) /\ (object # Absent => object.epoch # call[c].epoch)
          /\ call' = [call EXCEPT ![c].pc = "put", ![c].seen = object]
          /\ UNCHANGED owned
    /\ UNCHANGED <<object, leadership, refused>>

\* What the call writes over the content it has seen.
Successor(c) ==
    [node_id |-> call[c].node_id, epoch |-> call[c].epoch,
     failover |-> IF call[c].seen = Absent THEN 0 ELSE call[c].seen.failover + 1]
\* Mutant: the write is unconditional.
PreconditionHolds_Always(c) == TRUE

\* Precondition::Create, or Match of the version that was read.
PreconditionHolds(c) == object = call[c].seen
\* Mutant: a lost write is waited for and the attempt not counted.
PutIf_RetriesForever(c) ==
    /\ call[c].pc = "put" /\ PreconditionHolds(c)
    /\ object' = Successor(c)
    /\ call' = [call EXCEPT ![c].pc = "set"]
    /\ owned' = owned \cup {MyClaim(c)}
    /\ UNCHANGED <<leadership, refused>>

\* put_if: Written, or PreconditionFailed and another round.
PutIf(c) ==
    /\ call[c].pc = "put"
    /\ \/ /\ PreconditionHolds(c)
          /\ object' = Successor(c)
          /\ call' = [call EXCEPT ![c].pc = "set"]
          /\ owned' = owned \cup {MyClaim(c)}
       \/ /\ ~PreconditionHolds(c)
          /\ call' = [call EXCEPT ![c].pc = "get", ![c].tries = @ - 1]
          /\ UNCHANGED <<object, owned>>
    /\ UNCHANGED <<leadership, refused>>

\* The retries are used up: Fenced, whatever the last read shows.
GiveUp(c) ==
    /\ call[c].pc = "get" /\ call[c].tries = 0
    /\ Return(c)
    /\ refused' = IF Outranked(c) THEN refused ELSE refused \cup {MyClaim(c)}
    /\ UNCHANGED <<object, leadership, owned>>

\* Storage answers the read or the write with an error; a write may have been applied.
StorageError(c) ==
    /\ StorageErrors /\ call[c].pc \in {"get", "put"}
    /\ \/ UNCHANGED object
       \/ call[c].pc = "put" /\ PreconditionHolds(c) /\ object' = Successor(c)
    /\ Return(c)
    /\ UNCHANGED <<leadership, owned, refused>>

\* Owned: leadership.set(tp, epoch, true), after the await.
SetLeadership(c) ==
    /\ call[c].pc = "set"
    /\ leadership' = [leadership EXCEPT ![call[c].node_id] = call[c].epoch]
    /\ Return(c)
    /\ UNCHANGED <<object, owned, refused>>

\* A broker restarts: its leadership table and its calls are gone, the object is not.
Restart(n) ==
    /\ leadership' = [leadership EXCEPT ![n] = Absent]
    /\ call' = [c \in Calls |->
          IF call[c].node_id = n THEN IdleCall ELSE call[c]]
    /\ UNCHANGED <<object, owned, refused>>

CallStep(c) == Get(c) \/ PutIf(c) \/ GiveUp(c) \/ SetLeadership(c)

Reserve ==
    \E c \in Calls :
        \/ \E n \in Nodes, e \in Epochs : Acquire(c, n, e)
        \/ CallStep(c) \/ StorageError(c)

Next == Reserve \/ \E n \in Nodes : Restart(n)

Spec == Init /\ [][Next]_reservationVars

\* A call keeps running: storage answers, or fails.
FairSpec == Spec /\ \A c \in Calls : WF_reservationVars(CallStep(c))

-------------------------------------------------------------------------------
(* verify(tp, node, epoch): this node still holds the reservation.         *)
verify(n, e) == object # Absent /\ object.node_id = n /\ object.epoch = e

\* Shape of the state; a conditional write is only due while attempts remain (acquire).
TypeOK ==
    /\ object \in Reservation \cup {Absent}
    /\ call \in [Calls -> {IdleCall} \cup ActiveCall]
    /\ \A c \in Calls : call[c].pc = "put" => call[c].tries > 0
    /\ leadership \in [Nodes -> Epochs \cup {Absent}]
    /\ owned \subseteq Claim
    /\ refused \subseteq Claim

\* No two brokers are ever told they own the same epoch, however their reads and
\* conditional writes interleave, fail or are retried (acquire).
OneOwnerPerEpoch ==
    \A p, q \in owned : p.epoch = q.epoch => p.node_id = q.node_id

\* Of all claims ever granted, the fence check accepts none that a later grant
\* supersedes: a broker that verify still lets through holds the newest epoch
\* ("a takeover that happened after acquire is detected").
VerifiedIsNewest ==
    \A n \in Nodes, e \in Epochs : verify(n, e) =>
        \A p \in owned : p.epoch <= e /\ (p.epoch = e => p.node_id = n)

\* The reservation only moves to a higher epoch, counts each takeover, and is never
\* deleted: a delayed conditional write of an old leader cannot roll it back.
EpochAdvances ==
    [][object # Absent /\ object' # object =>
          /\ object' # Absent
          /\ object'.epoch > object.epoch
          /\ object'.failover = object.failover + 1]_reservationVars

\* Fenced means what its documentation says: "A newer leader (higher epoch, or equal
\* epoch held by another node) owns it" (AcquireOutcome::Fenced).
FencedHasCause == refused = {}

\* A broker that holds the reservation and has no call in progress knows the epoch it
\* holds, as long as no error or restart loses an answer ("record the epoch at which this
\* node leads each partition", LeadershipState): otherwise its own fence stops it.
HolderKnowsEpoch ==
    \A n \in Nodes :
        /\ \A c \in Calls : call[c].node_id # n
        /\ object # Absent /\ object.node_id = n
        /\ leadership[n] # Absent
        => leadership[n] = object.epoch

\* Every call of acquire comes back: CAS races cannot keep it busy for ever.
AcquireReturns == \A c \in Calls : call[c].pc \in {"get", "put"} ~> call[c].pc \in {"set", "idle"}

===============================================================================
