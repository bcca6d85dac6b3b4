---------------------------- MODULE FencedTiering ----------------------------
(***************************************************************************)
(* Brokers that host replicas of one partition tier the same offset range  *)
(* to the same object key, each fenced by the epoch reservation: may_tier  *)
(* before the upload and again before the commit, as in tier_segment       *)
(* (src/src/storage/partition_store.rs).  PartitionStore models one broker *)
(* in full and leadership as a flag; this module models the leadership of  *)
(* several brokers in full and of their tiering only what the fence guards.*)
(*                                                                         *)
(* A broker uploads its own copy of the range.  Copies may differ: a       *)
(* produce with acks=leader is acknowledged from the leader's log alone.   *)
(***************************************************************************)
EXTENDS ReservationService

VARIABLES
    tier,       \* [Nodes -> progress of tier_segment for the partition's group]
    body,       \* whose copy the object at the range's key holds, or Absent
    committed,  \* history: claims under which a range was registered
    late        \* history: [Claim -> uploads made after the claim was superseded]

tieringVars == <<tier, body, committed, late>>
fencedVars == <<reservationVars, tieringVars>>

IdleTask == [pc |-> "idle", epoch |-> Absent]
ActiveTask == [pc : {"precheck", "upload", "uploaded", "postcheck", "commit"}, epoch : Epochs]

FencedInit ==
    /\ Init
    /\ tier = [n \in Nodes |-> IdleTask]
    /\ body = Absent
    /\ committed = {}
    /\ late = [p \in Claim |-> 0]

TierClaim(n) == [node_id |-> n, epoch |-> tier[n].epoch]
\* may_tier takes the epoch from LeadershipState, then awaits verify; no epoch means
\* this node does not lead.
ReadEpoch(n, from, to) ==
    /\ tier[n].pc = from
    /\ tier' = [tier EXCEPT ![n] =
          IF leadership[n] = Absent THEN IdleTask ELSE [pc |-> to, epoch |-> leadership[n]]]
    /\ UNCHANGED <<reservationVars, body, committed, late>>
\* Mutant: the answer of verify is ignored.
Verify_Ignored(n, from, to) ==
    /\ tier[n].pc = from
    /\ tier' = [tier EXCEPT ![n].pc = to]
    /\ UNCHANGED <<reservationVars, body, committed, late>>

\* verify: on, or fenced and this cycle is over for the partition.  An error of the
\* read ends the cycle in the same way.
Verify(n, from, to) ==
    /\ tier[n].pc = from
    /\ \/ verify(n, tier[n].epoch) /\ tier' = [tier EXCEPT ![n].pc = to]
       \/ (StorageErrors \/ ~verify(n, tier[n].epoch)) /\ tier' = [tier EXCEPT ![n] = IdleTask]
    /\ UNCHANGED <<reservationVars, body, committed, late>>

Upload(n) ==
    /\ tier[n].pc = "upload"
    /\ body' = n
    /\ late' = IF verify(n, tier[n].epoch) THEN late
               ELSE [late EXCEPT ![TierClaim(n)] = @ + 1]
    /\ tier' = [tier EXCEPT ![n].pc = "uploaded"]
    /\ UNCHANGED <<reservationVars, committed>>

\* cold_index.register and flip_to_cold on this broker; its WAL copy is reclaimed next.
Commit(n) ==
    /\ tier[n].pc = "commit"
    /\ committed' = committed \cup {TierClaim(n)}
    /\ tier' = [tier EXCEPT ![n] = IdleTask]
    /\ UNCHANGED <<reservationVars, body, late>>

TierSegment(n) ==
    \/ ReadEpoch(n, "idle", "precheck") \/ Verify(n, "precheck", "upload")
    \/ Upload(n)
    \/ ReadEpoch(n, "uploaded", "postcheck") \/ Verify(n, "postcheck", "commit")
    \/ Commit(n)

FencedRestart(n) ==
    /\ Restart(n)
    /\ tier' = [tier EXCEPT ![n] = IdleTask]
    /\ UNCHANGED <<body, committed, late>>

FencedNext ==
    \/ Reserve /\ UNCHANGED tieringVars
    \/ \E n \in Nodes : TierSegment(n) \/ FencedRestart(n)

FencedSpec == FencedInit /\ [][FencedNext]_fencedVars

\* A call of acquire keeps running: storage answers, or fails.
FencedFairSpec ==
    FencedSpec /\ \A c \in Calls : WF_fencedVars(CallStep(c) /\ UNCHANGED tieringVars)

-------------------------------------------------------------------------------
\* Shape of the state: a task past its first step always carries an epoch (may_tier).
FencedTypeOK ==
    /\ TypeOK
    /\ tier \in [Nodes -> {IdleTask} \cup ActiveTask]
    /\ body \in Nodes \cup {Absent}
    /\ committed \subseteq Claim
    /\ late \in [Claim -> Nat]

\* The fence bounds the damage of a stale leader: whatever takeovers, errors and restarts
\* happen around its checks, under one claim it uploads at most one object after it has
\* been superseded (the upload already past may_tier).
OneLateUpload == \A p \in Claim : late[p] <= 1

\* The object of the leader that has committed the range and still holds the partition is
\* its own copy ("This prevents a stale leader ... from clobbering the real leader's cold
\* data", reservation.rs): nothing else holds the data once the WAL is reclaimed.
LeaderDataKept ==
    \A p \in committed : verify(p.node_id, p.epoch) => body = p.node_id

===============================================================================
