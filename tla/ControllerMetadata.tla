-------------------------- MODULE ControllerMetadata --------------------------
(***************************************************************************)
(* Topics, brokers and partition assignments of the controller             *)
(* (MetadataManager and the leader-only calls of ControllerService,        *)
(* src/src/controller/service.rs).  Each of the three maps has a lock of   *)
(* its own and nothing spans them: create_topic registers the topic, reads *)
(* the brokers, and then assigns one partition after the other, with other *)
(* requests in between.  The metadata does not go through Raft.            *)
(***************************************************************************)
EXTENDS Naturals, FiniteSets, SequencesExt, Functions

CONSTANTS
    Creators,           \* concurrent calls of create_topic
    TopicNames,         \* names of the topics clients ask for
    NodeBrokers,        \* broker ids
    PartitionCounts,    \* partitions asked for
    ReplicationFactors, \* replication factors asked for
    ControllerPeers,    \* raft_state.peers
    MaxRequests         \* bound on creations, deletions and changes of the brokers

ASSUME MetadataConstants == PartitionCounts \subseteq Nat /\ ReplicationFactors \subseteq Nat \ {0}

InternalTopic == "__consumer_offsets"
InternalPartitions == 50

VARIABLES
    topics,         \* [name -> [partitions, replication]]
    nodes,          \* the brokers map's keys
    assignments,    \* [<<topic, partition>> -> replicas, the leader first]
    isLeader,       \* raft_state.is_leader
    electing,       \* a start_election is under way
    scored,         \* broker_load_scores has an entry
    creating,       \* [Creators -> how far the call is]
    confirmed,      \* history: topics whose creation was answered with success
    raced,          \* history: topics deleted while a call was assigning their partitions
    requested       \* history: requests so far

metadataVars == <<topics, nodes, assignments, isLeader, electing, scored, creating, confirmed, raced,
                  requested>>

NotCreating == [pc |-> "idle"]

MetadataInit ==
    /\ topics = <<>> /\ nodes = {} /\ assignments = <<>>
    /\ isLeader = FALSE /\ electing = FALSE /\ scored = FALSE
    /\ creating = [c \in Creators |-> NotCreating]
    /\ confirmed = {} /\ raced = {} /\ requested = 0

Request == requested < MaxRequests /\ requested' = requested + 1

-------------------------------------------------------------------------------
(* start_election.  The only vote counted is the node's own.               *)

BeginElection ==
    /\ ~electing /\ Request
    /\ electing' = TRUE /\ isLeader' = FALSE
    /\ UNCHANGED <<topics, nodes, assignments, scored, creating, confirmed, raced>>

EndElection ==
    /\ electing /\ electing' = FALSE
    /\ isLeader' = (1 >= (Cardinality(ControllerPeers) + 1) \div 2 + 1)
    /\ UNCHANGED <<topics, nodes, assignments, scored, creating, confirmed, raced, requested>>

-------------------------------------------------------------------------------
(* Brokers.                                                                *)

register_broker(b) ==
    /\ isLeader /\ Request
    /\ nodes' = nodes \cup {b}
    /\ UNCHANGED <<topics, assignments, isLeader, electing, scored, creating, confirmed, raced>>

remove_broker(b) ==
    /\ b \in nodes /\ Request
    /\ nodes' = nodes \ {b}
    /\ UNCHANGED <<topics, assignments, isLeader, electing, scored, creating, confirmed, raced>>

\* The first heartbeat of a broker: from now on replicas are chosen by score.
broker_heartbeat ==
    /\ ~scored /\ scored' = TRUE
    /\ \A c \in Creators : creating[c].pc # "assigning" \* the scores' lock
    /\ UNCHANGED <<topics, nodes, assignments, isLeader, electing, creating, confirmed, raced, requested>>

-------------------------------------------------------------------------------
(* create_topic.                                                           *)

\* The name is new: the topic is registered.  A name that exists is refused.
CreateTopic(c, t, n, rf) ==
    /\ creating[c] = NotCreating /\ isLeader /\ Request
    /\ t \notin DOMAIN topics
    /\ topics' = [x \in DOMAIN topics \cup {t} |->
                     IF x = t THEN [partitions |-> n, replication |-> rf] ELSE topics[x]]
    /\ creating' = [creating EXCEPT ![c] = [pc |-> "registered", topic |-> t, left |-> n, rf |-> rf]]
    /\ UNCHANGED <<nodes, assignments, isLeader, electing, scored, confirmed, raced>>

\* The brokers are listed, in any order.  With too few of them the call fails and the
\* topic stays, without assignments.
ListBrokers(c) ==
    /\ creating[c].pc = "registered"
    /\ IF Cardinality(nodes) < creating[c].rf
       THEN creating' = [creating EXCEPT ![c] = NotCreating]
       ELSE \E listed \in SetToSeqs(nodes) :
               creating' = [creating EXCEPT ![c] =
                   [pc |-> "assigning", topic |-> @.topic, next |-> 0, of |-> @.left, rf |-> @.rf,
                    brokers |-> listed, weighted |-> scored]]
    /\ UNCHANGED <<topics, nodes, assignments, isLeader, electing, scored, confirmed, raced, requested>>

\* rf brokers from the start-th on, round the list; by score it is the rf lowest, which
\* may be any rf of them in any order.
Replicas(call) ==
    LET n == Len(call.brokers)
        Round == [i \in 1 .. call.rf |-> call.brokers[((call.next + i - 1) % n) + 1]]
    IN  IF call.weighted
        THEN {r \in [1 .. call.rf -> Range(call.brokers)] : IsInjective(r)}
        ELSE {Round}

\* assign_partition of the next partition; after the last one the call succeeds.
AssignPartition(c) ==
    LET call == creating[c]
        tp == <<call.topic, call.next>>
    IN  /\ call.pc = "assigning"
        /\ IF call.next < call.of
           THEN /\ \E r \in Replicas(call) :
                      assignments' = [x \in DOMAIN assignments \cup {tp} |->
                                         IF x = tp THEN r ELSE assignments[x]]
                /\ creating' = [creating EXCEPT ![c].next = @ + 1]
                /\ UNCHANGED confirmed
           ELSE /\ creating' = [creating EXCEPT ![c] = NotCreating]
                /\ confirmed' = confirmed \cup {call.topic}
                /\ UNCHANGED assignments
        /\ UNCHANGED <<topics, nodes, isLeader, electing, scored, raced, requested>>

Making(t) == \E c \in Creators : creating[c].pc # "idle" /\ creating[c].topic = t

\* Mutant: the assignments of a deleted topic stay.
delete_topic_KeepsAssignments(t) ==
    /\ isLeader /\ Request /\ t \in DOMAIN topics
    /\ topics' = [x \in DOMAIN topics \ {t} |-> topics[x]]
    /\ confirmed' = confirmed \ {t}
    /\ raced' = IF Making(t) THEN raced \cup {t} ELSE raced
    /\ UNCHANGED <<nodes, assignments, isLeader, electing, scored, creating>>

\* The topic goes and, under the same lock, its assignments.
delete_topic(t) ==
    /\ isLeader /\ Request /\ t \in DOMAIN topics
    /\ topics' = [x \in DOMAIN topics \ {t} |-> topics[x]]
    /\ assignments' = [x \in {tp \in DOMAIN assignments : tp[1] # t} |-> assignments[x]]
    /\ confirmed' = confirmed \ {t}
    /\ raced' = IF Making(t) THEN raced \cup {t} ELSE raced
    /\ UNCHANGED <<nodes, isLeader, electing, scored, creating>>

\* The leader's health check registers the internal topic once; it gets no assignments.
ensure_internal_topics ==
    /\ isLeader /\ InternalTopic \notin DOMAIN topics
    /\ topics' = [x \in DOMAIN topics \cup {InternalTopic} |->
                     IF x = InternalTopic THEN [partitions |-> InternalPartitions, replication |-> 3]
                     ELSE topics[x]]
    /\ UNCHANGED <<nodes, assignments, isLeader, electing, scored, creating, confirmed, raced, requested>>

MetadataNext ==
    \/ BeginElection \/ EndElection \/ broker_heartbeat \/ ensure_internal_topics
    \/ \E b \in NodeBrokers : register_broker(b) \/ remove_broker(b)
    \/ \E c \in Creators :
          \/ \E t \in TopicNames, n \in PartitionCounts, rf \in ReplicationFactors : CreateTopic(c, t, n, rf)
          \/ ListBrokers(c) \/ AssignPartition(c)
    \/ \E t \in TopicNames : delete_topic(t)

MetadataSpec == MetadataInit /\ [][MetadataNext]_metadataVars

-------------------------------------------------------------------------------
\* A topic whose creation was answered with success has exactly the partitions it was
\* created with, each on as many different brokers as asked for, though topics are deleted
\* and created again with other counts, brokers come and go and elections interrupt: what
\* an earlier topic of the name left behind is gone (delete_topic, assign_partition).
\* Only a deletion that meets a call still assigning leaves partitions behind (README).
CreatedTopicComplete ==
    \A t \in confirmed \ raced :
        /\ {tp[2] : tp \in {x \in DOMAIN assignments : x[1] = t}} = 0 .. topics[t].partitions - 1
        /\ \A p \in 0 .. topics[t].partitions - 1 :
              LET r == assignments[<<t, p>>]
              IN  DOMAIN r = 1 .. topics[t].replication /\ IsInjective(r)

===============================================================================
