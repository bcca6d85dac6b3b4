----------------------------- MODULE MCComponents -----------------------------
(***************************************************************************)
(* The components that answer requests one at a time, each on its own: the *)
(* group coordinator, the controller's decommissioning slots and metadata, *)
(* its Raft storage, the SDK's producers with the produce handler, its     *)
(* consumer, a shard of the read cache, and the pure algorithms.  They do  *)
(* not call one another, so a behaviour is about one of them, chosen at    *)
(* the start, while the others stay as they begin.                         *)
(***************************************************************************)
EXTENDS GroupCoordinator, DecommissionSlots, ControllerMetadata, RaftStorage, SdkProducer,
        SdkConsumer, LruCacheShard, MCAlgorithms, TLC

VARIABLE subject    \* the component this behaviour is about

\* Thresholds that sizes 1, 2, 3 and 5 lie below, at and above.
SmallConfig == CompactionConfig(4, 5, 3)

\* Members are interchangeable, and so are offsets: the coordinator stores them and never
\* compares them.
Symmetric == Permutations(Members) \cup Permutations(CommitValues)

-------------------------------------------------------------------------------
Init ==
    /\ subject \in {"group", "slots", "metadata", "raft", "producer", "consumer", "cache", "algorithms"}
    /\ GroupInit /\ SlotsInit /\ MetadataInit /\ RaftInit /\ ProducerInit /\ ConsumerInit /\ CacheInit
    /\ AlgorithmsInit

components == <<groupVars, slotVars, metadataVars, raftVars, producerVars, consumerVars, cacheVars,
                algorithmVars>>

Next ==
    /\ UNCHANGED subject
    /\ \/ /\ subject = "group" /\ GroupNext
          /\ UNCHANGED <<slotVars, metadataVars, raftVars, producerVars, consumerVars,
                         cacheVars, algorithmVars>>
       \/ /\ subject = "slots" /\ SlotsNext
          /\ UNCHANGED <<groupVars, metadataVars, raftVars, producerVars, consumerVars,
                         cacheVars, algorithmVars>>
       \/ /\ subject = "metadata" /\ MetadataNext
          /\ UNCHANGED <<groupVars, slotVars, raftVars, producerVars, consumerVars,
                         cacheVars, algorithmVars>>
       \/ /\ subject = "raft" /\ RaftNext
          /\ UNCHANGED <<groupVars, slotVars, metadataVars, producerVars, consumerVars,
                         cacheVars, algorithmVars>>
       \/ /\ subject = "producer" /\ ProducerNext
          /\ UNCHANGED <<groupVars, slotVars, metadataVars, raftVars, consumerVars,
                         cacheVars, algorithmVars>>
       \/ /\ subject = "consumer" /\ ConsumerNext
          /\ UNCHANGED <<groupVars, slotVars, metadataVars, raftVars, producerVars,
                         cacheVars, algorithmVars>>
       \/ /\ subject = "cache" /\ CacheNext
          /\ UNCHANGED <<groupVars, slotVars, metadataVars, raftVars, producerVars,
                         consumerVars, algorithmVars>>
       \/ /\ subject = "algorithms" /\ AlgorithmsNext
          /\ UNCHANGED <<groupVars, slotVars, metadataVars, raftVars, producerVars,
                         consumerVars, cacheVars>>

Spec == Init /\ [][Next]_<<subject, components>>

===============================================================================
