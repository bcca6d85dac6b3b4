-------------------------------- MODULE MCTasks --------------------------------
(***************************************************************************)
(* The components whose background tasks and threads have to make progress,*)
(* each on its own: the scaling manager, producers and a consumer of the   *)
(* SDK, and a shard of the read cache.  They do not call one another, so a *)
(* behaviour is about one of them, chosen at the start, while the others   *)
(* stay as they begin, with none of their fair actions enabled.            *)
(***************************************************************************)
EXTENDS ScalingManager, SdkProducer, SdkConsumer, LruCacheShard

VARIABLE subject    \* the component this behaviour is about

Init ==
    /\ subject \in {"scaling", "producer", "consumer", "cache"}
    /\ ScalingInit /\ ProducerInit /\ ConsumerInit /\ CacheInit

Next ==
    /\ UNCHANGED subject
    /\ \/ subject = "scaling" /\ ScalingNext /\ UNCHANGED <<producerVars, consumerVars, cacheVars>>
       \/ subject = "producer" /\ ProducerNext /\ UNCHANGED <<scalingVars, consumerVars, cacheVars>>
       \/ subject = "consumer" /\ ConsumerNext /\ UNCHANGED <<scalingVars, producerVars, cacheVars>>
       \/ subject = "cache" /\ CacheNext /\ UNCHANGED <<scalingVars, producerVars, consumerVars>>

Spec ==
    /\ Init /\ [][Next]_<<subject, scalingVars, producerVars, consumerVars, cacheVars>>
    /\ ScalingFairness /\ ProducerFairness /\ ConsumerFairness /\ CacheFairness

===============================================================================
