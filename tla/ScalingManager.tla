---------------------------- MODULE ScalingManager ----------------------------
(***************************************************************************)
(* Adding and removing brokers (ScalingManagerImpl with a controller,      *)
(* src/src/scaling/manager.rs) on top of the decommissioning slots.  A     *)
(* removal takes a slot, is recorded, and then runs as a task of its own   *)
(* that drains the broker, rebalances, removes it and releases the slot;   *)
(* the operation carries the id of its slot.  An addition is validated at  *)
(* once and carried out by another task.  The limit stands here; changes   *)
(* of it are checked with DecommissionSlots alone.                         *)
(***************************************************************************)
EXTENDS DecommissionSlots

CONSTANTS
    InitialBrokers,  \* brokers of the cluster at the start
    MaxAdditions     \* bound on additions

VARIABLES
    cluster,    \* [broker -> BrokerStatus], the brokers map
    found,      \* [SlotCallers -> the broker remove_broker found, or none]
    removal,    \* [SlotOps -> stage of the removal, "none" before it has its slot]
    target,     \* [SlotOps -> its broker]
    adding,     \* [SlotBrokers -> additions validated and not yet carried out]
    additions   \* history: additions so far

scalingVars == <<slotVars, cluster, found, removal, target, adding, additions>>
removalVars == <<found, removal, target>>
additionVars == <<adding, additions>>

NoBroker == "no broker"

ScalingInit ==
    /\ SlotsInit
    /\ cluster = [b \in InitialBrokers |-> "Healthy"]
    /\ found = [c \in SlotCallers |-> NoBroker]
    /\ removal = [op \in SlotOps |-> "none"] /\ target = [op \in SlotOps |-> NoBroker]
    /\ adding = [b \in SlotBrokers |-> 0] /\ additions = 0

Exists(b) == b \in DOMAIN cluster

-------------------------------------------------------------------------------
(* remove_broker, up to the start of the task.                             *)

FindBroker(c, b) ==
    /\ found[c] = NoBroker /\ acquiring[c] = Idle /\ issued < MaxSlotOps
    /\ Exists(b)
    /\ found' = [found EXCEPT ![c] = b]
    /\ UNCHANGED <<slotVars, cluster, removal, target, additionVars>>

\* acquire_decommission_slot; any error of it ends the request.
AcquireSlot(c) ==
    /\ found[c] # NoBroker
    /\ \/ CheckBroker(c, found[c]) /\ UNCHANGED <<found, removal, target>>
       \/ /\ acquiring[c] = Idle /\ found[c] \in {active[op] : op \in ActiveOps}
          /\ found' = [found EXCEPT ![c] = NoBroker]
          /\ UNCHANGED <<slotVars, removal, target>>
       \/ /\ TakePermit(c)
          /\ found' = [found EXCEPT ![c] = IF acquiring'[c] = Idle THEN NoBroker ELSE @]
          /\ UNCHANGED <<removal, target>>
       \/ /\ CancelAcquire(c)
          /\ found' = [found EXCEPT ![c] = NoBroker]
          /\ UNCHANGED <<removal, target>>
       \/ /\ EnterSlot(c)
          /\ removal' = [removal EXCEPT ![issued'] = "granted"]
          /\ target' = [target EXCEPT ![issued'] = found[c]]
          /\ found' = [found EXCEPT ![c] = NoBroker]
    /\ UNCHANGED <<cluster, additionVars>>

Move(op, from, to) == removal[op] = from /\ removal' = [removal EXCEPT ![op] = to]

\* The request records the operation and starts the task, unless its caller has gone
\* while it waited for a lock: then nobody releases the slot and it is left to expire.
StartRemoval(op) ==
    /\ Move(op, "granted", "NotStarted") \/ Move(op, "granted", "abandoned")
    /\ UNCHANGED <<slotVars, cluster, found, target, additionVars>>

-------------------------------------------------------------------------------
(* The task: execute_remove_broker_operation and do_remove_broker.         *)

\* Draining, or the operation fails because the broker is not there any more.
DrainBroker(op) ==
    /\ \/ /\ Exists(target[op])
          /\ Move(op, "NotStarted", "draining")
          /\ cluster' = [cluster EXCEPT ![target[op]] = "Draining"]
       \/ /\ ~Exists(target[op])
          /\ Move(op, "NotStarted", "failing")
          /\ UNCHANGED cluster
    /\ UNCHANGED <<slotVars, found, target, additionVars>>

\* The plan is computed and executed, then the broker goes.  If the rebalancer returns an
\* error the operation ends there, with the broker as it is: Draining.
RemoveBroker(op) ==
    /\ \/ /\ Move(op, "draining", "removed")
          /\ cluster' = [b \in DOMAIN cluster \ {target[op]} |-> cluster[b]]
       \/ /\ Move(op, "draining", "failing")
          /\ UNCHANGED cluster
    /\ UNCHANGED <<slotVars, found, target, additionVars>>

\* Mutant: the slot is released when the draining starts.
ReleaseSlot_Early(op) ==
    /\ \/ removal[op] \in {"draining", "removed", "failing"} /\ RemoveSlot(op)
       \/ ReturnPermit(op)
    /\ UNCHANGED <<cluster, removalVars, additionVars>>

\* release_decommission_slot, whatever the outcome; a slot that has expired is NotFound,
\* which is logged.
ReleaseSlot(op) ==
    /\ \/ removal[op] \in {"removed", "failing"} /\ RemoveSlot(op) /\ UNCHANGED removal
       \/ ReturnPermit(op) /\ UNCHANGED removal
       \/ /\ op \notin ActiveOps \cup unreturned
          /\ Move(op, "removed", "Completed") \/ Move(op, "failing", "Failed")
          /\ UNCHANGED slotVars
    /\ UNCHANGED <<cluster, found, target, additionVars>>

-------------------------------------------------------------------------------
(* add_brokers, one broker of the request at a time.                       *)

ValidateAddition(b) ==
    /\ ~Exists(b) /\ additions < MaxAdditions
    /\ additions' = additions + 1
    /\ adding' = [adding EXCEPT ![b] = @ + 1]
    /\ UNCHANGED <<slotVars, cluster, removalVars>>

\* do_add_brokers inserts the broker as healthy, whatever is there by now.
InsertBroker(b) ==
    /\ adding[b] > 0
    /\ adding' = [adding EXCEPT ![b] = @ - 1]
    /\ cluster' = [x \in DOMAIN cluster \cup {b} |-> IF x = b THEN "Healthy" ELSE cluster[x]]
    /\ UNCHANGED <<slotVars, removalVars, additions>>

SlotTime ==
    /\ (\E op \in SlotOps : ExpireSlot(op)) \/ Sweeping
    /\ UNCHANGED <<cluster, removalVars, additionVars>>

RemovalStep(op) == DrainBroker(op) \/ RemoveBroker(op) \/ ReleaseSlot(op)

ScalingNext ==
    \/ \E c \in SlotCallers : (\E b \in SlotBrokers : FindBroker(c, b)) \/ AcquireSlot(c)
    \/ \E op \in SlotOps : StartRemoval(op) \/ RemovalStep(op)
    \/ \E b \in SlotBrokers : ValidateAddition(b) \/ InsertBroker(b)
    \/ SlotTime

\* Tasks run to their end, the cleanup task wakes up every minute, hours pass, and a
\* request in the controller is carried on or dropped.
ScalingFairness ==
    /\ \A op \in SlotOps :
          /\ WF_scalingVars(StartRemoval(op)) /\ WF_scalingVars(RemovalStep(op))
          /\ WF_scalingVars(ExpireSlot(op) /\ UNCHANGED <<cluster, removalVars, additionVars>>)
    /\ WF_scalingVars(Sweeping /\ UNCHANGED <<cluster, removalVars, additionVars>>)
    /\ \A c \in SlotCallers : WF_scalingVars(AcquireSlot(c))

ScalingSpec == ScalingInit /\ [][ScalingNext]_scalingVars /\ ScalingFairness

-------------------------------------------------------------------------------
AtWork == {op \in SlotOps : removal[op] = "draining"}

\* No more brokers are drained at the same time than the limit allows,
\* whatever requests, failures and additions overlap, as long as no removal outlives the
\* hour of its slot ("to prevent mass decommissions", service.rs): a removal holds its
\* slot until its broker is gone.
DecommissionsLimited == Cardinality(AtWork \ expired) <= limit

\* A removal that has a slot comes to an end and gives the slot back, by its task, whatever
\* step fails and with the broker gone or not, or by the cleanup task if nobody is left to
\* release it (execute_remove_broker_operation, start_cleanup_task).
RemovalEnds ==
    \A op \in SlotOps : removal[op] = "granted" ~>
        /\ op \notin ActiveOps \cup unreturned
        /\ removal[op] \in {"Completed", "Failed", "abandoned"}

===============================================================================
