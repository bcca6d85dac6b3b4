-------------------------- MODULE DecommissionSlots --------------------------
(***************************************************************************)
(* The decommissioning slots of the controller (DecommissionSlotManager    *)
(* and update_scaling_config, src/src/controller/service.rs): a semaphore  *)
(* of permits, a map of active operations guarded by its own lock, a       *)
(* cleanup task, and a limit that can be changed at run time.  Nothing     *)
(* holds both the map and the semaphore, so every access to one of them is *)
(* a step of its own; nothing keeps two changes of the limit apart either. *)
(***************************************************************************)
EXTENDS Integers, FiniteSets

CONSTANTS
    SlotCallers,    \* concurrent calls of acquire_slot
    SlotBrokers,    \* broker ids
    Resizers,       \* concurrent calls of update_scaling_config
    InitialLimit,   \* max_concurrent_decommissions at the start
    NewLimits,      \* limits update_scaling_config is called with
    LargestLimit,   \* 10 in the code
    MaxSlotOps,     \* bound on operations
    MaxResizes      \* bound on changes of the limit

ASSUME SlotConstants ==
    /\ InitialLimit \in Nat \ {0} /\ LargestLimit \in Nat /\ NewLimits \subseteq Nat
    /\ MaxSlotOps \in Nat /\ MaxResizes \in Nat
    /\ IsFiniteSet(SlotCallers)

SlotOps == 1 .. MaxSlotOps  \* operation ids are fresh: the n-th one handed out is n

VARIABLES
    permits,      \* available_permits of the semaphore
    active,       \* active_decommissions: [operation -> broker]
    acquiring,    \* [SlotCallers -> how far the call is, and for which broker]
    unreturned,   \* operations release_slot has removed and not yet given a permit for
    expired,      \* operations older than an hour
    sweep,        \* expired_slots the cleanup task is working through
    resize,       \* [Resizers -> how far the call of update_scaling_config is]
    limit,        \* scaling_config.max_concurrent_decommissions
    issued,       \* history: operations handed out
    capacity,     \* history: permits that exist, whoever holds them
    resizes,      \* history: limit changes started
    overlapped    \* history: a change of the limit met another one or a slot on its way

slotVars == <<permits, active, acquiring, unreturned, expired, sweep, resize, limit, issued,
              capacity, resizes, overlapped>>

Calling(pc, b) == [pc |-> pc, broker |-> b]
Idle == [pc |-> "idle"]
NoResize == [pc |-> "idle"]
NoSlots == [op \in {} |-> {}]

SlotsInit ==
    /\ permits = InitialLimit /\ limit = InitialLimit /\ capacity = InitialLimit
    /\ active = NoSlots /\ unreturned = {} /\ expired = {} /\ sweep = {}
    /\ acquiring = [c \in SlotCallers |-> Idle]
    /\ resize = [r \in Resizers |-> NoResize]
    /\ issued = 0 /\ resizes = 0 /\ overlapped = FALSE

ActiveOps == DOMAIN active
Holding == {c \in SlotCallers : acquiring[c].pc = "permitted"}
InFlight == unreturned # {} \/ \E c \in SlotCallers : acquiring[c].pc # "idle"
Resizing == \E r \in Resizers : resize[r] # NoResize
\* A slot moves while the limit is being changed.
Notice == overlapped' = (overlapped \/ Resizing)

-------------------------------------------------------------------------------
(* acquire_slot: look the broker up, take a permit, enter the operation.   *)

\* The lookup under the read lock; a broker that has a slot is refused.
CheckBroker(c, b) ==
    /\ acquiring[c] = Idle
    /\ b \notin {active[op] : op \in ActiveOps}
    /\ acquiring' = [acquiring EXCEPT ![c] = Calling("checked", b)]
    /\ Notice
    /\ UNCHANGED <<permits, active, unreturned, expired, sweep, resize, limit, issued, capacity, resizes>>

\* try_acquire; without a permit the call fails with ResourceExhausted.
TakePermit(c) ==
    /\ acquiring[c].pc = "checked"
    /\ \/ /\ permits > 0
          /\ permits' = permits - 1
          /\ acquiring' = [acquiring EXCEPT ![c].pc = "permitted"]
       \/ /\ permits = 0
          /\ acquiring' = [acquiring EXCEPT ![c] = Idle]
          /\ UNCHANGED permits
    /\ Notice
    /\ UNCHANGED <<active, unreturned, expired, sweep, resize, limit, issued, capacity, resizes>>

\* The operation is entered under the write lock; then the permit is forgotten.
EnterSlot(c) ==
    /\ acquiring[c].pc = "permitted" /\ issued < MaxSlotOps
    /\ issued' = issued + 1
    /\ active' = [op \in ActiveOps \cup {issued + 1} |->
                    IF op = issued + 1 THEN acquiring[c].broker ELSE active[op]]
    /\ acquiring' = [acquiring EXCEPT ![c] = Idle]
    /\ Notice
    /\ UNCHANGED <<permits, unreturned, expired, sweep, resize, limit, capacity, resizes>>

\* The caller gives up while the call waits for the write lock: dropping the permit
\* returns it.
CancelAcquire(c) ==
    /\ acquiring[c].pc = "permitted"
    /\ permits' = permits + 1
    /\ acquiring' = [acquiring EXCEPT ![c] = Idle]
    /\ Notice
    /\ UNCHANGED <<active, unreturned, expired, sweep, resize, limit, issued, capacity, resizes>>

-------------------------------------------------------------------------------
(* release_slot and the cleanup task.                                      *)

Without(ops) == [op \in ActiveOps \ ops |-> active[op]]

\* An operation that is not there any more is NotFound and changes nothing.
RemoveSlot(op) ==
    /\ op \in ActiveOps
    /\ active' = Without({op})
    /\ unreturned' = unreturned \cup {op}
    /\ Notice
    /\ UNCHANGED <<permits, acquiring, expired, sweep, resize, limit, issued, capacity, resizes>>

ReturnPermit(op) ==
    /\ op \in unreturned
    /\ unreturned' = unreturned \ {op}
    /\ permits' = permits + 1
    /\ Notice
    /\ UNCHANGED <<active, acquiring, expired, sweep, resize, limit, issued, capacity, resizes>>

\* An hour has passed.
ExpireSlot(op) ==
    /\ op \in ActiveOps \ expired
    /\ expired' = expired \cup {op}
    /\ UNCHANGED <<permits, active, acquiring, unreturned, sweep, resize, limit, issued, capacity,
                   resizes, overlapped>>

\* The cleanup task lists the expired operations under the read lock ...
FindExpired ==
    /\ sweep = {} /\ sweep' = ActiveOps \cap expired /\ sweep' # {}
    /\ UNCHANGED <<permits, active, acquiring, unreturned, expired, resize, limit, issued, capacity,
                   resizes, overlapped>>

\* Mutant: the operations are looked up under another id, so none is found.
SweepExpired_FindsNone ==
    /\ sweep # {} /\ sweep' = {}
    /\ Notice
    /\ UNCHANGED <<permits, active, acquiring, unreturned, expired, resize, limit, issued, capacity, resizes>>

\* ... and under the write lock removes those that are still there, with their permits.
SweepExpired ==
    LET gone == sweep \cap ActiveOps
    IN  /\ sweep # {} /\ sweep' = {}
        /\ active' = Without(gone)
        /\ permits' = permits + Cardinality(gone)
        /\ Notice
        /\ UNCHANGED <<acquiring, unreturned, expired, resize, limit, issued, capacity, resizes>>

-------------------------------------------------------------------------------
(* update_scaling_config and update_max_concurrent.                        *)

\* The active operations are counted under the read lock; a limit that is zero, above
\* LargestLimit or below the count is refused.
StartResize(r, n) ==
    /\ resize[r] = NoResize
    /\ n # 0 /\ n <= LargestLimit
    /\ Cardinality(ActiveOps) <= n
    /\ resizes < MaxResizes /\ resizes' = resizes + 1
    /\ resize' = [resize EXCEPT ![r] = [pc |-> "counted", to |-> n, active |-> Cardinality(ActiveOps)]]
    /\ overlapped' = (overlapped \/ InFlight \/ Resizing)
    /\ UNCHANGED <<permits, active, acquiring, unreturned, expired, sweep, limit, issued, capacity>>

\* Mutant: the new limit is added to the permits that are there.
MeasureResize_IgnoresActive(r) ==
    /\ resize[r].pc = "counted"
    /\ resize' = [resize EXCEPT ![r] = [pc |-> "adjusting", to |-> @.to, delta |-> @.to - permits]]
    /\ UNCHANGED <<permits, active, acquiring, unreturned, expired, sweep, limit, issued, capacity,
                   resizes, overlapped>>

\* current_max is what is available now plus what was active then.
MeasureResize(r) ==
    /\ resize[r].pc = "counted"
    /\ resize' = [resize EXCEPT ![r] =
                    [pc |-> "adjusting", to |-> @.to, delta |-> @.to - (permits + @.active)]]
    /\ UNCHANGED <<permits, active, acquiring, unreturned, expired, sweep, limit, issued, capacity,
                   resizes, overlapped>>

\* Growing adds the permits at once; shrinking takes and forgets them one at a time, and
\* the call fails at the first one that somebody else holds.
AdjustPermits(r) ==
    /\ resize[r].pc = "adjusting"
    /\ \/ /\ resize[r].delta >= 0
          /\ permits' = permits + resize[r].delta /\ capacity' = capacity + resize[r].delta
          /\ resize' = [resize EXCEPT ![r] = [pc |-> "storing", to |-> @.to]]
       \/ /\ resize[r].delta < 0 /\ permits > 0
          /\ permits' = permits - 1 /\ capacity' = capacity - 1
          /\ resize' = [resize EXCEPT ![r] = IF @.delta = -1 THEN [pc |-> "storing", to |-> @.to]
                                             ELSE [pc |-> "adjusting", to |-> @.to, delta |-> @.delta + 1]]
       \/ /\ resize[r].delta < 0 /\ permits = 0
          /\ resize' = [resize EXCEPT ![r] = NoResize]
          /\ UNCHANGED <<permits, capacity>>
    /\ UNCHANGED <<active, acquiring, unreturned, expired, sweep, limit, issued, resizes, overlapped>>

\* The new configuration is stored under its own lock.
StoreLimit(r) ==
    /\ resize[r].pc = "storing"
    /\ limit' = resize[r].to
    /\ resize' = [resize EXCEPT ![r] = NoResize]
    /\ UNCHANGED <<permits, active, acquiring, unreturned, expired, sweep, issued, capacity, resizes,
                   overlapped>>

UpdateScalingConfig(r) ==
    (\E n \in NewLimits : StartResize(r, n)) \/ MeasureResize(r) \/ AdjustPermits(r) \/ StoreLimit(r)
Sweeping == FindExpired \/ SweepExpired

\* Callers that hold an operation release it once, at any time.
SlotsNext ==
    \/ \E c \in SlotCallers :
          \/ \E b \in SlotBrokers : CheckBroker(c, b)
          \/ TakePermit(c) \/ EnterSlot(c) \/ CancelAcquire(c)
    \/ \E op \in SlotOps : RemoveSlot(op) \/ ReturnPermit(op) \/ ExpireSlot(op)
    \/ Sweeping
    \/ \E r \in Resizers : UpdateScalingConfig(r)

SlotsSpec == SlotsInit /\ [][SlotsNext]_slotVars

-------------------------------------------------------------------------------
Counted == [pc : {"counted"}, to : Nat, active : Nat]
Adjusting == [pc : {"adjusting"}, to : Nat, delta : Int]
Storing == [pc : {"storing"}, to : Nat]

\* Shape of the state of the slot manager.
SlotsTypeOK ==
    /\ permits \in Nat /\ capacity \in Int /\ limit \in Nat
    /\ ActiveOps \subseteq SlotOps /\ active \in [ActiveOps -> SlotBrokers]
    /\ acquiring \in [SlotCallers -> {Idle} \cup [pc : {"checked", "permitted"}, broker : SlotBrokers]]
    /\ unreturned \subseteq SlotOps /\ expired \subseteq SlotOps /\ sweep \subseteq SlotOps
    /\ issued \in 0 .. MaxSlotOps /\ resizes \in Nat /\ overlapped \in BOOLEAN
    /\ resize \in [Resizers -> {NoResize} \cup Counted \cup Adjusting \cup Storing]

\* No permit is lost or made: whoever releases, expires, gives up or changes the limit,
\* several at once, each permit is available, held by one call, behind one active
\* operation, or about to be returned (acquire_slot, release_slot, start_cleanup_task).
\* So the active operations never outnumber the permits that exist.  Those are as many as
\* the limit says, unless a change of the limit met another one or a slot on its way: it
\* reads the map, then the semaphore, and trusts the sum (update_max_concurrent), and two
\* changes each add what they found missing.
SlotAccounting ==
    /\ permits + Cardinality(ActiveOps) + Cardinality(Holding) + Cardinality(unreturned) = capacity
    /\ ~overlapped /\ ~Resizing => capacity = limit

===============================================================================
