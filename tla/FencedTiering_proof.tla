-------------------------- MODULE FencedTiering_proof --------------------------
(***************************************************************************)
(* The fence of ReservationService for any brokers, calls and epochs, and  *)
(* what it guarantees to the tiering that relies on it.                    *)
(*                                                                         *)
(* The argument: every claim that was ever granted is covered by the       *)
(* reservation object, that is, the object carries a higher epoch or is    *)
(* that very claim.  A conditional write goes through only over the        *)
(* content its call has read, and a call only goes on to write after it    *)
(* has read an older epoch; so a write moves the object past everything    *)
(* granted before, and a grant never collides with an earlier one.         *)
(* FencedTiering leaves the reservation to ReservationService, so the      *)
(* invariant carries over; on top of it, a broker past a check is covered  *)
(* by the reservation (which is its claim or has moved past it), and once  *)
(* an upload was late the reservation has moved past that claim for good,  *)
(* so no later check under it succeeds.                                    *)
(***************************************************************************)
EXTENDS FencedTiering, TLAPS

\* The reservation is past the claim p, or is that claim.
Covered(p) ==
    /\ object # Absent
    /\ \/ object.epoch > p.epoch
       \/ object.epoch = p.epoch /\ object.node_id = p.node_id

OwnedCovered == \A p \in owned : Covered(p)

\* A call about to write has seen nothing, or an older epoch.
SeenOlder ==
    \A c \in Calls : call[c].pc = "put" /\ call[c].seen # Absent =>
        call[c].seen.epoch < call[c].epoch

\* What is, or is about to be, in a leadership table has been granted.
SetOwned == \A c \in Calls : call[c].pc = "set" => MyClaim(c) \in owned
LeadsOwned ==
    \A n \in Nodes : leadership[n] # Absent => [node_id |-> n, epoch |-> leadership[n]] \in owned

Inv == TypeOK /\ OwnedCovered /\ OneOwnerPerEpoch /\ SeenOlder /\ SetOwned /\ LeadsOwned

\* Epochs are u64 values.
LEMMA EpochsAreNumbers == \A e \in Epochs : e \in Nat
BY ReservationConstants

\* A call that is under way has a node and an epoch.
LEMMA CallUnderWay ==
    ASSUME TypeOK, NEW c \in Calls, call[c].pc # "idle"
    PROVE  call[c] \in ActiveCall
BY DEF TypeOK, IdleCall

\* What a call writes is a reservation.
LEMMA SuccessorType ==
    ASSUME TypeOK, NEW c \in Calls, call[c].pc = "put"
    PROVE  /\ Successor(c) \in Reservation
           /\ Successor(c).epoch = call[c].epoch
           /\ Successor(c).node_id = call[c].node_id
           /\ call[c].seen # Absent => Successor(c).failover = call[c].seen.failover + 1
<1>1. call[c] \in ActiveCall
  BY CallUnderWay
<1>2. call[c].seen \in Reservation \cup {Absent}
  BY <1>1 DEF ActiveCall
<1> QED
  BY <1>1, <1>2 DEF Successor, ActiveCall, Reservation

\* Replacing one call's state by a well-formed one leaves all calls well-formed.
LEMMA CallTyped ==
    ASSUME TypeOK, NEW c \in Calls, NEW s \in {IdleCall} \cup ActiveCall,
           s.pc = "put" => s.tries > 0,
           call' = [call EXCEPT ![c] = s]
    PROVE  /\ call' \in [Calls -> {IdleCall} \cup ActiveCall]
           /\ \A d \in Calls : call'[d].pc = "put" => call'[d].tries > 0
BY DEF TypeOK

\* The state before the first request is well-formed.
LEMMA TypeInit == Init => TypeOK
BY DEF Init, TypeOK, IdleCall

\* Every step of acquire, of the leadership handlers and of a restart keeps it well-formed.
LEMMA TypeStep == TypeOK /\ [Next]_reservationVars => TypeOK'
<1> SUFFICES ASSUME TypeOK, [Next]_reservationVars PROVE TypeOK'
  OBVIOUS
<1> USE ReservationConstants
<1>1. ASSUME NEW c \in Calls, NEW n \in Nodes, NEW e \in Epochs, Acquire(c, n, e) PROVE TypeOK'
  BY <1>1 DEF Acquire, TypeOK, ActiveCall
<1>2. ASSUME NEW c \in Calls, Get(c) PROVE TypeOK'
  <2>1. call[c] \in ActiveCall /\ MyClaim(c) \in Claim
    BY <1>2, CallUnderWay DEF Get, ActiveCall, MyClaim, Claim
  <2>2. object \in Reservation \cup {Absent}
    BY DEF TypeOK
  <2>3. [call[c] EXCEPT !.pc = "set"] \in ActiveCall
        /\ [call[c] EXCEPT !.pc = "put", !.seen = object] \in ActiveCall
    BY <2>1, <2>2 DEF ActiveCall
  <2>4. PICK s \in {IdleCall} \cup ActiveCall :
           /\ call' = [call EXCEPT ![c] = s]
           /\ s.pc = "put" => s.tries > 0
    <3>1. CASE Return(c)
      <4>1. IdleCall.pc # "put"
        BY DEF IdleCall
      <4> QED
        BY <3>1, <4>1 DEF Return
    <3>2. CASE call' = [call EXCEPT ![c].pc = "set"]
      <4>1. call' = [call EXCEPT ![c] = [call[c] EXCEPT !.pc = "set"]]
        BY <3>2
      <4> QED
        BY <4>1, <2>1, <2>3 DEF ActiveCall
    <3>3. CASE call' = [call EXCEPT ![c].pc = "put", ![c].seen = object]
      <4>1. call' = [call EXCEPT ![c] = [call[c] EXCEPT !.pc = "put", !.seen = object]]
        BY <3>3 DEF TypeOK
      <4>2. [call[c] EXCEPT !.pc = "put", !.seen = object].tries > 0
        BY <1>2, <2>1 DEF Get, ActiveCall
      <4> QED
        BY <4>1, <4>2, <2>3
    <3> QED
      BY <1>2, <3>1, <3>2, <3>3 DEF Get
  <2> QED
    BY <1>2, <2>1, <2>4, CallTyped DEF Get, TypeOK
<1>3. ASSUME NEW c \in Calls, PutIf(c) PROVE TypeOK'
  <2>1. call[c] \in ActiveCall /\ MyClaim(c) \in Claim
    BY <1>3, CallUnderWay DEF PutIf, ActiveCall, MyClaim, Claim
  <2>2. Successor(c) \in Reservation
    BY <1>3, SuccessorType DEF PutIf
  <2>3. CASE PreconditionHolds(c)
    <3>1. [call[c] EXCEPT !.pc = "set"] \in ActiveCall
      BY <2>1 DEF ActiveCall
    <3>2. call' = [call EXCEPT ![c] = [call[c] EXCEPT !.pc = "set"]]
      BY <1>3, <2>3 DEF PutIf
    <3>3. [call[c] EXCEPT !.pc = "set"].pc # "put"
      BY <2>1 DEF ActiveCall
    <3> QED
      BY <1>3, <2>1, <2>2, <2>3, <3>1, <3>2, <3>3, CallTyped DEF PutIf, TypeOK
  <2>4. CASE ~PreconditionHolds(c)
    <3>1. call[c].tries - 1 \in 0 .. MAX_CAS_RETRIES
      BY <1>3, <2>1 DEF PutIf, TypeOK, ActiveCall
    <3>2. [call[c] EXCEPT !.pc = "get", !.tries = @ - 1] \in ActiveCall
      BY <2>1, <3>1 DEF ActiveCall
    <3>3. call' = [call EXCEPT ![c] = [call[c] EXCEPT !.pc = "get", !.tries = @ - 1]]
      BY <1>3, <2>4 DEF PutIf, TypeOK
    <3>4. [call[c] EXCEPT !.pc = "get", !.tries = @ - 1].pc # "put"
      BY <2>1 DEF ActiveCall
    <3> QED
      BY <1>3, <2>4, <3>2, <3>3, <3>4, CallTyped DEF PutIf, TypeOK
  <2> QED
    BY <2>3, <2>4
<1>4. ASSUME NEW c \in Calls, GiveUp(c) PROVE TypeOK'
  <2>1. MyClaim(c) \in Claim
    BY <1>4, CallUnderWay DEF GiveUp, ActiveCall, MyClaim, Claim
  <2> QED
    BY <1>4, <2>1 DEF GiveUp, Return, TypeOK, IdleCall
<1>5. ASSUME NEW c \in Calls, StorageError(c) PROVE TypeOK'
  <2>1. call[c].pc = "put" => Successor(c) \in Reservation
    BY <1>5, SuccessorType
  <2> QED
    BY <1>5, <2>1 DEF StorageError, Return, TypeOK, IdleCall
<1>6. ASSUME NEW c \in Calls, SetLeadership(c) PROVE TypeOK'
  <2>1. call[c] \in ActiveCall
    BY <1>6, CallUnderWay DEF SetLeadership
  <2> QED
    BY <1>6, <2>1 DEF SetLeadership, Return, TypeOK, IdleCall, ActiveCall
<1>7. ASSUME NEW n \in Nodes, Restart(n) PROVE TypeOK'
  BY <1>7 DEF Restart, TypeOK, IdleCall
<1>8. CASE UNCHANGED reservationVars
  BY <1>8 DEF reservationVars, TypeOK
<1> QED
  BY <1>1, <1>2, <1>3, <1>4, <1>5, <1>6, <1>7, <1>8 DEF Next, Reserve, CallStep

\* The state of the reservation, of every call in progress, of the leadership tables
\* and of the grants stays well-formed (ReservationService, LeadershipState).
THEOREM ReservationTyped == Spec => []TypeOK
BY TypeInit, TypeStep, PTL DEF Spec

-------------------------------------------------------------------------------
(* The inductive invariant.                                                *)

\* The inductive invariant holds before the first request.
LEMMA InvInit == Init => Inv
<1> SUFFICES ASSUME Init PROVE Inv
  OBVIOUS
<1>1. TypeOK
  BY TypeInit
<1>2. OwnedCovered /\ OneOwnerPerEpoch /\ LeadsOwned
  BY DEF Init, OwnedCovered, OneOwnerPerEpoch, LeadsOwned
<1>3. SeenOlder /\ SetOwned
  BY DEF Init, SeenOlder, SetOwned, IdleCall
<1> QED
  BY <1>1, <1>2, <1>3 DEF Inv

\* A write over what the call has seen moves the object past every granted claim.
LEMMA WriteAdvances ==
    ASSUME Inv, NEW c \in Calls, call[c].pc = "put", PreconditionHolds(c)
    PROVE  /\ \A p \in owned : p.epoch < Successor(c).epoch
           /\ object # Absent => /\ object.epoch < Successor(c).epoch
                                 /\ Successor(c).failover = object.failover + 1
<1>1. call[c] \in ActiveCall
  BY CallUnderWay DEF Inv
<1>2. /\ Successor(c).epoch = call[c].epoch
      /\ call[c].seen # Absent => Successor(c).failover = call[c].seen.failover + 1
  BY SuccessorType DEF Inv
<1>3. object # Absent => object.epoch < call[c].epoch
  BY DEF Inv, SeenOlder, PreconditionHolds
<1>4. ASSUME NEW p \in owned PROVE p.epoch < call[c].epoch
  <2>1. Covered(p) /\ object \in Reservation /\ p \in Claim
    BY DEF Inv, TypeOK, OwnedCovered, Covered
  <2>2. p.epoch \in Nat /\ object.epoch \in Nat /\ call[c].epoch \in Nat
    BY <1>1, <2>1, EpochsAreNumbers DEF Reservation, Claim, ActiveCall
  <2> QED
    BY <2>1, <2>2, <1>3 DEF Covered
<1> QED
  BY <1>2, <1>3, <1>4 DEF PreconditionHolds

\* A read that finds the call's own epoch finds the call's own claim.
LEMMA OwnEpochIsOwnClaim ==
    ASSUME Inv, NEW c \in Calls, call[c].pc = "get", ~Outranked(c),
           object # Absent, object.epoch = call[c].epoch
    PROVE  object.node_id = call[c].node_id
BY DEF Outranked

\* The steps that leave the object and the grants alone.
LEMMA QuietStep ==
    ASSUME Inv, TypeOK', UNCHANGED <<object, owned>>
    PROVE  OwnedCovered' /\ OneOwnerPerEpoch'
BY DEF Inv, OwnedCovered, Covered, OneOwnerPerEpoch

\* Every step of acquire, of the leadership handlers and of a restart keeps it: only Get
\* and PutIf grant a claim, and only PutIf and a failing write change the object.
LEMMA InvStep == Inv /\ [Next]_reservationVars => Inv'
<1> SUFFICES ASSUME Inv, [Next]_reservationVars PROVE Inv'
  OBVIOUS
<1>0. TypeOK /\ TypeOK'
  BY TypeStep DEF Inv
<1> USE ReservationConstants
<1>1. ASSUME NEW c \in Calls, NEW n \in Nodes, NEW e \in Epochs, Acquire(c, n, e) PROVE Inv'
  <2>1. OwnedCovered' /\ OneOwnerPerEpoch'
    BY <1>0, <1>1, QuietStep DEF Acquire
  <2>2. SeenOlder' /\ SetOwned'
    BY <1>0, <1>1 DEF Acquire, Inv, TypeOK, SeenOlder, SetOwned, MyClaim
  <2>3. LeadsOwned'
    BY <1>1 DEF Acquire, Inv, LeadsOwned
  <2> QED
    BY <1>0, <2>1, <2>2, <2>3 DEF Inv
<1>2. ASSUME NEW c \in Calls, Get(c) PROVE Inv'
  <2>0. call[c] \in ActiveCall
    BY <1>0, <1>2, CallUnderWay DEF Get
  <2>1. CASE Outranked(c) /\ Return(c) /\ UNCHANGED owned
    <3>1. OwnedCovered' /\ OneOwnerPerEpoch'
      BY <1>0, <1>2, <2>1, QuietStep DEF Get
    <3>2. SeenOlder' /\ SetOwned'
      BY <1>0, <2>1 DEF Return, Inv, TypeOK, SeenOlder, SetOwned, MyClaim, IdleCall
    <3>3. LeadsOwned'
      BY <1>2, <2>1 DEF Get, Inv, LeadsOwned
    <3> QED
      BY <1>0, <3>1, <3>2, <3>3 DEF Inv
  <2>2. CASE /\ ~Outranked(c) /\ object # Absent /\ object.epoch = call[c].epoch
             /\ call' = [call EXCEPT ![c].pc = "set"]
             /\ owned' = owned \cup {MyClaim(c)}
    <3>0. object' = object /\ leadership' = leadership
      BY <1>2 DEF Get
    <3>1. Covered(MyClaim(c)) /\ object.node_id = call[c].node_id
      BY <1>2, <2>2, OwnEpochIsOwnClaim DEF Get, Covered, MyClaim
    <3>2. OwnedCovered'
      BY <2>2, <3>0, <3>1 DEF Inv, OwnedCovered, Covered
    <3>3. \A p \in owned : p.epoch = call[c].epoch => p.node_id = call[c].node_id
      BY <1>0, <2>0, <2>2, <3>1 DEF Inv, TypeOK, OwnedCovered, Covered, Claim, ActiveCall
    <3>4. OneOwnerPerEpoch'
      BY <2>2, <3>3 DEF Inv, OneOwnerPerEpoch, MyClaim
    <3>5. SeenOlder' /\ SetOwned'
      BY <1>0, <2>0, <2>2 DEF Inv, TypeOK, SeenOlder, SetOwned, MyClaim, ActiveCall
    <3>6. LeadsOwned'
      BY <2>2, <3>0 DEF Inv, LeadsOwned
    <3> QED
      BY <1>0, <3>2, <3>4, <3>5, <3>6 DEF Inv
  <2>3. CASE /\ ~Outranked(c) /\ (object # Absent => object.epoch # call[c].epoch)
             /\ call' = [call EXCEPT ![c].pc = "put", ![c].seen = object]
             /\ UNCHANGED owned
    <3>1. OwnedCovered' /\ OneOwnerPerEpoch'
      BY <1>0, <1>2, <2>3, QuietStep DEF Get
    <3>2. object # Absent => object.epoch < call[c].epoch
      <4>1. object # Absent => object.epoch \in Nat /\ call[c].epoch \in Nat
        BY <1>0, <2>0, EpochsAreNumbers DEF TypeOK, Reservation, ActiveCall
      <4> QED
        BY <2>3, <4>1 DEF Outranked
    <3>3. SeenOlder' /\ SetOwned'
      BY <1>0, <2>0, <2>3, <3>2 DEF Inv, TypeOK, SeenOlder, SetOwned, MyClaim, ActiveCall
    <3>4. LeadsOwned'
      BY <1>2, <2>3 DEF Get, Inv, LeadsOwned
    <3> QED
      BY <1>0, <3>1, <3>3, <3>4 DEF Inv
  <2> QED
    BY <1>2, <2>1, <2>2, <2>3 DEF Get
<1>3. ASSUME NEW c \in Calls, PutIf(c) PROVE Inv'
  <2>0. call[c] \in ActiveCall /\ leadership' = leadership
    BY <1>0, <1>3, CallUnderWay DEF PutIf
  <2>1. CASE PreconditionHolds(c)
    <3>0. /\ object' = Successor(c) /\ owned' = owned \cup {MyClaim(c)}
          /\ call' = [call EXCEPT ![c].pc = "set"]
      BY <1>3, <2>1 DEF PutIf
    <3>1. /\ Successor(c) \in Reservation
          /\ Successor(c).epoch = call[c].epoch /\ Successor(c).node_id = call[c].node_id
      BY <1>0, <1>3, SuccessorType DEF PutIf
    <3>2. \A p \in owned : p.epoch < Successor(c).epoch
      BY <1>3, <2>1, WriteAdvances DEF PutIf
    <3>3. OwnedCovered'
      BY <3>0, <3>1, <3>2 DEF OwnedCovered, Covered, MyClaim
    <3>4. OneOwnerPerEpoch'
      BY <1>0, <2>0, <3>0, <3>1, <3>2
      DEF Inv, TypeOK, OneOwnerPerEpoch, MyClaim, Claim, ActiveCall
    <3>5. SeenOlder' /\ SetOwned'
      BY <1>0, <2>0, <3>0 DEF Inv, TypeOK, SeenOlder, SetOwned, MyClaim, ActiveCall
    <3>6. LeadsOwned'
      BY <2>0, <3>0 DEF Inv, LeadsOwned
    <3> QED
      BY <1>0, <3>3, <3>4, <3>5, <3>6 DEF Inv
  <2>2. CASE ~PreconditionHolds(c)
    <3>0. call' = [call EXCEPT ![c].pc = "get", ![c].tries = @ - 1]
          /\ UNCHANGED <<object, owned>>
      BY <1>3, <2>2 DEF PutIf
    <3>1. OwnedCovered' /\ OneOwnerPerEpoch'
      BY <1>0, <3>0, QuietStep
    <3>2. SeenOlder' /\ SetOwned'
      BY <1>0, <2>0, <3>0 DEF Inv, TypeOK, SeenOlder, SetOwned, MyClaim, ActiveCall
    <3>3. LeadsOwned'
      BY <2>0, <3>0 DEF Inv, LeadsOwned
    <3> QED
      BY <1>0, <3>1, <3>2, <3>3 DEF Inv
  <2> QED
    BY <2>1, <2>2
<1>4. ASSUME NEW c \in Calls, GiveUp(c) PROVE Inv'
  <2>1. OwnedCovered' /\ OneOwnerPerEpoch'
    BY <1>0, <1>4, QuietStep DEF GiveUp
  <2>2. SeenOlder' /\ SetOwned'
    BY <1>0, <1>4 DEF GiveUp, Return, Inv, TypeOK, SeenOlder, SetOwned, MyClaim, IdleCall
  <2>3. LeadsOwned'
    BY <1>4 DEF GiveUp, Inv, LeadsOwned
  <2> QED
    BY <1>0, <2>1, <2>2, <2>3 DEF Inv
<1>5. ASSUME NEW c \in Calls, StorageError(c) PROVE Inv'
  <2>0. Return(c) /\ UNCHANGED <<leadership, owned>>
    BY <1>5 DEF StorageError
  <2>1. OwnedCovered'
    <3>1. CASE UNCHANGED object
      BY <2>0, <3>1 DEF Inv, OwnedCovered, Covered
    <3>2. CASE call[c].pc = "put" /\ PreconditionHolds(c) /\ object' = Successor(c)
      BY <1>0, <2>0, <3>2, WriteAdvances, SuccessorType DEF OwnedCovered, Covered
    <3> QED
      BY <1>5, <3>1, <3>2 DEF StorageError
  <2>2. OneOwnerPerEpoch' /\ LeadsOwned'
    BY <2>0 DEF Inv, OneOwnerPerEpoch, LeadsOwned
  <2>3. SeenOlder' /\ SetOwned'
    BY <1>0, <2>0 DEF Return, Inv, TypeOK, SeenOlder, SetOwned, MyClaim, IdleCall
  <2> QED
    BY <1>0, <2>1, <2>2, <2>3 DEF Inv
<1>6. ASSUME NEW c \in Calls, SetLeadership(c) PROVE Inv'
  <2>1. OwnedCovered' /\ OneOwnerPerEpoch'
    BY <1>0, <1>6, QuietStep DEF SetLeadership
  <2>2. SeenOlder' /\ SetOwned'
    BY <1>0, <1>6 DEF SetLeadership, Return, Inv, TypeOK, SeenOlder, SetOwned, MyClaim, IdleCall
  <2>3. LeadsOwned'
    BY <1>0, <1>6 DEF SetLeadership, Inv, TypeOK, SetOwned, MyClaim, LeadsOwned
  <2> QED
    BY <1>0, <2>1, <2>2, <2>3 DEF Inv
<1>7. ASSUME NEW n \in Nodes, Restart(n) PROVE Inv'
  <2>1. OwnedCovered' /\ OneOwnerPerEpoch'
    BY <1>0, <1>7, QuietStep DEF Restart
  <2>2. SeenOlder' /\ SetOwned'
    BY <1>0, <1>7 DEF Restart, Inv, TypeOK, SeenOlder, SetOwned, MyClaim, IdleCall
  <2>3. LeadsOwned'
    BY <1>0, <1>7 DEF Restart, Inv, TypeOK, LeadsOwned
  <2> QED
    BY <1>0, <2>1, <2>2, <2>3 DEF Inv
<1>8. CASE UNCHANGED reservationVars
  BY <1>8 DEF reservationVars, Inv, TypeOK, OwnedCovered, Covered, OneOwnerPerEpoch,
              SeenOlder, SetOwned, LeadsOwned, MyClaim
<1> QED
  BY <1>1, <1>2, <1>3, <1>4, <1>5, <1>6, <1>7, <1>8 DEF Next, Reserve, CallStep

\* The inductive invariant holds for ever.
LEMMA ReservationInvariant == Spec => []Inv
BY InvInit, InvStep, PTL DEF Spec

-------------------------------------------------------------------------------
\* No two brokers are ever told they own the same epoch, for any number of brokers,
\* concurrent acquire calls, retries, storage errors and restarts.
THEOREM EpochsHaveOneOwner == Spec => []OneOwnerPerEpoch
<1>1. Inv => OneOwnerPerEpoch
  BY DEF Inv
<1> QED
  BY <1>1, ReservationInvariant, PTL

\* The claim that verify accepts is newer than every other claim ever granted.
THEOREM VerifyAcceptsNewest == Spec => []VerifiedIsNewest
<1>1. Inv => VerifiedIsNewest
  <2> SUFFICES ASSUME Inv, NEW n \in Nodes, NEW e \in Epochs, verify(n, e), NEW p \in owned
               PROVE  p.epoch <= e /\ (p.epoch = e => p.node_id = n)
    BY DEF VerifiedIsNewest
  <2>1. Covered(p) /\ p \in Claim
    BY DEF Inv, TypeOK, OwnedCovered
  <2>2. p.epoch \in Nat /\ e \in Nat
    BY <2>1, EpochsAreNumbers DEF Claim
  <2> QED
    BY <2>1, <2>2 DEF Covered, verify
<1> QED
  BY <1>1, ReservationInvariant, PTL

\* A step that changes the object advances it.
LEMMA StepAdvances ==
    ASSUME Inv, [Next]_reservationVars, object # Absent, object' # object
    PROVE  /\ object' # Absent
           /\ object'.epoch > object.epoch
           /\ object'.failover = object.failover + 1
<1>1. PICK c \in Calls : call[c].pc = "put" /\ PreconditionHolds(c) /\ object' = Successor(c)
  BY DEF Next, Reserve, CallStep, reservationVars, Acquire, Get, PutIf, GiveUp, StorageError,
         SetLeadership, Restart
<1>2. object' \in Reservation
  BY <1>1, SuccessorType DEF Inv
<1>3. object.epoch < object'.epoch /\ object'.failover = object.failover + 1
  BY <1>1, WriteAdvances
<1>4. object.epoch \in Nat /\ object'.epoch \in Nat
  BY <1>2, EpochsAreNumbers DEF Inv, TypeOK, Reservation
<1> QED
  BY <1>2, <1>3, <1>4, ReservationConstants

\* The reservation object moves only to higher epochs, one takeover at a time.
THEOREM ReservationAdvances == Spec => EpochAdvances
<1>1. Inv /\ [Next]_reservationVars =>
        [object # Absent /\ object' # object =>
            /\ object' # Absent
            /\ object'.epoch > object.epoch
            /\ object'.failover = object.failover + 1]_reservationVars
  BY StepAdvances
<1> QED
  BY <1>1, ReservationInvariant, PTL DEF Spec, EpochAdvances

-------------------------------------------------------------------------------
\* Every step is a step of the reservation protocol or leaves it alone.
LEMMA FencedStepImplements ==
    [FencedNext]_fencedVars => [Next]_reservationVars
BY DEF FencedNext, fencedVars, tieringVars, reservationVars, Next, TierSegment, ReadEpoch,
       Verify, Upload, Commit, FencedRestart

\* The composed system implements the reservation protocol, so its grants stay unique
\* and its epochs advance while brokers tier and restart.
THEOREM FencedImplementsReservation == FencedSpec => Spec
<1>1. FencedInit => Init
  BY DEF FencedInit
<1> QED
  BY <1>1, FencedStepImplements, PTL DEF FencedSpec, Spec

-------------------------------------------------------------------------------
\* The step of one broker's task keeps the tasks well-formed.
LEMMA TaskUnderWay ==
    ASSUME FencedTypeOK, NEW n \in Nodes, tier[n].pc # "idle"
    PROVE  tier[n] \in ActiveTask /\ TierClaim(n) \in Claim
<1>1. tier[n] \in ActiveTask
  BY DEF FencedTypeOK, IdleTask
<1> QED
  BY <1>1 DEF ActiveTask, TierClaim, Claim

\* The state before the first tiering cycle is well-formed.
LEMMA FencedTypeInit == FencedInit => FencedTypeOK
BY TypeInit DEF FencedInit, FencedTypeOK

\* Every step of tier_segment keeps it well-formed.
LEMMA FencedTypeStep == FencedTypeOK /\ [FencedNext]_fencedVars => FencedTypeOK'
<1> SUFFICES ASSUME FencedTypeOK, [FencedNext]_fencedVars PROVE FencedTypeOK'
  OBVIOUS
<1>0. TypeOK'
  BY FencedStepImplements, TypeStep DEF FencedTypeOK
<1>1. ASSUME NEW n \in Nodes, NEW from, NEW to \in {"precheck", "postcheck"}, ReadEpoch(n, from, to)
      PROVE  FencedTypeOK'
  <2>1. leadership[n] # Absent => [pc |-> to, epoch |-> leadership[n]] \in ActiveTask
    BY DEF FencedTypeOK, TypeOK, ActiveTask
  <2> QED
    BY <1>0, <1>1, <2>1 DEF ReadEpoch, FencedTypeOK
<1>2. ASSUME NEW n \in Nodes, NEW from \in {"precheck", "postcheck"}, NEW to \in {"upload", "commit"},
             Verify(n, from, to)
      PROVE  FencedTypeOK'
  <2>1. tier[n] \in ActiveTask
    BY <1>2, TaskUnderWay DEF Verify
  <2>2. [tier[n] EXCEPT !.pc = to] \in ActiveTask
    BY <2>1 DEF ActiveTask
  <2> QED
    BY <1>0, <1>2, <2>2 DEF Verify, FencedTypeOK
<1>3. ASSUME NEW n \in Nodes, Upload(n) PROVE FencedTypeOK'
  <2>1. tier[n] \in ActiveTask /\ TierClaim(n) \in Claim
    BY <1>3, TaskUnderWay DEF Upload
  <2>2. [tier[n] EXCEPT !.pc = "uploaded"] \in ActiveTask
    BY <2>1 DEF ActiveTask
  <2>3. late' \in [Claim -> Nat]
    BY <1>3, <2>1 DEF Upload, FencedTypeOK
  <2>4. tier' \in [Nodes -> {IdleTask} \cup ActiveTask]
    BY <1>3, <2>2 DEF Upload, FencedTypeOK
  <2> QED
    BY <1>0, <1>3, <2>3, <2>4 DEF Upload, FencedTypeOK
<1>4. ASSUME NEW n \in Nodes, Commit(n) PROVE FencedTypeOK'
  <2>1. TierClaim(n) \in Claim
    BY <1>4, TaskUnderWay DEF Commit
  <2> QED
    BY <1>0, <1>4, <2>1 DEF Commit, FencedTypeOK
<1>5. ASSUME NEW n \in Nodes, FencedRestart(n) PROVE FencedTypeOK'
  BY <1>0, <1>5 DEF FencedRestart, FencedTypeOK
<1>6. CASE UNCHANGED tieringVars
  BY <1>0, <1>6 DEF tieringVars, FencedTypeOK
<1> QED
  BY <1>1, <1>2, <1>3, <1>4, <1>5, <1>6 DEF FencedNext, fencedVars, TierSegment

-------------------------------------------------------------------------------
\* A broker past a check had the reservation then, so the reservation covers its claim.
CheckedCovered ==
    \A n \in Nodes : tier[n].pc \in {"upload", "uploaded", "commit"} => Covered(TierClaim(n))

\* The reservation has moved past a claim under which an upload was late, and the
\* broker is not about to upload under it again.
LatePassed ==
    \A n \in Nodes, e \in Epochs : late[[node_id |-> n, epoch |-> e]] # 0 =>
        /\ object # Absent /\ object.epoch > e
        /\ late[[node_id |-> n, epoch |-> e]] = 1
        /\ ~(tier[n].pc = "upload" /\ tier[n].epoch = e)

FencedInv == FencedTypeOK /\ Inv /\ CheckedCovered /\ LatePassed

\* The inductive invariant holds before the first tiering cycle.
LEMMA FencedInvInit == FencedInit => FencedInv
<1> SUFFICES ASSUME FencedInit PROVE FencedInv
  OBVIOUS
<1>1. FencedTypeOK /\ Inv
  BY FencedTypeInit, InvInit DEF FencedInit
<1>2. CheckedCovered
  BY DEF FencedInit, CheckedCovered, IdleTask
<1>3. LatePassed
  BY DEF FencedInit, LatePassed, Claim
<1> QED
  BY <1>1, <1>2, <1>3 DEF FencedInv

\* A covered claim stays covered, and one that is passed stays passed: the epoch of the
\* reservation does not go down.
LEMMA CoverageKept ==
    ASSUME Inv, [Next]_reservationVars
    PROVE  /\ \A p \in Claim : Covered(p) => Covered(p)'
           /\ \A e \in Epochs : object # Absent /\ object.epoch > e =>
                                  object' # Absent /\ object'.epoch > e
<1>1. CASE object' = object
  BY <1>1 DEF Covered
<1>2. CASE object' # object /\ object # Absent
  <2>1. object' # Absent /\ object'.epoch > object.epoch
    BY <1>2, StepAdvances
  <2>2. object.epoch \in Nat /\ object'.epoch \in Nat
    BY <1>2, <2>1, InvStep, EpochsAreNumbers DEF Inv, TypeOK, Reservation
  <2>3. \A p \in Claim : p.epoch \in Nat
    BY EpochsAreNumbers DEF Claim
  <2> QED
    BY <2>1, <2>2, <2>3, EpochsAreNumbers DEF Covered
<1>3. CASE object = Absent
  BY <1>3 DEF Covered
<1> QED
  BY <1>1, <1>2, <1>3

\* A claim that verify rejects although it is covered has been passed.
LEMMA RejectedIsPassed ==
    ASSUME NEW n, NEW e, Covered([node_id |-> n, epoch |-> e]), ~verify(n, e)
    PROVE  object # Absent /\ object.epoch > e
BY DEF Covered, verify

\* The steps that do not touch the tasks or only let one of them go idle.
LEMMA TasksGoIdle ==
    ASSUME FencedInv, [FencedNext]_fencedVars, UNCHANGED late,
           \A n \in Nodes : tier'[n] = tier[n] \/ tier'[n].pc \in {"idle", "precheck", "postcheck"}
    PROVE  FencedInv'
<1>1. FencedTypeOK' /\ Inv'
  BY FencedTypeStep, FencedStepImplements, InvStep DEF FencedInv
<1>2. Inv /\ [Next]_reservationVars /\ FencedTypeOK
  BY FencedStepImplements DEF FencedInv
<1>3. CheckedCovered'
  <2> SUFFICES ASSUME NEW n \in Nodes, tier'[n].pc \in {"upload", "uploaded", "commit"}
               PROVE  Covered(TierClaim(n))'
    BY DEF CheckedCovered
  <2>1. tier'[n] = tier[n]
    OBVIOUS
  <2>2. Covered(TierClaim(n)) /\ TierClaim(n) \in Claim
    BY <1>2, <2>1, TaskUnderWay DEF FencedInv, CheckedCovered
  <2>3. TierClaim(n)' = TierClaim(n)
    BY <2>1 DEF TierClaim
  <2> QED
    BY <1>2, <2>2, <2>3, CoverageKept DEF Covered
<1>4. LatePassed'
  BY <1>2, CoverageKept DEF FencedInv, LatePassed
<1> QED
  BY <1>1, <1>3, <1>4 DEF FencedInv

\* Every step keeps the inductive invariant: verify covers a claim at the check, and
\* only the upload adds to late.
LEMMA FencedInvStep == FencedInv /\ [FencedNext]_fencedVars => FencedInv'
<1> SUFFICES ASSUME FencedInv, [FencedNext]_fencedVars PROVE FencedInv'
  OBVIOUS
<1>0. FencedTypeOK /\ FencedTypeOK' /\ Inv /\ Inv' /\ TypeOK
  BY FencedTypeStep, FencedStepImplements, InvStep DEF FencedInv, FencedTypeOK
<1>1. ASSUME NEW n \in Nodes, NEW from, NEW to \in {"precheck", "postcheck"}, ReadEpoch(n, from, to)
      PROVE  FencedInv'
  <2>1. \A m \in Nodes : tier'[m] = tier[m] \/ tier'[m].pc \in {"idle", "precheck", "postcheck"}
    BY <1>0, <1>1 DEF ReadEpoch, FencedTypeOK, IdleTask
  <2> QED
    BY <1>1, <2>1, TasksGoIdle DEF ReadEpoch
<1>2. ASSUME NEW n \in Nodes, NEW from \in {"precheck", "postcheck"}, NEW to \in {"upload", "commit"},
             Verify(n, from, to)
      PROVE  FencedInv'
  <2>0. tier[n] \in ActiveTask /\ UNCHANGED <<object, late>>
    BY <1>0, <1>2, TaskUnderWay DEF Verify, reservationVars
  <2>1. CASE tier' = [tier EXCEPT ![n] = IdleTask]
    <3>1. \A m \in Nodes : tier'[m] = tier[m] \/ tier'[m].pc \in {"idle", "precheck", "postcheck"}
      BY <1>0, <2>1 DEF FencedTypeOK, IdleTask
    <3> QED
      BY <2>0, <3>1, TasksGoIdle
  <2>2. CASE verify(n, tier[n].epoch) /\ tier' = [tier EXCEPT ![n].pc = to]
    <3>1. /\ tier'[n].pc = to /\ tier'[n].epoch = tier[n].epoch
          /\ \A m \in Nodes \ {n} : tier'[m] = tier[m]
      BY <1>0, <2>0, <2>2 DEF FencedTypeOK, ActiveTask
    <3>2. CheckedCovered'
      BY <2>0, <2>2, <3>1 DEF FencedInv, CheckedCovered, Covered, TierClaim, verify
    <3>3. LatePassed'
      <4>1. tier[n].epoch \in Nat /\ object # Absent /\ object.epoch = tier[n].epoch
        BY <2>0, <2>2, EpochsAreNumbers DEF ActiveTask, verify
      <4> QED
        BY <2>0, <3>1, <4>1 DEF FencedInv, LatePassed
    <3> QED
      BY <1>0, <3>2, <3>3 DEF FencedInv
  <2> QED
    BY <1>2, <2>1, <2>2 DEF Verify
<1>3. ASSUME NEW n \in Nodes, Upload(n) PROVE FencedInv'
  <2>0. /\ tier[n] \in ActiveTask /\ TierClaim(n) \in Claim /\ tier[n].pc = "upload"
        /\ UNCHANGED <<object, leadership>>
    BY <1>0, <1>3, TaskUnderWay DEF Upload, reservationVars
  <2>1. /\ tier'[n].pc = "uploaded" /\ tier'[n].epoch = tier[n].epoch
        /\ \A m \in Nodes \ {n} : tier'[m] = tier[m]
    BY <1>0, <1>3, <2>0 DEF Upload, FencedTypeOK, ActiveTask
  <2>2. CheckedCovered'
    BY <2>0, <2>1 DEF FencedInv, CheckedCovered, Covered, TierClaim
  <2>3. LatePassed'
    <3> SUFFICES ASSUME NEW m \in Nodes, NEW e \in Epochs,
                        late'[[node_id |-> m, epoch |-> e]] # 0
                 PROVE  /\ object # Absent /\ object.epoch > e
                        /\ late'[[node_id |-> m, epoch |-> e]] = 1
                        /\ ~(tier'[m].pc = "upload" /\ tier'[m].epoch = e)
      BY <2>0 DEF LatePassed
    <3>0. [node_id |-> m, epoch |-> e] \in Claim
      BY DEF Claim
    <3>1. CASE m = n /\ e = tier[n].epoch
      <4>1. late[[node_id |-> m, epoch |-> e]] = 0
        BY <2>0, <3>1 DEF FencedInv, LatePassed
      <4>2. ~verify(n, e) /\ late' = [late EXCEPT ![TierClaim(n)] = @ + 1]
        BY <1>3, <3>1, <4>1 DEF Upload
      <4>3. Covered([node_id |-> n, epoch |-> e])
        BY <2>0, <3>1 DEF FencedInv, CheckedCovered, TierClaim
      <4>4. object # Absent /\ object.epoch > e
        BY <4>2, <4>3, RejectedIsPassed
      <4>5. late'[[node_id |-> m, epoch |-> e]] = 1
        BY <1>0, <3>0, <3>1, <4>1, <4>2 DEF FencedTypeOK, TierClaim
      <4> QED
        BY <2>1, <3>1, <4>4, <4>5
    <3>2. CASE ~(m = n /\ e = tier[n].epoch)
      <4>1. late'[[node_id |-> m, epoch |-> e]] = late[[node_id |-> m, epoch |-> e]]
        BY <1>0, <1>3, <3>0, <3>2 DEF Upload, FencedTypeOK, TierClaim
      <4> QED
        BY <2>1, <4>1 DEF FencedInv, LatePassed
    <3> QED
      BY <3>1, <3>2
  <2> QED
    BY <1>0, <2>2, <2>3 DEF FencedInv
<1>4. ASSUME NEW n \in Nodes, Commit(n) PROVE FencedInv'
  <2>1. \A m \in Nodes : tier'[m] = tier[m] \/ tier'[m].pc \in {"idle", "precheck", "postcheck"}
    BY <1>0, <1>4 DEF Commit, FencedTypeOK, IdleTask
  <2> QED
    BY <1>4, <2>1, TasksGoIdle DEF Commit
<1>5. ASSUME NEW n \in Nodes, FencedRestart(n) PROVE FencedInv'
  <2>1. \A m \in Nodes : tier'[m] = tier[m] \/ tier'[m].pc \in {"idle", "precheck", "postcheck"}
    BY <1>0, <1>5 DEF FencedRestart, FencedTypeOK, IdleTask
  <2> QED
    BY <1>5, <2>1, TasksGoIdle DEF FencedRestart
<1>6. CASE UNCHANGED tieringVars
  BY <1>6, TasksGoIdle DEF tieringVars
<1> QED
  BY <1>1, <1>2, <1>3, <1>4, <1>5, <1>6 DEF FencedNext, fencedVars, TierSegment

\* The inductive invariant holds for ever.
LEMMA FencedInvariant == FencedSpec => []FencedInv
BY FencedInvInit, FencedInvStep, PTL DEF FencedSpec

-------------------------------------------------------------------------------
\* Every reachable state of fenced tiering is well typed: a task past may_tier's first
\* step always carries an epoch.
THEOREM FencedTyped == FencedSpec => []FencedTypeOK
<1>1. FencedInv => FencedTypeOK
  BY DEF FencedInv
<1> QED
  BY <1>1, FencedInvariant, PTL

\* Under one claim a broker uploads at most once after it was superseded, for any number
\* of brokers, epochs, takeovers, storage errors and restarts.
THEOREM AtMostOneLateUpload == FencedSpec => []OneLateUpload
<1>1. FencedInv => OneLateUpload
  <2> SUFFICES ASSUME FencedInv, NEW p \in Claim PROVE late[p] <= 1
    BY DEF OneLateUpload
  <2>1. PICK n \in Nodes, e \in Epochs : p = [node_id |-> n, epoch |-> e]
    BY DEF Claim
  <2>2. late[p] \in Nat
    BY DEF FencedInv, FencedTypeOK
  <2> QED
    BY <2>1, <2>2 DEF FencedInv, LatePassed
<1> QED
  BY <1>1, FencedInvariant, PTL

===============================================================================
