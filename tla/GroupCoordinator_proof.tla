------------------------ MODULE GroupCoordinator_proof ------------------------
(***************************************************************************)
(* The consumer-group coordinator, for any number of members, partitions,  *)
(* offsets, generations and restarts: what an acknowledged commit, a       *)
(* generation and a stable assignment are worth.                           *)
(***************************************************************************)
EXTENDS GroupCoordinator, SharedLemmas

-------------------------------------------------------------------------------
(* The steps the handlers share.                                           *)

\* The group that nobody has joined yet is a group.
LEMMA NewGroupFields ==
    /\ NewGroup \in Groups
    /\ NewGroup.generation = 0 /\ NewGroup.state = "Empty" /\ NewGroup.members = {}
    /\ NewGroup.committed = [p \in Topic |-> Absent]
<1>1. <<>> \in Assignments
  BY DEF Assignments
<1> QED
  BY <1>1, CoordinatorConstants DEF NewGroup, Groups

\* A rebalance starts a new generation and touches neither members nor offsets.
LEMMA BeginRebalanceFields ==
    ASSUME NEW g \in Groups, g.generation < MaxGeneration
    PROVE  /\ BeginRebalance(g) \in Groups
           /\ BeginRebalance(g).state = "PreparingRebalance"
           /\ BeginRebalance(g).generation = g.generation + 1
           /\ BeginRebalance(g).members = g.members
           /\ BeginRebalance(g).committed = g.committed
<1>1. <<>> \in Assignments
  BY DEF Assignments
<1>2. g.generation \in 0 .. MaxGeneration
  BY DEF Groups
<1>3. (g.generation + 1) % GenerationModulus = g.generation + 1 /\ g.generation + 1 \in 0 .. MaxGeneration
  BY <1>2, SmallRemainder, CoordinatorConstants
<1> QED
  BY <1>1, <1>3 DEF BeginRebalance, Groups

\* A departure empties the group or rebalances it, and never touches the offsets.
LEMMA DepartedFields ==
    ASSUME NEW g \in Groups, NEW gone, g.generation < MaxGeneration
    PROVE  /\ Departed(g, gone) \in Groups
           /\ Departed(g, gone).committed = g.committed
           /\ \/ /\ Departed(g, gone).state = "Empty"
                 /\ Departed(g, gone).generation = g.generation
              \/ /\ Departed(g, gone).state = "PreparingRebalance"
                 /\ Departed(g, gone).generation = g.generation + 1
<1> DEFINE rest == [g EXCEPT !.members = @ \ gone]
<1>1. rest \in Groups /\ rest.committed = g.committed /\ rest.generation = g.generation
  BY DEF Groups
<1>2. CASE rest.members = {}
  <2>1. Departed(g, gone) = [rest EXCEPT !.state = "Empty"]
    BY <1>2 DEF Departed
  <2> HIDE DEF rest
  <2> QED
    BY <1>1, <2>1 DEF Groups
<1>3. CASE rest.members # {}
  <2>1. Departed(g, gone) = BeginRebalance(rest)
    BY <1>3 DEF Departed
  <2> HIDE DEF rest
  <2> QED
    BY <1>1, <2>1, BeginRebalanceFields
<1> QED
  BY <1>2, <1>3

-------------------------------------------------------------------------------
(* Dealing the partitions.                                                 *)

\* The partitions the i-th member of k gets.
Share(k, i) == {p \in Topic : p % k = i}

\* Partitions are finitely many, and so are those of a share.
LEMMA SharesFinite ==
    ASSUME NEW T, T \subseteq Topic
    PROVE  IsFiniteSet(T) /\ Cardinality(T) \in Nat
<1>1. IsFiniteSet(Topic)
  BY FS_Interval, CoordinatorConstants DEF Topic
<1> QED
  BY <1>1, FS_Subset, FS_CardinalityType

\* Moving a share by the distance of two members maps it into the other's share, but for
\* its first partition when the other comes later: shares differ by at most one.
LEMMA SharesDiffer ==
    ASSUME NEW k \in Nat \ {0}, NEW i \in 0 .. k - 1, NEW j \in 0 .. k - 1
    PROVE  Cardinality(Share(k, i)) <= Cardinality(Share(k, j)) + 1
<1>1. /\ IsFiniteSet(Share(k, i)) /\ IsFiniteSet(Share(k, j))
      /\ Cardinality(Share(k, i)) \in Nat /\ Cardinality(Share(k, j)) \in Nat
  BY SharesFinite DEF Share
<1>2. ASSUME NEW p \in Share(k, i) PROVE \E q \in Nat : p = k * q + i
  <2>1. p \in Nat /\ p % k = i
    BY CoordinatorConstants DEF Share, Topic
  <2>2. p \div k \in Nat /\ p = k * (p \div k) + i
    BY <2>1, Quotient
  <2> QED
    BY <2>2
<1>3. CASE j <= i
  <2> DEFINE f == [p \in Share(k, i) |-> p - i + j]
  <2>1. ASSUME NEW p \in Share(k, i) PROVE f[p] \in Share(k, j)
    <3>1. PICK q \in Nat : p = k * q + i
      BY <1>2
    <3>2. k * q \in Nat
      OBVIOUS
    <3>3. f[p] = k * q + j
      BY <3>1, <3>2
    <3>4. f[p] \in Nat /\ f[p] % k = j
      BY <3>3, RemainderUnique
    <3>5. f[p] <= p /\ p \in Topic
      BY <1>3, <3>1, <3>2, <3>3 DEF Share
    <3> QED
      BY <3>4, <3>5, CoordinatorConstants DEF Share, Topic
  <2>2. f \in Injection(Share(k, i), Share(k, j))
    <3>1. f \in [Share(k, i) -> Share(k, j)]
      BY <2>1
    <3>2. ASSUME NEW a \in Share(k, i), NEW b \in Share(k, i), f[a] = f[b] PROVE a = b
      BY <3>2, CoordinatorConstants DEF Share, Topic
    <3> QED
      BY <3>1, <3>2 DEF Injection, IsInjective
  <2>3. Cardinality(Share(k, i)) <= Cardinality(Share(k, j))
    BY <1>1, <2>2, FS_Injection
  <2> QED
    BY <1>1, <2>3
<1>4. CASE i < j
  <2> DEFINE late == Share(k, i) \ {i}
             f == [p \in late |-> p - i + j - k]
  <2>1. ASSUME NEW p \in late PROVE f[p] \in Share(k, j)
    <3>1. PICK q \in Nat : p = k * q + i
      BY <1>2
    <3>2. q # 0
      BY <3>1
    <3>3. PICK r \in Nat : q = r + 1
      BY <3>2
    <3>4. k * r \in Nat /\ k * q = k * r + k
      BY <3>3, Z3
    <3>5. f[p] = k * r + j
      BY <3>1, <3>4
    <3>6. f[p] \in Nat /\ f[p] % k = j
      BY <3>5, RemainderUnique
    <3>7. f[p] <= p /\ p \in Topic
      BY <3>1, <3>4, <3>5 DEF Share
    <3> QED
      BY <3>6, <3>7, CoordinatorConstants DEF Share, Topic
  <2>2. f \in Injection(late, Share(k, j))
    <3>1. f \in [late -> Share(k, j)]
      BY <2>1
    <3>2. ASSUME NEW a \in late, NEW b \in late, f[a] = f[b] PROVE a = b
      BY <3>2, CoordinatorConstants DEF Share, Topic
    <3> QED
      BY <3>1, <3>2 DEF Injection, IsInjective
  <2>3. Cardinality(late) <= Cardinality(Share(k, j))
    <3> HIDE DEF f, late
    <3> QED
      BY <1>1, <2>2, FS_Injection
  <2>4. Cardinality(late) = IF i \in Share(k, i) THEN Cardinality(Share(k, i)) - 1 ELSE Cardinality(Share(k, i))
    <3>1. CASE i \in Share(k, i)
      BY <1>1, <3>1, FS_RemoveElement
    <3>2. CASE i \notin Share(k, i)
      <4>1. late = Share(k, i)
        BY <3>2
      <4> QED
        BY <3>2, <4>1
    <3> QED
      BY <3>1, <3>2
  <2> QED
    BY <1>1, <2>3, <2>4
<1> QED
  BY <1>3, <1>4

\* handle_join_group deals every partition to exactly one member, and fairly.
LEMMA AssignedExact ==
    ASSUME NEW S \in SUBSET Members, S # {}, NEW order \in SetToSeqs(S)
    PROVE  /\ Assigned(order) \in Assignments
           /\ DOMAIN Assigned(order) \subseteq S
           /\ \A m \in S : Entry(Assigned(order), m) \subseteq Topic
           /\ \A p \in Topic : Cardinality({m \in S : p \in Entry(Assigned(order), m)}) = 1
           /\ \A m, n \in S :
                 Cardinality(Entry(Assigned(order), m)) <= Cardinality(Entry(Assigned(order), n)) + 1
<1> DEFINE k == Cardinality(S)
<1>1. IsFiniteSet(S)
  BY FS_Subset, CoordinatorConstants
<1>2. k \in Nat \ {0}
  BY <1>1, FS_CardinalityType, FS_EmptySet
<1>3. /\ order \in [1 .. k -> S]
      /\ \A i, j \in 1 .. k : order[i] = order[j] => i = j
  BY DEF SetToSeqs
<1>4. Cardinality(1 .. k) = k
  BY <1>2, FS_Interval
<1>5. order \in Injection(1 .. k, S)
  BY <1>3 DEF Injection, IsInjective
<1>6. order \in Surjection(1 .. k, S)
  BY <1>1, <1>4, <1>5, FS_Injection
<1>7. \A m \in S : \E i \in 1 .. k : order[i] = m
  BY <1>6 DEF Surjection
<1> HIDE DEF k
<1>8. Len(order) = k
  BY <1>2, <1>3
<1>9. \A p \in Topic : Dealt(order, p) = order[(p % k) + 1] /\ p % k \in 0 .. k - 1 /\ (p % k) + 1 \in 1 .. k
  BY <1>2, <1>8, Quotient DEF Dealt, Topic
<1>10. \A p \in Topic : Dealt(order, p) \in S
  BY <1>3, <1>9
<1>11. \A m \in S : Entry(Assigned(order), m) = {p \in Topic : Dealt(order, p) = m}
  BY DEF Entry, Assigned
<1>12. DOMAIN Assigned(order) \subseteq S
  BY <1>10 DEF Assigned
<1>13. Assigned(order) \in Assignments
  <2> DEFINE owners == {Dealt(order, p) : p \in Topic}
  <2>1. Assigned(order) \in [owners -> SUBSET Topic]
    BY DEF Assigned
  <2>2. owners \in SUBSET Members
    BY <1>10
  <2> HIDE DEF owners
  <2> QED
    BY <2>1, <2>2 DEF Assignments
<1>14. ASSUME NEW p \in Topic PROVE Cardinality({m \in S : p \in Entry(Assigned(order), m)}) = 1
  <2>1. {m \in S : p \in Entry(Assigned(order), m)} = {Dealt(order, p)}
    BY <1>10, <1>11
  <2> QED
    BY <2>1, FS_Singleton
<1>15. ASSUME NEW m \in S
       PROVE  \E i \in 0 .. k - 1 : Entry(Assigned(order), m) = Share(k, i)
  <2>1. PICK i \in 1 .. k : order[i] = m
    BY <1>7
  <2>2. i - 1 \in 0 .. k - 1 /\ (i - 1) + 1 = i
    BY <1>2
  <2>3. ASSUME NEW p \in Topic PROVE Dealt(order, p) = m <=> p % k = i - 1
    BY <1>2, <1>3, <1>9, <2>1
  <2>4. Entry(Assigned(order), m) = Share(k, i - 1)
    BY <1>11, <2>3 DEF Share
  <2> QED
    BY <2>2, <2>4
<1>16. ASSUME NEW m \in S, NEW n \in S
       PROVE  Cardinality(Entry(Assigned(order), m)) <= Cardinality(Entry(Assigned(order), n)) + 1
  BY <1>2, <1>15, SharesDiffer
<1> QED
  BY <1>11, <1>12, <1>13, <1>14, <1>16

-------------------------------------------------------------------------------
(* Type correctness.                                                       *)

Counts == 0 .. MaxCommits
Joins == [joined : BOOLEAN, generation : Nat, parts : SUBSET Topic]

\* Shape of the state.  A snapshot is only due once a commit was accepted, so what is on
\* disk is always a group.
GroupTypeOK ==
    /\ group \in Groups \cup {Absent}
    /\ client \in [Members -> Joins]
    /\ commit_count \in Counts /\ snapshot_at \in Counts /\ tick \in Counts \cup {Absent}
    /\ DOMAIN snapshots \subseteq Counts
    /\ snapshots \in [DOMAIN snapshots -> [group : Groups, age : Nat]]
    /\ expected \in [Topic -> SUBSET (CommitValues \cup {Absent})]
    /\ saved \in Nat /\ restarts \in Nat
    /\ commit_count > 0 \/ tick # Absent => group # Absent

\* A restart loads a snapshot there is.
LEMMA LatestSnapshotType ==
    ASSUME GroupTypeOK, snapshots # <<>>
    PROVE  \E c \in DOMAIN snapshots : LatestSnapshot = snapshots[c]
<1>1. DOMAIN snapshots # {}
  <2> SUFFICES ASSUME DOMAIN snapshots = {} PROVE snapshots = <<>>
    OBVIOUS
  <2>1. snapshots \in [{} -> [group : Groups, age : Nat]]
    BY DEF GroupTypeOK
  <2> QED
    BY <2>1
<1>2. Max(DOMAIN snapshots) \in DOMAIN snapshots
  <2>1. MaxCommits \in Nat /\ DOMAIN snapshots \subseteq Nat /\ \A x \in DOMAIN snapshots : x <= MaxCommits
    BY CoordinatorConstants DEF GroupTypeOK, Counts
  <2> QED
    BY <1>1, <2>1, MaxOfBounded
<1> QED
  BY <1>2 DEF LatestSnapshot

\* A join leaves a group of the new generation with the partitions dealt.
LEMMA JoinFields ==
    ASSUME GroupTypeOK, NEW m \in Members, handle_join_group(m)
    PROVE  \E old, begun \in Groups :
             /\ old = IF group = Absent THEN NewGroup ELSE group
             /\ begun.committed = old.committed
             /\ \/ begun.generation = old.generation + 1 /\ old.state \in {"Empty", "Stable"}
                \/ begun.generation = old.generation /\ old.state = "PreparingRebalance"
             /\ group' \in Groups
             /\ group'.state = "Stable" /\ group'.generation = begun.generation
             /\ group'.committed = old.committed
             /\ m \in group'.members
             /\ \E order \in SetToSeqs(group'.members) : group'.assignment = Assigned(order)
             /\ \E parts \in SUBSET Topic : client' = [client EXCEPT ![m] =
                   [joined |-> TRUE, generation |-> begun.generation, parts |-> parts]]
<1> DEFINE old == IF group = Absent THEN NewGroup ELSE group
           begun == IF old.state \in {"Empty", "Stable"} THEN BeginRebalance(old) ELSE old
           S == begun.members \cup {m}
<1>1. old \in Groups
  BY NewGroupFields DEF GroupTypeOK
<1>2. old.generation < MaxGeneration
  BY DEF handle_join_group
<1>3. PICK order \in SetToSeqs(S) :
        /\ group' = [begun EXCEPT !.members = @ \cup {m}, !.state = "Stable", !.assignment = Assigned(order)]
        /\ client' = [client EXCEPT ![m] =
              [joined |-> TRUE, generation |-> begun.generation, parts |-> Entry(Assigned(order), m)]]
  BY DEF handle_join_group
<1>4. /\ begun \in Groups /\ begun.committed = old.committed
      /\ \/ begun.generation = old.generation + 1 /\ old.state \in {"Empty", "Stable"}
         \/ begun.generation = old.generation /\ old.state = "PreparingRebalance"
  <2> HIDE DEF old
  <2>1. CASE old.state \in {"Empty", "Stable"}
    BY <1>1, <1>2, <2>1, BeginRebalanceFields
  <2>2. CASE old.state = "PreparingRebalance"
    BY <1>1, <2>2
  <2> QED
    BY <1>1, <2>1, <2>2 DEF Groups
<1> HIDE DEF begun
<1>5. S \in SUBSET Members /\ m \in S
  BY <1>4 DEF Groups
<1>6. Assigned(order) \in Assignments /\ Entry(Assigned(order), m) \in SUBSET Topic
  <2> HIDE DEF S
  <2> QED
    BY <1>5, AssignedExact
<1>7. /\ group' \in Groups /\ group'.state = "Stable" /\ group'.generation = begun.generation
      /\ group'.committed = begun.committed /\ group'.members = S /\ group'.assignment = Assigned(order)
  BY <1>3, <1>4, <1>5, <1>6 DEF Groups
<1> QED
  <2> HIDE DEF old, S
  <2> old \in Groups /\ begun \in Groups
    BY <1>1, <1>4
  <2> WITNESS old \in Groups, begun \in Groups
  <2> QED
    BY <1>3, <1>4, <1>5, <1>6, <1>7 DEF old

WithOffset(g, parts, o) ==
    [g EXCEPT !.committed = [p \in Topic |-> IF p \in parts THEN o ELSE @[p]]]

\* A commit changes nothing of the group but offsets.
LEMMA CommitFields ==
    ASSUME NEW g \in Groups, NEW parts \in SUBSET Topic, NEW o \in CommitValues
    PROVE  /\ WithOffset(g, parts, o) \in Groups
           /\ WithOffset(g, parts, o).generation = g.generation
           /\ WithOffset(g, parts, o).state = g.state
           /\ WithOffset(g, parts, o).members = g.members
           /\ WithOffset(g, parts, o).assignment = g.assignment
           /\ WithOffset(g, parts, o).committed = [p \in Topic |-> IF p \in parts THEN o ELSE g.committed[p]]
BY DEF Groups, WithOffset

\* The initial state has the declared shape.
LEMMA GroupTypeInit == GroupInit => GroupTypeOK
<1> SUFFICES ASSUME GroupInit PROVE GroupTypeOK
  OBVIOUS
<1>1. Outsider \in Joins
  BY DEF Outsider, Joins
<1>2. client \in [Members -> Joins]
  BY <1>1 DEF GroupInit
<1>3. DOMAIN snapshots = {} /\ snapshots \in [{} -> [group : Groups, age : Nat]]
  BY DEF GroupInit
<1> QED
  BY <1>2, <1>3, CoordinatorConstants DEF GroupInit, GroupTypeOK, Counts

\* Every step keeps the shape.
LEMMA GroupTypeStep == GroupTypeOK /\ [GroupNext]_groupVars => GroupTypeOK'
<1> SUFFICES ASSUME GroupTypeOK, [GroupNext]_groupVars PROVE GroupTypeOK'
  OBVIOUS
<1> USE DEF coordinatorState, historyState, environment
<1>0. \A g \in Groups : g # Absent
  BY CoordinatorConstants
<1>1. ASSUME NEW m \in Members, Join(m) PROVE GroupTypeOK'
  <2>1. handle_join_group(m)
    BY <1>1 DEF Join
  <2>2. group' \in Groups /\ client' \in [Members -> Joins]
    <3>1. PICK begun \in Groups, parts \in SUBSET Topic :
             /\ group' \in Groups
             /\ client' = [client EXCEPT ![m] =
                   [joined |-> TRUE, generation |-> begun.generation, parts |-> parts]]
      BY <2>1, JoinFields
    <3>2. begun.generation \in Nat
      BY CoordinatorConstants DEF Groups
    <3> QED
      BY <3>1, <3>2 DEF GroupTypeOK, Joins
  <2> QED
    BY <1>0, <2>1, <2>2 DEF handle_join_group, GroupTypeOK
<1>2. ASSUME NEW m \in Members, handle_heartbeat(m) PROVE GroupTypeOK'
  <2>1. client' \in [Members -> Joins]
    <3>1. [client[m] EXCEPT !.joined = FALSE] \in Joins
      BY DEF GroupTypeOK, Joins
    <3>2. UNCHANGED client \/ client' = [client EXCEPT ![m].joined = FALSE]
      BY <1>2 DEF handle_heartbeat
    <3> QED
      BY <3>1, <3>2 DEF GroupTypeOK
  <2> QED
    BY <1>2, <2>1 DEF handle_heartbeat, GroupTypeOK
<1>3. ASSUME NEW m \in Members, handle_leave_group(m) PROVE GroupTypeOK'
  <2>1. group \in Groups /\ group.generation < MaxGeneration /\ group' = Departed(group, {m})
    BY <1>3 DEF handle_leave_group, GroupTypeOK
  <2>2. group' \in Groups
    BY <2>1, DepartedFields
  <2>3. client' \in [Members -> Joins]
    BY <1>3 DEF handle_leave_group, GroupTypeOK, Outsider, Joins
  <2> QED
    BY <1>0, <1>3, <2>2, <2>3 DEF handle_leave_group, GroupTypeOK
<1>4. ASSUME NEW m \in Members, FallSilent(m) PROVE GroupTypeOK'
  BY <1>4 DEF FallSilent, GroupTypeOK
<1>5. ASSUME NEW m \in Members, NEW parts \in SUBSET client[m].parts, NEW o \in CommitValues,
             handle_commit_offset(m, parts, o)
      PROVE  GroupTypeOK'
  <2>1. parts \in SUBSET Topic /\ group \in Groups
    BY <1>5 DEF handle_commit_offset, CommitAccepted, GroupTypeOK, Joins
  <2>2. group' \in Groups
    <3>1. group' = WithOffset(group, parts, o)
      BY <1>5 DEF handle_commit_offset, WithOffset
    <3> QED
      BY <2>1, <3>1, CommitFields
  <2>3. Cardinality(parts) \in Nat
    BY <2>1, SharesFinite
  <2>4. commit_count' \in Counts
    BY <1>5, <2>3, CoordinatorConstants DEF handle_commit_offset, GroupTypeOK, Counts
  <2>5. expected' \in [Topic -> SUBSET (CommitValues \cup {Absent})]
    BY <1>5 DEF handle_commit_offset, GroupTypeOK
  <2> QED
    BY <1>0, <1>5, <2>2, <2>4, <2>5 DEF handle_commit_offset, GroupTypeOK
<1>6. ASSUME NEW m \in Members, NEW parts \in SUBSET client[m].parts, NEW o \in CommitValues,
             NEW applied \in SUBSET parts, CommitFails(m, parts, applied, o)
      PROVE  GroupTypeOK'
  <2>1. applied \in SUBSET Topic /\ group \in Groups
    BY <1>6 DEF CommitFails, CommitAccepted, GroupTypeOK, Joins
  <2>2. group' \in Groups
    <3>1. group' = WithOffset(group, applied, o)
      BY <1>6 DEF CommitFails, WithOffset
    <3> QED
      BY <2>1, <3>1, CommitFields
  <2>3. expected' \in [Topic -> SUBSET (CommitValues \cup {Absent})]
    BY <1>6 DEF CommitFails, GroupTypeOK
  <2> QED
    BY <1>0, <1>6, <2>2, <2>3 DEF CommitFails, GroupTypeOK
<1>7. CASE Reap
  <2>1. group \in Groups /\ group.generation < MaxGeneration /\ group' = Departed(group, silent)
    BY <1>7 DEF Reap, GroupTypeOK
  <2>2. group' \in Groups
    BY <2>1, DepartedFields
  <2> QED
    BY <1>0, <1>7, <2>2 DEF Reap, GroupTypeOK
<1>8. CASE SnapshotTick
  <2>1. commit_count > 0
    BY <1>8, CoordinatorConstants DEF SnapshotTick, GroupTypeOK, Counts
  <2> QED
    BY <1>8, <2>1 DEF SnapshotTick, GroupTypeOK
<1>9. CASE SaveSnapshot
  <2>1. tick \in Counts /\ group \in Groups
    BY <1>9 DEF SaveSnapshot, GroupTypeOK
  <2>2. saved' \in Nat
    BY <1>9 DEF SaveSnapshot, GroupTypeOK
  <2>3. DOMAIN snapshots' \subseteq Counts /\ snapshots' \in [DOMAIN snapshots' -> [group : Groups, age : Nat]]
    <3> DEFINE all == [c \in DOMAIN snapshots \cup {tick} |->
                        IF c = tick THEN [group |-> group, age |-> saved + 1] ELSE snapshots[c]]
    <3>1. DOMAIN all \subseteq Counts /\ \A c \in DOMAIN all : all[c] \in [group : Groups, age : Nat]
      BY <2>1 DEF GroupTypeOK
    <3>2. snapshots' = Restrict(all, KeepHighest(DOMAIN all)) \/ UNCHANGED snapshots
      BY <1>9 DEF SaveSnapshot
    <3>3. KeepHighest(DOMAIN all) \subseteq DOMAIN all
      BY DEF KeepHighest
    <3> HIDE DEF all
    <3>4. CASE snapshots' = Restrict(all, KeepHighest(DOMAIN all))
      BY <3>1, <3>3, <3>4 DEF Restrict
    <3>5. CASE UNCHANGED snapshots
      BY <3>5 DEF GroupTypeOK
    <3> QED
      BY <3>2, <3>4, <3>5
  <2> QED
    BY <1>0, <1>9, <2>1, <2>2, <2>3 DEF SaveSnapshot, GroupTypeOK
<1>10. CASE Restart
  <2>1. group' \in Groups \cup {Absent}
    BY <1>10, LatestSnapshotType DEF Restart, GroupTypeOK
  <2>2. restarts' \in Nat /\ 0 \in Counts
    BY <1>10, CoordinatorConstants DEF Restart, GroupTypeOK, Counts
  <2> QED
    BY <1>10, <2>1, <2>2 DEF Restart, GroupTypeOK
<1>11. CASE UNCHANGED groupVars
  BY <1>11 DEF groupVars, GroupTypeOK
<1> QED
  BY <1>1, <1>2, <1>3, <1>4, <1>5, <1>6, <1>7, <1>8, <1>9, <1>10, <1>11 DEF GroupNext, Member

\* The state of the coordinator, its members and its snapshots keeps its shape.
THEOREM GroupTyped == GroupSpec => []GroupTypeOK
BY GroupTypeInit, GroupTypeStep, PTL DEF GroupSpec

-------------------------------------------------------------------------------
(* What a step does to the group.                                          *)

\* Between restarts, a step lets a member join, makes members depart, applies offsets, or
\* leaves the group alone; each comes with what happens to the members' views.
LEMMA GroupSteps ==
    ASSUME GroupTypeOK, [GroupNext]_groupVars, restarts' = restarts
    PROVE  \/ \E m \in Members : handle_join_group(m)
           \/ /\ group \in Groups /\ group.generation < MaxGeneration
              /\ \E gone : group' = Departed(group, gone)
              /\ \/ UNCHANGED client
                 \/ \E m \in Members : client' = [client EXCEPT ![m] = Outsider]
              /\ UNCHANGED expected
           \/ /\ group \in Groups /\ UNCHANGED client
              /\ \E parts, applied \in SUBSET Topic, o \in CommitValues :
                    /\ group' = WithOffset(group, applied, o)
                    /\ \A p \in Topic :
                          /\ p \notin parts => expected'[p] = expected[p]
                          /\ p \in applied => o \in expected'[p]
                          /\ p \in parts \ applied => expected[p] \subseteq expected'[p]
           \/ /\ UNCHANGED <<group, expected>>
              /\ \A m \in Members :
                    client'[m].generation = client[m].generation /\ client'[m].parts = client[m].parts
<1> USE DEF coordinatorState, historyState, environment
<1>1. ASSUME NEW m \in Members, Join(m) PROVE handle_join_group(m)
  BY <1>1 DEF Join
<1>2. ASSUME NEW m \in Members, handle_heartbeat(m)
      PROVE  /\ UNCHANGED <<group, expected>>
             /\ \A n \in Members :
                   client'[n].generation = client[n].generation /\ client'[n].parts = client[n].parts
  BY <1>2 DEF handle_heartbeat, GroupTypeOK, Joins
<1>3. ASSUME NEW m \in Members, handle_leave_group(m)
      PROVE  /\ group \in Groups /\ group.generation < MaxGeneration
             /\ group' = Departed(group, {m})
             /\ client' = [client EXCEPT ![m] = Outsider]
             /\ UNCHANGED expected
  BY <1>3 DEF handle_leave_group, GroupTypeOK
<1>4. ASSUME Reap
      PROVE  /\ group \in Groups /\ group.generation < MaxGeneration
             /\ group' = Departed(group, silent)
             /\ UNCHANGED <<client, expected>>
  BY <1>4 DEF Reap, GroupTypeOK
<1>5. ASSUME NEW m \in Members, NEW parts \in SUBSET client[m].parts, NEW o \in CommitValues,
             handle_commit_offset(m, parts, o)
      PROVE  /\ group \in Groups /\ UNCHANGED client
             /\ parts \in SUBSET Topic
             /\ group' = WithOffset(group, parts, o)
             /\ \A p \in Topic :
                   /\ p \notin parts => expected'[p] = expected[p]
                   /\ p \in parts => o \in expected'[p]
  BY <1>5 DEF handle_commit_offset, CommitAccepted, WithOffset, GroupTypeOK, Joins
<1>6. ASSUME NEW m \in Members, NEW parts \in SUBSET client[m].parts, NEW o \in CommitValues,
             NEW applied \in SUBSET parts, CommitFails(m, parts, applied, o)
      PROVE  /\ group \in Groups /\ UNCHANGED client
             /\ parts \in SUBSET Topic /\ applied \in SUBSET Topic
             /\ group' = WithOffset(group, applied, o)
             /\ \A p \in Topic :
                   /\ p \notin parts => expected'[p] = expected[p]
                   /\ p \in applied => o \in expected'[p]
                   /\ p \in parts \ applied => expected[p] \subseteq expected'[p]
  BY <1>6 DEF CommitFails, CommitAccepted, WithOffset, GroupTypeOK, Joins
<1>7. ASSUME UNCHANGED <<group, client, expected>>
      PROVE  /\ UNCHANGED <<group, expected>>
             /\ \A m \in Members :
                   client'[m].generation = client[m].generation /\ client'[m].parts = client[m].parts
  BY <1>7
<1>8. ~Restart
  BY DEF Restart, GroupTypeOK
<1>9. \/ \E m \in Members : Join(m) \/ handle_heartbeat(m) \/ handle_leave_group(m)
      \/ \E m \in Members : \E parts \in SUBSET client[m].parts, o \in CommitValues :
            \/ handle_commit_offset(m, parts, o)
            \/ \E applied \in SUBSET parts : CommitFails(m, parts, applied, o)
      \/ Reap
      \/ UNCHANGED <<group, client, expected>>
  BY <1>8 DEF GroupNext, Member, FallSilent, SnapshotTick, SaveSnapshot, groupVars
<1> DEFINE Departing ==
              /\ group \in Groups /\ group.generation < MaxGeneration
              /\ \E gone : group' = Departed(group, gone)
              /\ \/ UNCHANGED client
                 \/ \E m \in Members : client' = [client EXCEPT ![m] = Outsider]
              /\ UNCHANGED expected
           Committing ==
              /\ group \in Groups /\ UNCHANGED client
              /\ \E parts, applied \in SUBSET Topic, o \in CommitValues :
                    /\ group' = WithOffset(group, applied, o)
                    /\ \A p \in Topic :
                          /\ p \notin parts => expected'[p] = expected[p]
                          /\ p \in applied => o \in expected'[p]
                          /\ p \in parts \ applied => expected[p] \subseteq expected'[p]
<1>10. ASSUME NEW m \in Members, handle_leave_group(m) PROVE Departing
  BY <1>3, <1>10
<1>11. ASSUME Reap PROVE Departing
  BY <1>4, <1>11
<1>12. ASSUME NEW m \in Members, NEW parts \in SUBSET client[m].parts, NEW o \in CommitValues,
              handle_commit_offset(m, parts, o)
       PROVE  Committing
  <2>1. \A p \in Topic :
           /\ p \notin parts => expected'[p] = expected[p]
           /\ p \in parts => o \in expected'[p]
           /\ p \in parts \ parts => expected[p] \subseteq expected'[p]
    BY <1>5, <1>12
  <2> QED
    BY <1>5, <1>12, <2>1
<1>13. ASSUME NEW m \in Members, NEW parts \in SUBSET client[m].parts, NEW o \in CommitValues,
              NEW applied \in SUBSET parts, CommitFails(m, parts, applied, o)
       PROVE  Committing
  <2>1. /\ group \in Groups /\ UNCHANGED client
        /\ parts \in SUBSET Topic /\ applied \in SUBSET Topic
        /\ group' = WithOffset(group, applied, o)
        /\ \A p \in Topic :
              /\ p \notin parts => expected'[p] = expected[p]
              /\ p \in applied => o \in expected'[p]
              /\ p \in parts \ applied => expected[p] \subseteq expected'[p]
    BY <1>6, <1>13
  <2> QED
    BY <2>1
<1> HIDE DEF Departing, Committing
<1>14. \/ \E m \in Members : handle_join_group(m)
       \/ Departing \/ Committing
       \/ /\ UNCHANGED <<group, expected>>
          /\ \A m \in Members :
                client'[m].generation = client[m].generation /\ client'[m].parts = client[m].parts
  BY <1>1, <1>2, <1>7, <1>9, <1>10, <1>11, <1>12, <1>13
<1> QED
  BY <1>14 DEF Departing, Committing

\* Only a restart of the broker counts as one.
LEMMA RestartsCounted ==
    ASSUME GroupTypeOK, [GroupNext]_groupVars
    PROVE  UNCHANGED restarts \/ Restart
<1> USE DEF environment
<1>1. ASSUME NEW m \in Members, Member(m) PROVE UNCHANGED restarts
  BY <1>1 DEF Member, Join, handle_join_group, handle_heartbeat
<1>2. ASSUME NEW m \in Members, handle_leave_group(m) \/ FallSilent(m) PROVE UNCHANGED restarts
  BY <1>2 DEF handle_leave_group, FallSilent
<1>3. ASSUME NEW m \in Members, NEW parts, NEW o, handle_commit_offset(m, parts, o) PROVE UNCHANGED restarts
  BY <1>3 DEF handle_commit_offset
<1>4. ASSUME NEW m \in Members, NEW parts, NEW applied, NEW o, CommitFails(m, parts, applied, o)
      PROVE  UNCHANGED restarts
  BY <1>4 DEF CommitFails
<1>5. CASE Reap \/ SnapshotTick \/ SaveSnapshot
  BY <1>5 DEF Reap, SnapshotTick, SaveSnapshot
<1>6. CASE UNCHANGED groupVars
  BY <1>6 DEF groupVars
<1> QED
  BY <1>1, <1>2, <1>3, <1>4, <1>5, <1>6 DEF GroupNext

-------------------------------------------------------------------------------
(* The generation fences earlier owners.                                   *)

\* No member is ahead of the group, none has joined the generation that is being prepared,
\* and at most one member holds partitions of the current generation.
GenerationFences ==
    restarts = 0 =>
        /\ \A m \in Members :
              client[m].generation <= (IF group = Absent THEN 0 ELSE group.generation)
        /\ group # Absent /\ group.state = "PreparingRebalance" =>
              \A m \in Members : client[m].generation < group.generation
        /\ \A m, n \in Members :
              /\ group # Absent
              /\ client[m].generation = group.generation /\ client[m].parts # {}
              /\ client[n].generation = group.generation /\ client[n].parts # {}
              => m = n

\* Every step keeps the fences.
LEMMA GenerationFencesStep ==
    ASSUME GroupTypeOK, GenerationFences, [GroupNext]_groupVars
    PROVE  GenerationFences'
<1>0. GroupTypeOK'
  BY GroupTypeStep
<1>a. \A g \in Groups : g # Absent /\ g.generation \in Nat
  BY CoordinatorConstants DEF Groups
<1>b. \A m \in Members : client[m].generation \in Nat /\ client'[m].generation \in Nat
  BY <1>0 DEF GroupTypeOK, Joins
<1> SUFFICES ASSUME restarts' = 0 PROVE GenerationFences'
  BY DEF GenerationFences
<1>c. restarts = 0 /\ UNCHANGED restarts
  BY RestartsCounted DEF Restart, GroupTypeOK
<1>1. ASSUME NEW m \in Members, handle_join_group(m) PROVE GenerationFences'
  <2>1. PICK old \in Groups, begun \in Groups, parts \in SUBSET Topic :
             /\ old = IF group = Absent THEN NewGroup ELSE group
             /\ \/ begun.generation = old.generation + 1 /\ old.state \in {"Empty", "Stable"}
                \/ begun.generation = old.generation /\ old.state = "PreparingRebalance"
             /\ group' \in Groups
             /\ group'.state = "Stable" /\ group'.generation = begun.generation
             /\ client' = [client EXCEPT ![m] =
                   [joined |-> TRUE, generation |-> begun.generation, parts |-> parts]]
    BY <1>1, JoinFields
  <2>2. \A n \in Members : client[n].generation < begun.generation
    <3>1. CASE group = Absent
      BY <1>b, <1>c, <2>1, <3>1, NewGroupFields DEF GenerationFences
    <3>2. CASE group # Absent
      BY <1>a, <1>b, <1>c, <2>1, <3>2 DEF GenerationFences
    <3> QED
      BY <3>1, <3>2
  <2>3. client'[m].generation = begun.generation /\ \A n \in Members \ {m} : client'[n] = client[n]
    BY <2>1 DEF GroupTypeOK
  <2> QED
    BY <1>a, <1>b, <2>1, <2>2, <2>3 DEF GenerationFences
<1>2. ASSUME group \in Groups, group.generation < MaxGeneration,
             NEW gone, group' = Departed(group, gone),
             \/ UNCHANGED client
             \/ \E m \in Members : client' = [client EXCEPT ![m] = Outsider]
      PROVE  GenerationFences'
  <2>1. \A n \in Members :
           \/ client'[n] = client[n]
           \/ client'[n].generation = 0 /\ client'[n].parts = {}
    BY <1>2 DEF GroupTypeOK, Outsider
  <2>2. /\ group' \in Groups
        /\ \/ group'.state = "Empty" /\ group'.generation = group.generation
           \/ group'.state = "PreparingRebalance" /\ group'.generation = group.generation + 1
    BY <1>2, DepartedFields
  <2> QED
    BY <1>2, <1>a, <1>b, <1>c, <2>1, <2>2 DEF GenerationFences
<1>3. ASSUME group \in Groups, UNCHANGED client,
             NEW applied \in SUBSET Topic, NEW o \in CommitValues, group' = WithOffset(group, applied, o)
      PROVE  GenerationFences'
  <2>1. group' \in Groups /\ group'.generation = group.generation /\ group'.state = group.state
    BY <1>3, CommitFields, ZenonT(90)
  <2> QED
    BY <1>3, <1>a, <1>c, <2>1 DEF GenerationFences
<1>4. ASSUME UNCHANGED group,
             \A m \in Members :
                client'[m].generation = client[m].generation /\ client'[m].parts = client[m].parts
      PROVE  GenerationFences'
  BY <1>4, <1>c DEF GenerationFences
<1> QED
  BY <1>1, <1>2, <1>3, <1>4, <1>c, GroupSteps

\* Until the broker restarts, the coordinator would at no time accept a commit of one
\* partition from two members, however many members, generations and departures there are.
THEOREM OneCommitter == GroupSpec => []OneCommitterPerPartition
<1>1. GroupInit => GenerationFences
  BY DEF GroupInit, GenerationFences, Outsider
<1>2. GroupTypeOK /\ GenerationFences /\ [GroupNext]_groupVars => GenerationFences'
  BY GenerationFencesStep
<1>3. GenerationFences => OneCommitterPerPartition
  BY DEF GenerationFences, OneCommitterPerPartition, CommitAccepted
<1> QED
  BY <1>1, <1>2, <1>3, GroupTyped, PTL DEF GroupSpec

-------------------------------------------------------------------------------
(* Acknowledged offsets are kept.                                          *)

\* No join, departure, eviction or failing commit changes an acknowledged offset.
LEMMA CommittedKeptStep ==
    ASSUME GroupTypeOK, CommittedOffsetKept, [GroupNext]_groupVars
    PROVE  CommittedOffsetKept'
<1>a. \A g \in Groups : g # Absent
  BY CoordinatorConstants
<1> SUFFICES ASSUME restarts' = 0, NEW p \in Topic PROVE Committed(p)' \in expected'[p]
  BY DEF CommittedOffsetKept
<1>c. restarts = 0 /\ UNCHANGED restarts
  BY RestartsCounted DEF Restart, GroupTypeOK
<1>d. Committed(p) \in expected[p]
  BY <1>c DEF CommittedOffsetKept
<1>1. ASSUME NEW m \in Members, handle_join_group(m) PROVE Committed(p)' \in expected'[p]
  <2>1. PICK old \in Groups :
             /\ old = IF group = Absent THEN NewGroup ELSE group
             /\ group' \in Groups /\ group'.committed = old.committed
    BY <1>1, JoinFields
  <2>2. UNCHANGED expected
    BY <1>1 DEF handle_join_group, historyState
  <2>3. old.committed[p] = Committed(p)
    <3>1. CASE group = Absent
      BY <2>1, <3>1, NewGroupFields DEF Committed
    <3>2. CASE group # Absent
      BY <2>1, <3>2 DEF Committed
    <3> QED
      BY <3>1, <3>2
  <2> QED
    BY <1>a, <1>d, <2>1, <2>2, <2>3 DEF Committed
<1>2. ASSUME group \in Groups, group.generation < MaxGeneration,
             NEW gone, group' = Departed(group, gone), UNCHANGED expected
      PROVE  Committed(p)' \in expected'[p]
  <2>1. group' \in Groups /\ group'.committed = group.committed
    BY <1>2, DepartedFields
  <2> QED
    BY <1>2, <1>a, <1>d, <2>1 DEF Committed
<1>3. ASSUME group \in Groups,
             NEW parts \in SUBSET Topic, NEW applied \in SUBSET Topic, NEW o \in CommitValues,
             group' = WithOffset(group, applied, o),
             /\ p \notin parts => expected'[p] = expected[p]
             /\ p \in applied => o \in expected'[p]
             /\ p \in parts \ applied => expected[p] \subseteq expected'[p]
      PROVE  Committed(p)' \in expected'[p]
  <2>1. /\ group' \in Groups
        /\ group'.committed = [q \in Topic |-> IF q \in applied THEN o ELSE group.committed[q]]
    BY <1>3, CommitFields, ZenonT(90)
  <2> QED
    BY <1>3, <1>a, <1>d, <2>1 DEF Committed
<1>4. ASSUME UNCHANGED <<group, expected>> PROVE Committed(p)' \in expected'[p]
  BY <1>4, <1>d DEF Committed
<1> QED
  BY <1>1, <1>2, <1>3, <1>4, <1>c, GroupSteps

\* Until the broker restarts, a fetch returns the offset whose commit was acknowledged
\* last, or one whose commit failed since, whatever rebalances came in between.
THEOREM OffsetsKept == GroupSpec => []CommittedOffsetKept
<1>1. GroupInit => CommittedOffsetKept
  BY DEF GroupInit, CommittedOffsetKept, Committed
<1>2. GroupTypeOK /\ CommittedOffsetKept /\ [GroupNext]_groupVars => CommittedOffsetKept'
  BY CommittedKeptStep
<1> QED
  BY <1>1, <1>2, GroupTyped, PTL DEF GroupSpec

-------------------------------------------------------------------------------
(* The assignment of a stable group.                                       *)

\* A stable group was left by a join, which dealt the partitions to its members.
WellDealt(g) ==
    g.state = "Stable" =>
        g.members # {} /\ \E order \in SetToSeqs(g.members) : g.assignment = Assigned(order)

\* So were the groups on disk: a restart brings back what was stable when it was saved.
AllWellDealt ==
    /\ group # Absent => WellDealt(group)
    /\ \A c \in DOMAIN snapshots : WellDealt(snapshots[c].group)

\* The snapshots on disk stay well dealt.
LEMMA SnapshotsWellDealtStep ==
    ASSUME GroupTypeOK, AllWellDealt, [GroupNext]_groupVars
    PROVE  \A c \in DOMAIN snapshots' : WellDealt(snapshots'[c].group)
<1> USE DEF coordinatorState
<1>1. CASE SaveSnapshot
  <2> DEFINE all == [c \in DOMAIN snapshots \cup {tick} |->
                      IF c = tick THEN [group |-> group, age |-> saved + 1] ELSE snapshots[c]]
  <2>1. group # Absent
    BY <1>1 DEF SaveSnapshot, GroupTypeOK
  <2>2. \A c \in DOMAIN all : WellDealt(all[c].group)
    BY <2>1 DEF AllWellDealt
  <2>3. snapshots' = Restrict(all, KeepHighest(DOMAIN all)) \/ UNCHANGED snapshots
    BY <1>1 DEF SaveSnapshot
  <2>4. KeepHighest(DOMAIN all) \subseteq DOMAIN all
    BY DEF KeepHighest
  <2> HIDE DEF all
  <2>5. CASE snapshots' = Restrict(all, KeepHighest(DOMAIN all))
    BY <2>2, <2>4, <2>5 DEF Restrict
  <2>6. CASE UNCHANGED snapshots
    BY <2>6 DEF AllWellDealt
  <2> QED
    BY <2>3, <2>5, <2>6
<1>2. CASE UNCHANGED snapshots
  BY <1>2 DEF AllWellDealt
<1>3. ASSUME NEW m \in Members, Member(m) PROVE UNCHANGED snapshots
  BY <1>3 DEF Member, Join, handle_join_group, handle_heartbeat
<1>4. ASSUME NEW m \in Members, handle_leave_group(m) \/ FallSilent(m) PROVE UNCHANGED snapshots
  BY <1>4 DEF handle_leave_group, FallSilent
<1>5. ASSUME NEW m \in Members, NEW parts, NEW o, handle_commit_offset(m, parts, o) PROVE UNCHANGED snapshots
  BY <1>5 DEF handle_commit_offset
<1>6. ASSUME NEW m \in Members, NEW parts, NEW applied, NEW o, CommitFails(m, parts, applied, o)
      PROVE  UNCHANGED snapshots
  BY <1>6 DEF CommitFails
<1>7. CASE Reap \/ SnapshotTick \/ Restart
  BY <1>2, <1>7 DEF Reap, SnapshotTick, Restart
<1>8. CASE UNCHANGED groupVars
  BY <1>2, <1>8 DEF groupVars
<1> QED
  BY <1>1, <1>2, <1>3, <1>4, <1>5, <1>6, <1>7, <1>8 DEF GroupNext

\* The group stays well dealt.
LEMMA GroupWellDealtStep ==
    ASSUME GroupTypeOK, AllWellDealt, [GroupNext]_groupVars, group' # Absent
    PROVE  WellDealt(group')
<1>1. ASSUME NEW m \in Members, handle_join_group(m) PROVE WellDealt(group')
  <2>1. /\ m \in group'.members
        /\ \E order \in SetToSeqs(group'.members) : group'.assignment = Assigned(order)
    BY <1>1, JoinFields
  <2> QED
    BY <2>1 DEF WellDealt
<1>2. ASSUME group \in Groups, group.generation < MaxGeneration,
             NEW gone, group' = Departed(group, gone)
      PROVE  WellDealt(group')
  BY <1>2, DepartedFields DEF WellDealt
<1>3. ASSUME group \in Groups,
             NEW applied \in SUBSET Topic, NEW o \in CommitValues, group' = WithOffset(group, applied, o)
      PROVE  WellDealt(group')
  <2>1. /\ group'.state = group.state /\ group'.members = group.members
        /\ group'.assignment = group.assignment
    BY <1>3, CommitFields, ZenonT(90)
  <2>2. WellDealt(group)
    BY <1>3, CoordinatorConstants DEF AllWellDealt
  <2> QED
    BY <2>1, <2>2 DEF WellDealt
<1>4. ASSUME UNCHANGED group PROVE WellDealt(group')
  BY <1>4 DEF AllWellDealt
<1>5. CASE Restart
  <2>1. snapshots # <<>> /\ group' = LatestSnapshot.group
    BY <1>5 DEF Restart
  <2>2. PICK c \in DOMAIN snapshots : LatestSnapshot = snapshots[c]
    BY <2>1, LatestSnapshotType
  <2> QED
    BY <2>1, <2>2 DEF AllWellDealt
<1>6. CASE UNCHANGED restarts
  BY <1>1, <1>2, <1>3, <1>4, <1>6, GroupSteps
<1> QED
  BY <1>5, <1>6, RestartsCounted

\* While the group is stable every partition has exactly one owner among its members and
\* shares differ by at most one, for any number of members and partitions, restarts from
\* any snapshot included.
THEOREM AssignmentExact == GroupSpec => []StableAssignmentExact
<1>1. GroupInit => AllWellDealt
  BY DEF GroupInit, AllWellDealt
<1>2. GroupTypeOK /\ AllWellDealt /\ [GroupNext]_groupVars => AllWellDealt'
  BY SnapshotsWellDealtStep, GroupWellDealtStep DEF AllWellDealt
<1>3. GroupTypeOK /\ AllWellDealt => StableAssignmentExact
  <2> SUFFICES ASSUME GroupTypeOK, AllWellDealt, group # Absent, group.state = "Stable"
               PROVE  StableAssignmentExact
    BY DEF StableAssignmentExact
  <2>1. group.members \in SUBSET Members
    BY DEF GroupTypeOK, Groups
  <2>2. group.members # {}
    BY DEF AllWellDealt, WellDealt
  <2>3. PICK order \in SetToSeqs(group.members) : group.assignment = Assigned(order)
    BY DEF AllWellDealt, WellDealt
  <2> QED
    BY <2>1, <2>2, <2>3, AssignedExact DEF StableAssignmentExact
<1> QED
  BY <1>1, <1>2, <1>3, GroupTyped, PTL DEF GroupSpec

===============================================================================
