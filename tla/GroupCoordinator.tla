--------------------------- MODULE GroupCoordinator ---------------------------
(***************************************************************************)
(* The consumer-group coordinator (src/src/consumer_group/coordinator.rs)  *)
(* with its snapshots (src/src/consumer_group/snapshot.rs), for one group  *)
(* whose members all subscribe to one topic.  Every handler runs under the *)
(* write lock of the groups map, so it is one atomic action; what          *)
(* interleaves are the requests of members acting on what their last join  *)
(* told them, the reaper, the snapshot task and restarts of the broker.    *)
(*                                                                         *)
(* Members (external) follow the protocol: they commit under the           *)
(* generation they joined with and join again when a heartbeat is refused. *)
(***************************************************************************)
EXTENDS Naturals, FiniteSets, SequencesExt, Functions

CONSTANTS
    Members,        \* consumers
    PartitionCount, \* partitions of the topic
    CommitValues,   \* offsets a member may commit
    Absent,         \* the group does not exist; no offset is committed
    SnapshotEvery,  \* commits between snapshots (10_000 in the code)
    GenerationModulus, \* generation_id is a u64: 2^64 in the code
    MaxGeneration,  \* bound on generations
    MaxCommits,     \* bound on commits since the last start
    MaxRestarts,    \* bound on restarts of the broker
    MaxWalErrors,   \* bound on failing appends of offset records
    MaxDepartures   \* bound on members leaving or falling silent

Topic == 0 .. PartitionCount - 1

\* ConsumerGroupState: the generation, the members, who owns what and the offsets.
Assignments == UNION {[owners -> SUBSET Topic] : owners \in SUBSET Members}
Groups ==
    [generation : 0 .. MaxGeneration, members : SUBSET Members,
     state : {"Empty", "PreparingRebalance", "Stable"}, assignment : Assignments,
     committed : [Topic -> CommitValues \cup {Absent}]]

\* Within the bound the generation does not come round again: 2^64 rebalances do not happen.
ASSUME CoordinatorConstants ==
    /\ PartitionCount \in Nat /\ SnapshotEvery \in Nat \ {0} /\ GenerationModulus \in Nat \ {0}
    /\ MaxGeneration \in Nat /\ MaxCommits \in Nat /\ MaxRestarts \in Nat
    /\ MaxGeneration < GenerationModulus
    /\ IsFiniteSet(Members)
    /\ Absent \notin Nat /\ Absent \notin Groups

VARIABLES
    group,        \* ConsumerGroupState, or Absent
    silent,       \* members whose last heartbeat is older than the session timeout
    client,       \* [Members -> what the member's last join told it]
    commit_count, \* commits since the start
    snapshot_at,  \* last_snapshot_commit of the snapshot task
    tick,         \* current_commits the snapshot task has read, or Absent
    snapshots,    \* on disk: [commit count -> [group, age]]
    expected,     \* history: [Topic -> the last offset whose commit was answered 0 and
                  \* the ones whose commit was answered with an error since]
    saved,        \* history: snapshots taken so far
    recovered,    \* history: age of the snapshot the last restart loaded, or Absent
    restarts, departures, walErrors

coordinatorState == <<group, commit_count, snapshot_at, tick>>
historyState == <<expected, saved, recovered>>
environment == <<restarts, departures, walErrors>>
groupVars == <<coordinatorState, silent, client, snapshots, historyState, environment>>

NewGroup ==
    [generation |-> 0, members |-> {}, state |-> "Empty", assignment |-> <<>>,
     committed |-> [p \in Topic |-> Absent]]
Outsider == [joined |-> FALSE, generation |-> 0, parts |-> {}]

GroupInit ==
    /\ group = Absent
    /\ silent = {}
    /\ client = [m \in Members |-> Outsider]
    /\ commit_count = 0 /\ snapshot_at = 0 /\ tick = Absent
    /\ snapshots = <<>>
    /\ expected = [p \in Topic |-> {Absent}] /\ saved = 0 /\ recovered = Absent
    /\ restarts = 0 /\ departures = 0 /\ walErrors = 0

-------------------------------------------------------------------------------
(* The steps the handlers and the reaper share.                            *)
\* Mutant: the generation stays.
BeginRebalance_SameGeneration(g) ==
    [g EXCEPT !.state = "PreparingRebalance", !.assignment = <<>>]

\* PreparingRebalance: a new generation, nobody owns anything.
BeginRebalance(g) ==
    [g EXCEPT !.state = "PreparingRebalance", !.generation = (@ + 1) % GenerationModulus,
              !.assignment = <<>>]
\* Mutants: a departure does not rebalance; a group that empties loses its offsets.
Departed_NoRebalance(g, gone) == [g EXCEPT !.members = @ \ gone]

Departed_DropsOffsets(g, gone) ==
    LET rest == [g EXCEPT !.members = @ \ gone]
    IN  IF rest.members = {} THEN [NewGroup EXCEPT !.generation = g.generation]
        ELSE BeginRebalance(rest)

\* Members are gone: the group is empty, or it rebalances.
Departed(g, gone) ==
    LET rest == [g EXCEPT !.members = @ \ gone]
    IN  IF rest.members = {} THEN [rest EXCEPT !.state = "Empty"] ELSE BeginRebalance(rest)

\* Partitions are dealt round robin to the members, in the order the map lists them.
Dealt(order, p) == order[(p % Len(order)) + 1]
Assigned(order) ==
    [m \in {Dealt(order, p) : p \in Topic} |-> {p \in Topic : Dealt(order, p) = m}]

Entry(f, m) == IF m \in DOMAIN f THEN f[m] ELSE {}

-------------------------------------------------------------------------------
handle_join_group(m) ==
    LET old == IF group = Absent THEN NewGroup ELSE group
        begun == IF old.state \in {"Empty", "Stable"} THEN BeginRebalance(old) ELSE old
    IN  /\ old.generation < MaxGeneration
        /\ \E order \in SetToSeqs(begun.members \cup {m}) :
              /\ group' = [begun EXCEPT !.members = @ \cup {m}, !.state = "Stable",
                                        !.assignment = Assigned(order)]
              /\ client' = [client EXCEPT ![m] =
                    [joined |-> TRUE, generation |-> begun.generation,
                     parts |-> Entry(Assigned(order), m)]]
        /\ silent' = silent \ {m}
        /\ UNCHANGED <<commit_count, snapshot_at, tick, snapshots, historyState, environment>>

Join(m) == ~client[m].joined /\ handle_join_group(m)

HeartbeatAccepted(m) ==
    /\ group # Absent
    /\ group.state # "PreparingRebalance"
    /\ group.generation = client[m].generation
    /\ m \in group.members

\* Error codes 16, 22, 25 and 27 all send the member back to join.
handle_heartbeat(m) ==
    /\ client[m].joined
    /\ IF HeartbeatAccepted(m)
       THEN silent' = silent \ {m} /\ UNCHANGED client
       ELSE client' = [client EXCEPT ![m].joined = FALSE] /\ UNCHANGED silent
    /\ UNCHANGED <<coordinatorState, snapshots, historyState, environment>>

handle_leave_group(m) ==
    /\ client[m].joined /\ group # Absent
    /\ group.generation < MaxGeneration
    /\ departures < MaxDepartures /\ departures' = departures + 1
    /\ group' = Departed(group, {m})
    /\ client' = [client EXCEPT ![m] = Outsider]
    /\ UNCHANGED <<silent, commit_count, snapshot_at, tick, snapshots, historyState, restarts, walErrors>>

\* The session timeout passes without a heartbeat of this member.
FallSilent(m) ==
    /\ group # Absent /\ m \in group.members \ silent
    /\ departures < MaxDepartures /\ departures' = departures + 1
    /\ silent' = silent \cup {m}
    /\ UNCHANGED <<coordinatorState, client, snapshots, historyState, restarts, walErrors>>

Reap ==
    /\ group # Absent /\ group.state # "Empty"
    /\ group.members \cap silent # {}
    /\ group.generation < MaxGeneration
    /\ group' = Departed(group, silent)
    /\ UNCHANGED <<silent, client, commit_count, snapshot_at, tick, snapshots, historyState, environment>>

\* The generation is all that is checked.
CommitAccepted(m) == group # Absent /\ group.generation = client[m].generation

\* A commit of partitions the member believes it owns: each offset is persisted, then
\* applied, in the order the request map lists them; the request is answered 0.
handle_commit_offset(m, parts, o) ==
    /\ CommitAccepted(m)
    /\ commit_count + Cardinality(parts) <= MaxCommits
    /\ commit_count' = commit_count + Cardinality(parts)
    /\ group' = [group EXCEPT !.committed = [p \in Topic |-> IF p \in parts THEN o ELSE @[p]]]
    /\ expected' = [p \in Topic |-> IF p \in parts THEN {o} ELSE expected[p]]
    /\ UNCHANGED <<silent, client, snapshot_at, tick, snapshots, saved, recovered, environment>>

\* An append fails: the offsets of applied stay, the request is answered 1 and
\* nothing is counted.
CommitFails(m, parts, applied, o) ==
    /\ CommitAccepted(m)
    /\ walErrors < MaxWalErrors /\ walErrors' = walErrors + 1
    /\ group' = [group EXCEPT !.committed = [p \in Topic |-> IF p \in applied THEN o ELSE @[p]]]
    /\ expected' = [p \in Topic |-> IF p \in parts THEN expected[p] \cup {o} ELSE expected[p]]
    /\ UNCHANGED <<silent, client, commit_count, snapshot_at, tick, snapshots, saved, recovered,
                   restarts, departures>>

-------------------------------------------------------------------------------
(* Snapshots and restart.                                                  *)

\* cleanup_old_snapshots keeps the three highest counts.
KeepHighest(S) == {c \in S : Cardinality({d \in S : d > c}) < 3}

\* The snapshot task wakes up and reads the commit count ...
SnapshotTick ==
    /\ tick = Absent
    /\ commit_count >= snapshot_at + SnapshotEvery
    /\ tick' = commit_count
    /\ UNCHANGED <<group, commit_count, snapshot_at, silent, client, snapshots, historyState,
                   environment>>

\* ... and then, under the read lock, saves the groups to a file named by that count; an
\* error of the save is logged and the count moves on all the same.
SaveSnapshot ==
    LET all == [c \in DOMAIN snapshots \cup {tick} |->
                   IF c = tick THEN [group |-> group, age |-> saved + 1] ELSE snapshots[c]]
    IN  /\ tick # Absent
        /\ \/ snapshots' = Restrict(all, KeepHighest(DOMAIN all)) /\ saved' = saved + 1
           \/ UNCHANGED <<snapshots, saved>>
        /\ snapshot_at' = tick /\ tick' = Absent
        /\ UNCHANGED <<group, commit_count, silent, client, expected, recovered, environment>>

\* load_latest_snapshot: the file with the highest number.
LatestSnapshot == snapshots[Max(DOMAIN snapshots)]
\* recover_from_snapshots after a crash: the heartbeats were not saved and the commit
\* count starts again at zero.
Restart ==
    /\ restarts < MaxRestarts /\ restarts' = restarts + 1
    /\ group' = IF snapshots = <<>> THEN Absent ELSE LatestSnapshot.group
    /\ silent' = IF snapshots = <<>> THEN {} ELSE LatestSnapshot.group.members
    /\ recovered' = IF snapshots = <<>> THEN Absent ELSE LatestSnapshot.age
    /\ commit_count' = 0 /\ snapshot_at' = 0 /\ tick' = Absent
    /\ UNCHANGED <<client, snapshots, expected, saved, departures, walErrors>>

Member(m) == Join(m) \/ handle_heartbeat(m)

GroupNext ==
    \/ \E m \in Members :
          \/ Member(m) \/ handle_leave_group(m) \/ FallSilent(m)
          \/ \E parts \in (SUBSET client[m].parts) \ {{}}, o \in CommitValues :
                \/ handle_commit_offset(m, parts, o)
                \/ \E applied \in (SUBSET parts) \ {parts} : CommitFails(m, parts, applied, o)
    \/ Reap \/ SnapshotTick \/ SaveSnapshot \/ Restart

GroupSpec == GroupInit /\ [][GroupNext]_groupVars

\* Members keep sending heartbeats and join again when told to.
FairGroupSpec == GroupSpec /\ \A m \in Members : WF_groupVars(Join(m)) /\ WF_groupVars(handle_heartbeat(m))

-------------------------------------------------------------------------------
\* While the group is stable every partition has exactly one owner, the owner is a
\* member, and shares differ by at most one, whatever joins, leaves and evictions came
\* before (the assignment is only recomputed by handle_join_group).
StableAssignmentExact ==
    group # Absent /\ group.state = "Stable" =>
        /\ DOMAIN group.assignment \subseteq group.members
        /\ \A p \in Topic : Cardinality({m \in group.members : p \in Entry(group.assignment, m)}) = 1
        /\ \A m, n \in group.members :
              Cardinality(Entry(group.assignment, m)) <= Cardinality(Entry(group.assignment, n)) + 1

\* Until the broker restarts, the coordinator would at no time accept a commit of one
\* partition from two members, stale and evicted ones included: the generation fences the
\* earlier owner (handle_commit_offset).
OneCommitterPerPartition ==
    \A m, n \in Members :
        /\ restarts = 0
        /\ CommitAccepted(m) /\ CommitAccepted(n)
        /\ client[m].parts \cap client[n].parts # {}
        => m = n

\* Until the broker restarts, what a fetch returns is the offset whose commit was
\* acknowledged last, or one whose commit was attempted and failed since: rebalances,
\* evictions and a group that empties and fills again lose none (handle_commit_offset,
\* the reaper).  A restart does lose offsets ("WAL-backed offset persistence, snapshot
\* recovery", README, notwithstanding): recovery reads the snapshot alone.
Committed(p) == IF group = Absent THEN Absent ELSE group.committed[p]
CommittedOffsetKept == restarts = 0 => \A p \in Topic : Committed(p) \in expected[p]

-------------------------------------------------------------------------------
(* Said in the source, and not kept: TLC has counterexamples (README).     *)

\* A restart recovers from the snapshot that was saved last ("Loads the latest snapshot",
\* load_latest_snapshot).
RecoversLastSnapshot == [][restarts' # restarts /\ saved # 0 => recovered' = saved]_groupVars

\* When nobody leaves or falls silent, all members end up in the same generation, each
\* with its share ("Kafka-compatible consumer group protocol", README).
InGeneration(m) == client[m].joined /\ HeartbeatAccepted(m)
GroupSettles == <>[](\A m \in Members : InGeneration(m))

===============================================================================
