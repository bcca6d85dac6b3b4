----------------------------- MODULE RaftStorage -----------------------------
(***************************************************************************)
(* What one controller node keeps for OpenRaft                             *)
(* (src/src/controller/openraft_storage.rs): the log storage, a write-     *)
(* ahead file of entries behind a bounded cache, and the state machine     *)
(* with its snapshot file, over the life of the manager that owns them     *)
(* (openraft_manager.rs).  OpenRaft and the rest of the cluster are        *)
(* external: the cluster chooses commands, OpenRaft appends entries to     *)
(* this node, truncates those that turn out different, applies the chosen  *)
(* ones in order and purges what is applied.                               *)
(***************************************************************************)
EXTENDS Naturals, FiniteSets, SequencesExt, FiniteSetsExt

CONSTANTS
    RaftTopics,         \* topic names
    RaftBrokers,        \* broker ids
    CacheSize,          \* entries_cache limit
    SnapshotThreshold,  \* applied entries between two snapshot files
    MaxChosen,          \* bound on the cluster's log
    MaxRaftWal,         \* bound on lines of the write-ahead file
    MaxRaftRestarts     \* bound on crashes and shutdowns

\* RustMqAppData: a topic's only partition stands for its assignments.
Commands ==
    [op : {"CreateTopic", "DeleteTopic", "Assign"}, key : RaftTopics]
    \cup [op : {"AddBroker", "RemoveBroker"}, key : RaftBrokers]

VARIABLES
    chosen,      \* external: the commands the cluster has committed, in order
    raftLog,     \* external: the entries OpenRaft believes this node has, a sequence
    raftWal,     \* lines of the write-ahead files, in order: [index, cmd]
    cache,       \* entries_cache: [index -> cmd]
    lastLog,     \* log_state.last_log_id, 0 for none
    raftPurged,  \* log_state.last_purged_log_id, 0 for none
    machine,     \* state of the state machine (last_applied_log is written and never read)
    lastApplied, \* last_applied, 0 for none
    sinceSaved,  \* applied_since_last_snapshot
    saving,      \* a save_snapshot has been spawned and not begun
    copied,      \* states that save_snapshot tasks have copied and not yet written
    snapshotFile,\* snapshot.bin
    manager,     \* ManagerState
    furthest,    \* history: the last entry this node has ever applied, in this life or before
    raftRestarts

raftVars == <<chosen, raftLog, raftWal, cache, lastLog, raftPurged, machine, lastApplied, sinceSaved,
              saving, copied, snapshotFile, manager, furthest, raftRestarts>>
logVars == <<raftLog, raftWal, cache, lastLog, raftPurged>>
machineVars == <<machine, lastApplied, sinceSaved, saving, copied, snapshotFile>>
lifeVars == <<manager, raftRestarts>>

EmptyMachine == [topics |-> {}, brokers |-> {}, assigned |-> {}]

RaftInit ==
    /\ chosen = <<>> /\ raftLog = <<>> /\ raftWal = <<>>
    /\ cache = <<>> /\ lastLog = 0 /\ raftPurged = 0
    /\ machine = EmptyMachine /\ lastApplied = 0 /\ sinceSaved = 0 /\ saving = FALSE /\ copied = {}
    /\ snapshotFile = EmptyMachine
    /\ manager = "Initializing" /\ furthest = 0 /\ raftRestarts = 0

Running == manager = "Running"

-------------------------------------------------------------------------------
(* The cluster.                                                            *)

\* A majority commits a command; this node may have another one at that index.
Choose(cmd) ==
    /\ Len(chosen) < MaxChosen
    /\ chosen' = Append(chosen, cmd)
    /\ UNCHANGED <<logVars, machineVars, furthest, lifeVars>>

-------------------------------------------------------------------------------
(* RustMqLogStorage.                                                       *)

\* The cache keeps its highest CacheSize indices.
Evict(c) ==
    LET Kept == {i \in DOMAIN c : Cardinality({j \in DOMAIN c : j > i}) < CacheSize}
    IN  [i \in Kept |-> c[i]]

\* Mutant: an index the cache has keeps its entry.
Put_KeepsOld(c, i, cmd) == [j \in DOMAIN c \cup {i} |-> IF j \in DOMAIN c THEN c[j] ELSE cmd]

Put(c, i, cmd) == [j \in DOMAIN c \cup {i} |-> IF j = i THEN cmd ELSE c[j]]
Below(c, i) == [j \in {k \in DOMAIN c : k < i} |-> c[j]]

\* append: the line is written to the file, then cache and log state follow.
LogAppend(cmd) ==
    LET i == Len(raftLog) + 1
    IN  /\ Running /\ Len(raftWal) < MaxRaftWal
        /\ i <= Len(chosen) => cmd = chosen[i]
        /\ raftLog' = Append(raftLog, cmd)
        /\ raftWal' = Append(raftWal, [index |-> i, cmd |-> cmd])
        /\ cache' = Evict(Put(cache, i, cmd))
        /\ lastLog' = i
        /\ UNCHANGED <<chosen, raftPurged, machineVars, furthest, lifeVars>>

\* The write fails, with the line in the file or not; cache and log state stay, and
\* OpenRaft stops at an error of its storage until the node is started again.
LogAppendFails(cmd) ==
    LET i == Len(raftLog) + 1
    IN  /\ Running /\ Len(raftWal) < MaxRaftWal /\ raftRestarts < MaxRaftRestarts
        /\ i <= Len(chosen) => cmd = chosen[i]
        /\ raftWal' \in {raftWal, Append(raftWal, [index |-> i, cmd |-> cmd])}
        /\ manager' = "Broken"
        /\ UNCHANGED <<chosen, raftLog, cache, lastLog, raftPurged, machineVars, furthest, raftRestarts>>

\* truncate: the file keeps the lines; an empty cache leaves no last_log_id.
LogTruncate(i) ==
    /\ Running
    /\ i \in 1 .. Len(raftLog) /\ i <= Len(chosen) /\ raftLog[i] # chosen[i]
    /\ raftLog' = SubSeq(raftLog, 1, i - 1)
    /\ cache' = Below(cache, i)
    /\ lastLog' = IF lastLog >= i THEN (IF DOMAIN cache' = {} THEN 0 ELSE Max(DOMAIN cache')) ELSE lastLog
    /\ UNCHANGED <<chosen, raftWal, raftPurged, machineVars, furthest, lifeVars>>

\* purge, of entries that are applied.
LogPurge(i) ==
    /\ Running
    /\ i \in raftPurged + 1 .. lastApplied
    /\ cache' = [j \in {k \in DOMAIN cache : k > i} |-> cache[j]]
    /\ raftPurged' = i
    /\ UNCHANGED <<chosen, raftLog, raftWal, lastLog, machineVars, furthest, lifeVars>>

\* Mutant: the first line of an index wins.
LoadWal_FirstWins ==
    [i \in {raftWal[n].index : n \in DOMAIN raftWal} |->
        raftWal[Min({n \in DOMAIN raftWal : raftWal[n].index = i})].cmd]

\* load_wal_entries: the files' lines in order, a later line of an index replaces an
\* earlier one, and the cache is not trimmed.
LoadWal ==
    [i \in {raftWal[n].index : n \in DOMAIN raftWal} |->
        raftWal[Max({n \in DOMAIN raftWal : raftWal[n].index = i})].cmd]

-------------------------------------------------------------------------------
(* RustMqStateMachine.                                                     *)

apply_app_data(m, cmd) ==
    CASE cmd.op = "CreateTopic" -> [m EXCEPT !.topics = @ \cup {cmd.key}]
      [] cmd.op = "DeleteTopic" ->
            IF cmd.key \in m.topics
            THEN [m EXCEPT !.topics = @ \ {cmd.key}, !.assigned = @ \ {cmd.key}]
            ELSE m
      [] cmd.op = "Assign" -> [m EXCEPT !.assigned = @ \cup {cmd.key}]
      [] cmd.op = "AddBroker" -> [m EXCEPT !.brokers = @ \cup {cmd.key}]
      [] cmd.op = "RemoveBroker" -> [m EXCEPT !.brokers = @ \ {cmd.key}]

\* apply, of the next chosen entry that OpenRaft reads from the log (a missing entry in
\* the cache ends the read); every SnapshotThreshold entries a save is spawned.
ApplyEntry ==
    LET i == lastApplied + 1
    IN  /\ Running
        /\ i \in DOMAIN cache /\ i <= Len(raftLog) /\ i <= Len(chosen) /\ raftLog[i] = chosen[i]
        /\ machine' = apply_app_data(machine, cache[i])
        /\ lastApplied' = i /\ furthest' = Max({furthest, i})
        /\ sinceSaved' = (sinceSaved + 1) % SnapshotThreshold
        /\ saving' = (saving \/ sinceSaved + 1 = SnapshotThreshold)
        /\ UNCHANGED <<chosen, logVars, copied, snapshotFile, lifeVars>>

\* save_snapshot copies the state of that moment ...
CopyState ==
    /\ saving /\ saving' = FALSE
    /\ copied' = copied \cup {machine}
    /\ UNCHANGED <<chosen, logVars, machine, lastApplied, sinceSaved, snapshotFile, furthest, lifeVars>>

\* ... writes it to a temporary file and renames that.  Two saves that overlap share the
\* temporary file: the older state may land last, or a file that cannot be decoded, which
\* is loaded as if there were none.
WriteSnapshot(m) ==
    /\ m \in copied /\ copied' = copied \ {m}
    /\ snapshotFile' \in {m} \cup (IF copied = {m} THEN {} ELSE {EmptyMachine})
    /\ UNCHANGED <<chosen, logVars, machine, lastApplied, sinceSaved, saving, furthest, lifeVars>>

-------------------------------------------------------------------------------
(* RaftManager.                                                            *)

\* initialize: the log storage loads its entries but no log state, the state machine
\* loads the snapshot file but no last_applied.
InitializeNode ==
    /\ manager \in {"Initializing", "Stopped"}
    /\ manager' = "Starting"
    /\ cache' = LoadWal /\ lastLog' = 0 /\ raftPurged' = 0
    /\ machine' = snapshotFile
    /\ lastApplied' = 0 /\ sinceSaved' = 0
    /\ UNCHANGED <<chosen, raftLog, raftWal, saving, copied, snapshotFile, furthest, raftRestarts>>

\* start: OpenRaft takes the log it is told of by get_log_state, which is none.
StartNode ==
    /\ manager = "Starting" /\ manager' = "Running"
    /\ raftLog' = SubSeq(raftLog, 1, lastLog)
    /\ UNCHANGED <<chosen, raftWal, cache, lastLog, raftPurged, machineVars, furthest, raftRestarts>>

\* A crash at any point, or shutdown, which waits for nothing and aborts no save: one
\* that has not begun copies the state the node was left in.
StopNode ==
    /\ manager \in {"Starting", "Running", "Broken"} /\ manager' = "Stopped"
    /\ raftRestarts < MaxRaftRestarts /\ raftRestarts' = raftRestarts + 1
    /\ saving' = FALSE
    /\ copied' \in {{}, copied \cup (IF saving THEN {machine} ELSE {})}
    /\ UNCHANGED <<chosen, logVars, machine, lastApplied, sinceSaved, snapshotFile, furthest>>

RaftNext ==
    \/ \E cmd \in Commands : Choose(cmd) \/ LogAppend(cmd) \/ LogAppendFails(cmd)
    \/ \E i \in 1 .. MaxChosen : LogTruncate(i) \/ LogPurge(i)
    \/ ApplyEntry \/ CopyState \/ (\E m \in copied : WriteSnapshot(m))
    \/ InitializeNode \/ StartNode \/ StopNode

RaftSpec == RaftInit /\ [][RaftNext]_raftVars

-------------------------------------------------------------------------------
\* The file holds the log: replaying it gives back every entry OpenRaft has been told is
\* appended and has not truncated, over truncations, rewrites of an index, purges and
\* restarts in between (write_to_wal before the cache, load_wal_entries in file order).
WalReplaysLog ==
    \A i \in DOMAIN raftLog : i \in DOMAIN LoadWal /\ LoadWal[i] = raftLog[i]

\* What the state machine is after k chosen commands.
Outcome(k) == FoldLeft(apply_app_data, EmptyMachine, SubSeq(chosen, 1, k))

\* A node that starts from its snapshot file applies the log from the first entry again
\* (load_snapshot does not restore last_applied), and may be saved and stopped again
\* half-way, so that a file holds a mixture of an older and a newer state.  Once it has
\* applied as far as it ever had, its topics and brokers are those of the chosen commands,
\* created, deleted and created again as they may be.  Assignments are not: a deletion
\* that found no topic the first time may find one on the replay.
ReplayConverges ==
    Running /\ lastApplied >= furthest =>
        /\ machine.topics = Outcome(lastApplied).topics
        /\ machine.brokers = Outcome(lastApplied).brokers

\* Said of the storage, and not kept: TLC has a counterexample (README).  After a restart
\* OpenRaft still knows of every entry it was told is appended ("Persistent Raft log
\* storage with WAL and crash recovery", openraft_storage.rs).
LogSurvivesRestart == [][manager = "Starting" /\ manager' = "Running" => raftLog' = raftLog]_raftVars

===============================================================================
