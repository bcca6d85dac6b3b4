---------------------------- MODULE PartitionStore ----------------------------
(***************************************************************************)
(* One broker's tiered storage: the produce handler that feeds it          *)
(* (broker/core.rs), the store (storage/partition_store.rs) with its index,*)
(* WAL and manifest, the tiering task, the compaction task, consumers'     *)
(* cold reads, and crashes with recovery.                                  *)
(*                                                                         *)
(* Processes interleave at the points where the code awaits or releases a  *)
(* lock: a produce between reading the high watermark, indexing the record,*)
(* the WAL writer's answer and the watermark update; the tiering task      *)
(* around each fence check, upload, manifest append and index flip; the    *)
(* compaction task around upload, manifest append, index swap and deletes; *)
(* a reader between resolving a plan and downloading the object.           *)
(***************************************************************************)
EXTENDS Naturals, FiniteSets, ColdIndexManifest, SegmentedWal, Compactor

CONSTANTS
    Partitions,      \* topic partitions hosted by the broker
    Producers,       \* produce requests that can be in progress at once
    Targets,         \* [Producers -> SUBSET Partitions]: what each one writes to
    Readers,         \* fetch requests that can be in progress at once
    BatchSizes,      \* records per produce request
    AckLevels,       \* subset of {"Leader", "All"}
    Sizes,           \* in-memory sizes of a record
    HotBudget,       \* hot_cache_max_bytes; 0 disables the budget
    FsyncOnWrite,    \* WalConfig.fsync_on_write
    Fencing,         \* reservation service and epoch source are configured
    Compaction,      \* config of the compaction task, or NoCompaction
    NoCompaction,
    MaxOffset,       \* bound: offsets of a partition are below this
    MaxAttempts,     \* bound: records ever issued for one offset
    MaxSegment,      \* bound: highest WAL segment sequence number
    Faults,          \* bound: how often each kind of fault happens
    CrashDuringTiering  \* may a crash interrupt a tiering cycle?

ASSUME StoreConstants ==
    /\ Targets \in [Producers -> SUBSET Partitions]
    /\ AckLevels \subseteq {"Leader", "All"}
    /\ IsFiniteSet(Partitions)
    /\ Sizes \subseteq Nat \ {0} /\ BatchSizes \subseteq Nat \ {0}
    /\ HotBudget \in Nat /\ MaxOffset \in Nat /\ MaxAttempts \in Nat /\ MaxSegment \in Nat
    /\ Faults \in [{"crash", "wal", "io", "tear", "fence"} -> Nat]
    /\ FsyncOnWrite \in BOOLEAN /\ Fencing \in BOOLEAN /\ CrashDuringTiering \in BOOLEAN

ASSUME FiniteProducers == IsFiniteSet(Producers)

VARIABLES
    index,      \* PartitionIndex (volatile)
    wal,        \* SegmentedWal: disk is durable, the rest volatile
    manifest,   \* ColdIndexManifest (durable)
    objects,    \* object storage: [key -> sequence of records]
    leads,      \* [tp -> may_tier would find this node the current leader]
    hw,         \* [tp -> high_watermark of the broker's PartitionMetadata]
    producer,   \* [Producers -> progress of append_records]
    tier,       \* progress of the tiering task
    compact,    \* progress of the compaction task
    reader,     \* [Readers -> progress of read]
    issued,     \* history: every record a produce created
    acked,      \* history: records whose produce returned their offset
    failed,     \* history: records whose append returned Err
    faults      \* faults left

storage == <<wal, manifest, objects>>
tasks == <<producer, tier, compact, reader>>
history == <<issued, acked, failed>>
vars == <<index, storage, leads, hw, tasks, history, faults>>

Offsets == 0 .. MaxOffset - 1
Record == [tp : Partitions, off : Offsets, id : 0 .. MaxAttempts - 1, size : Sizes]

\* topics/{t}/{p}/{start}_{end}.seg: determined by partition and range.
ObjectKey(tp, start, end) == <<tp, start, end>>

IdleProducer == [pc |-> "idle"]
IdleTier == [pc |-> "idle"]
IdleCompact == [pc |-> "idle", plans |-> {}]
IdleReader == [pc |-> "idle"]

Init ==
    /\ index = EmptyIndex(Partitions)
    /\ wal = wal_new(<<>>)
    /\ manifest = EmptyManifest(Partitions)
    /\ objects = <<>>
    /\ leads = [tp \in Partitions |-> ~Fencing]
    /\ hw = [tp \in Partitions |-> 0]
    /\ producer = [p \in Producers |-> IdleProducer]
    /\ tier = IdleTier
    /\ compact = IdleCompact
    /\ reader = [c \in Readers |-> IdleReader]
    /\ issued = {} /\ acked = {} /\ failed = {}
    /\ faults = Faults

Fault(kind) == faults[kind] > 0 /\ faults' = [faults EXCEPT ![kind] = @ - 1]

-------------------------------------------------------------------------------
(* Produce: MessageBrokerCore::append_records over PartitionStore::append. *)

\* The records a produce of n records creates at the watermark it has read.
NewRecords(tp, n, size) ==
    [i \in 1 .. n |->
        [tp |-> tp, off |-> hw[tp] + i - 1, size |-> size,
         id |-> Cardinality({r \in issued : r.tp = tp /\ r.off = hw[tp] + i - 1})]]

\* await_capacity returns at once when the budget is disabled.
AppendNext == IF HotBudget = 0 THEN "insert" ELSE "capacity"

(***************************************************************************)
(* The metadata is cloned and its lock released, so the offsets are        *)
(* assigned from a watermark that other produces may advance meanwhile.    *)
(* Acks of Majority and All append each record a second time, through the  *)
(* replication manager's append_to_local_wal on the same store.            *)
(***************************************************************************)
ProduceStart(p, tp, n, acks, size) ==
    LET recs == NewRecords(tp, n, size)
    IN  /\ producer[p].pc = "idle"
        /\ tp \in Targets[p]
        /\ hw[tp] + n <= MaxOffset
        /\ \A i \in 1 .. n : recs[i].id < MaxAttempts
        /\ producer' = [producer EXCEPT ![p] =
              [pc |-> AppendNext, tp |-> tp, base |-> hw[tp], recs |-> recs,
               todo |-> IF acks = "Leader" THEN recs ELSE recs \o recs]]
        /\ issued' = issued \cup ToSet(recs)
        /\ UNCHANGED <<index, storage, leads, hw, tier, compact, reader, acked, failed, faults>>
\* Mutant: the size of the incoming record is left out.
AwaitCapacity_IgnoresIncoming(p) ==
    /\ producer[p].pc = "capacity" /\ index.hot_bytes <= HotBudget
    /\ producer' = [producer EXCEPT ![p].pc = "insert"]
    /\ UNCHANGED <<index, storage, leads, hw, tier, compact, reader, history, faults>>

\* await_capacity: a check; nothing is reserved for the record it admits.
AwaitCapacity(p) ==
    /\ producer[p].pc = "capacity"
    /\ LET incoming == Head(producer[p].todo).size
       IN  incoming >= HotBudget \/ index.hot_bytes + incoming <= HotBudget
    /\ producer' = [producer EXCEPT ![p].pc = "insert"]
    /\ UNCHANGED <<index, storage, leads, hw, tier, compact, reader, history, faults>>

InsertHot(p) ==
    /\ producer[p].pc = "insert"
    /\ LET rec == Head(producer[p].todo)
       IN  index' = insert_hot(index, rec.tp, rec.off, rec)
    /\ producer' = [producer EXCEPT ![p].pc = "wal"]
    /\ UNCHANGED <<storage, leads, hw, tier, compact, reader, history, faults>>

WalAppend(p) ==
    /\ producer[p].pc = "wal"
    /\ wal' = handle_append(wal, Head(producer[p].todo), FsyncOnWrite)
    /\ producer' = [producer EXCEPT
          ![p].todo = Tail(@),
          ![p].pc = IF Len(producer[p].todo) > 1 THEN AppendNext ELSE "commit"]
    /\ UNCHANGED <<index, manifest, objects, leads, hw, tier, compact, reader, history, faults>>

WalAppendErr(p) ==
    /\ producer[p].pc = "wal"
    /\ Fault("wal")
    /\ wal' = handle_append_err(wal, Head(producer[p].todo))
    /\ producer' = [producer EXCEPT ![p].pc = "rollback"]
    /\ UNCHANGED <<index, manifest, objects, leads, hw, tier, compact, reader, history>>

\* The hot entry is dropped and the produce returns the error.
AppendRollback(p) ==
    /\ producer[p].pc = "rollback"
    /\ LET rec == Head(producer[p].todo)
       IN  /\ index' = remove_hot(index, rec.tp, rec.off)
           /\ failed' = failed \cup {rec}
    /\ producer' = [producer EXCEPT ![p] = IdleProducer]
    /\ UNCHANGED <<storage, leads, hw, tier, compact, reader, issued, acked, faults>>

\* The watermark is stored, not maximised, and the offsets are returned.
ProduceCommit(p) ==
    /\ producer[p].pc = "commit"
    /\ hw' = [hw EXCEPT ![producer[p].tp] = producer[p].base + Len(producer[p].recs)]
    /\ acked' = acked \cup ToSet(producer[p].recs)
    /\ producer' = [producer EXCEPT ![p] = IdleProducer]
    /\ UNCHANGED <<index, storage, leads, tier, compact, reader, issued, failed, faults>>

\* FlushTick of the batched mode (the task exists only when fsync_on_write is off).
FlushTick ==
    /\ ~FsyncOnWrite /\ wal.tail # <<>>
    /\ wal' = flush(wal)
    /\ UNCHANGED <<index, manifest, objects, leads, hw, tasks, history, faults>>

Produce ==
    \/ \E p \in Producers :
          \/ \E tp \in Partitions, n \in BatchSizes, a \in AckLevels, s \in Sizes :
                ProduceStart(p, tp, n, a, s)
          \/ AwaitCapacity(p) \/ InsertHot(p) \/ WalAppend(p) \/ WalAppendErr(p)
          \/ AppendRollback(p) \/ ProduceCommit(p)
    \/ FlushTick

-------------------------------------------------------------------------------
(* Tiering: tier_once and tier_segment, on one background task.            *)

\* u64::MAX when the budget is disabled, so a forced seal never happens then.
SoftLimitReached == HotBudget > 0 /\ index.hot_bytes >= (HotBudget \div 5) * 4

\* The sealed segment being tiered and its demultiplexed groups.
Segment == wal.disk[Head(tier.queue)]
Group(tp) == Keep(Segment, {r \in ToSet(Segment) : r.tp = tp})
GroupStart(tp) == Head(Group(tp)).off
GroupEnd(tp) == Last(Group(tp)).off + 1
GroupKey(tp) == ObjectKey(tp, GroupStart(tp), GroupEnd(tp))

\* The cycle moves on to the queued segments that follow.
NextSegment ==
    IF Len(tier.queue) = 1 THEN IdleTier
    ELSE [pc |-> "segment", queue |-> Tail(tier.queue)]

\* Done with a partition's group of the current segment.
GroupDone(tp, fenced) ==
    [pc |-> "group", queue |-> tier.queue,
     todo |-> tier.todo \ {tp}, fenced |-> tier.fenced \/ fenced]

(***************************************************************************)
(* A cycle seals the active segment (forced under memory pressure, else    *)
(* when the size or the age threshold says so: a free choice here), then   *)
(* lists the sealed segments.                                              *)
(***************************************************************************)
TierOnce ==
    /\ tier.pc = "idle"
    /\ \/ /\ wal.active_size > 0 /\ wal.active < MaxSegment
          /\ wal' = handle_maybe_seal(wal)
       \/ /\ wal.active_size = 0 \/ ~SoftLimitReached
          /\ wal' = wal
    /\ sealed_segments(wal') # <<>>
    /\ tier' = [pc |-> "segment", queue |-> sealed_segments(wal')]
    /\ UNCHANGED <<index, manifest, objects, leads, hw, producer, compact, reader, history, faults>>

\* read_segment_records and the grouping; an empty segment is reclaimed at once.
TierReadSegment ==
    /\ tier.pc = "segment"
    /\ IF Segment = <<>>
       THEN /\ wal' = delete_segment(wal, Head(tier.queue))
            /\ tier' = NextSegment
       ELSE /\ tier' = [pc |-> "group", queue |-> tier.queue,
                        todo |-> {r.tp : r \in ToSet(Segment)}, fenced |-> FALSE]
            /\ UNCHANGED wal
    /\ UNCHANGED <<index, manifest, objects, leads, hw, producer, compact, reader, history, faults>>

\* may_tier before the upload.
TierPreCheck(tp) ==
    /\ tier.pc = "group" /\ tp \in tier.todo
    /\ tier' = IF leads[tp]
               THEN [pc |-> "upload", queue |-> tier.queue, todo |-> tier.todo,
                     fenced |-> tier.fenced, tp |-> tp]
               ELSE GroupDone(tp, TRUE)
    /\ UNCHANGED <<index, storage, leads, hw, producer, compact, reader, history, faults>>

TierUpload ==
    /\ tier.pc = "upload"
    /\ objects' = Put(objects, GroupKey(tier.tp), Group(tier.tp))
    /\ tier' = [tier EXCEPT !.pc = "postcheck"]
    /\ UNCHANGED <<index, wal, manifest, leads, hw, producer, compact, reader, history, faults>>

\* may_tier again, before the durable commit.
TierPostCheck ==
    /\ tier.pc = "postcheck"
    /\ tier' = IF leads[tier.tp] THEN [tier EXCEPT !.pc = "register"]
                                 ELSE GroupDone(tier.tp, TRUE)
    /\ UNCHANGED <<index, storage, leads, hw, producer, compact, reader, history, faults>>

Registered ==
    register(manifest, tier.tp, GroupStart(tier.tp), GroupEnd(tier.tp),
             GroupKey(tier.tp), Len(Group(tier.tp)))

TierRegister ==
    /\ tier.pc = "register"
    /\ manifest' = Registered
    /\ tier' = [tier EXCEPT !.pc = "flip"]
    /\ UNCHANGED <<index, wal, objects, leads, hw, producer, compact, reader, history, faults>>

\* BTreeMap::range panics on an inverted range, which ends the tiering task.
TierFlip ==
    /\ tier.pc = "flip"
    /\ IF GroupStart(tier.tp) > GroupEnd(tier.tp)
       THEN /\ tier' = [pc |-> "dead"]
            /\ UNCHANGED index
       ELSE /\ index' = flip_to_cold(index, tier.tp, GroupStart(tier.tp), GroupEnd(tier.tp),
                                     GroupKey(tier.tp), Len(Group(tier.tp)))
            /\ tier' = GroupDone(tier.tp, FALSE)
    /\ UNCHANGED <<storage, leads, hw, producer, compact, reader, history, faults>>
\* Mutants: the segment is deleted even if a group of it was fenced; it is never deleted.
TierReclaim_IgnoresFence ==
    /\ tier.pc = "group" /\ tier.todo = {}
    /\ wal' = delete_segment(wal, Head(tier.queue))
    /\ tier' = NextSegment
    /\ UNCHANGED <<index, manifest, objects, leads, hw, producer, compact, reader, history, faults>>

TierReclaim_Keeps ==
    /\ tier.pc = "group" /\ tier.todo = {}
    /\ tier' = NextSegment
    /\ UNCHANGED <<index, storage, leads, hw, producer, compact, reader, history, faults>>

\* The segment is reclaimed only if no group of it was fenced.
TierReclaim ==
    /\ tier.pc = "group" /\ tier.todo = {}
    /\ wal' = IF tier.fenced THEN wal ELSE delete_segment(wal, Head(tier.queue))
    /\ tier' = NextSegment
    /\ UNCHANGED <<index, manifest, objects, leads, hw, producer, compact, reader, history, faults>>

(***************************************************************************)
(* An I/O error at any await of the cycle abandons the cycle (the ? of     *)
(* tier_once): an upload or a manifest append may have taken effect.       *)
(***************************************************************************)
TierFail ==
    /\ tier.pc \notin {"idle", "flip", "dead"}
    /\ Fault("io")
    /\ tier' = IdleTier
    /\ objects' \in {objects} \cup
          (IF tier.pc = "upload" THEN {Put(objects, GroupKey(tier.tp), Group(tier.tp))} ELSE {})
    /\ manifest' \in {manifest} \cup (IF tier.pc = "register" THEN {Registered} ELSE {})
    /\ UNCHANGED <<index, wal, leads, hw, producer, compact, reader, history>>

\* The manifest append fails inside the frame, for instance on a full disk.
TierTear ==
    /\ tier.pc = "register"
    /\ Fault("tear")
    /\ manifest' = TearFrame(manifest)
    /\ tier' = IdleTier
    /\ UNCHANGED <<index, wal, objects, leads, hw, producer, compact, reader, history>>

Tiering ==
    \/ TierOnce \/ TierReadSegment
    \/ \E tp \in Partitions : TierPreCheck(tp)
    \/ TierUpload \/ TierPostCheck \/ TierRegister \/ TierFlip \/ TierReclaim

\* Another broker takes the partition's reservation, or the controller gives it
\* (back) to this one; only with fencing configured.
LoseLeadership(tp) ==
    /\ Fencing /\ leads[tp] /\ Fault("fence")
    /\ leads' = [leads EXCEPT ![tp] = FALSE]
    /\ UNCHANGED <<index, storage, hw, tasks, history>>

GainLeadership(tp) ==
    /\ ~leads[tp]
    /\ leads' = [leads EXCEPT ![tp] = TRUE]
    /\ UNCHANGED <<index, storage, hw, tasks, history, faults>>

-------------------------------------------------------------------------------
(* Compaction: run_compaction_cycle and execute_plan, on its own task.     *)

\* get_cold_segments: one partition's cold ranges in offset order.
get_cold_segments(tp) ==
    LET cold == index.parts[tp].cold
        starts == Keep([i \in 1 .. MaxOffset |-> i - 1], DOMAIN cold)
    IN  [i \in 1 .. Len(starts) |->
            [start |-> starts[i], end |-> cold[starts[i]].end,
             key |-> cold[starts[i]].key, size |-> cold[starts[i]].size]]

\* plan_compaction: every plan of the cycle is made before the first one runs.
plan_compaction ==
    UNION {{[tp |-> tp, sources |-> s] :
              s \in ToSet(plan_partition_compaction(get_cold_segments(tp), Compaction))} :
           tp \in Partitions}

CompactCycle ==
    /\ Compaction # NoCompaction
    /\ compact.pc = "idle"
    /\ plan_compaction # {}
    /\ compact' = [pc |-> "execute", plans |-> plan_compaction]
    /\ UNCHANGED <<index, storage, leads, hw, producer, tier, reader, history, faults>>

SourceKeys(plan) == {s.key : s \in ToSet(plan.sources)}
Bodies(plan) == [i \in 1 .. Len(plan.sources) |-> objects[plan.sources[i].key]]
Mergeable(plan) ==
    SourceKeys(plan) \subseteq DOMAIN objects /\ MergeAccepted(plan.sources, Bodies(plan))
MergedRecords(plan) ==
    Joined(objects, [i \in 1 .. Len(plan.sources) |-> plan.sources[i].key])
MergedStart(plan) == Head(plan.sources).start
MergedEnd(plan) == Last(plan.sources).end
MergedKey(plan) == ObjectKey(plan.tp, MergedStart(plan), MergedEnd(plan))

\* The plan is over, done or failed; the cycle goes on with the others.
PlanDone(plan) ==
    [pc |-> IF compact.plans = {plan} THEN "idle" ELSE "execute",
     plans |-> compact.plans \ {plan}]

(***************************************************************************)
(* Download the sources, check that they are contiguous, upload the merged *)
(* object.  A missing source or a gap abandons the plan.                   *)
(***************************************************************************)
CompactUpload(plan) ==
    /\ compact.pc = "execute" /\ plan \in compact.plans
    /\ IF Mergeable(plan)
       THEN /\ objects' = Put(objects, MergedKey(plan), MergedRecords(plan))
            /\ compact' = [pc |-> "record", plans |-> compact.plans, plan |-> plan,
                           size |-> Len(MergedRecords(plan))]
       ELSE /\ compact' = PlanDone(plan)
            /\ UNCHANGED objects
    /\ UNCHANGED <<index, wal, manifest, leads, hw, producer, tier, reader, history, faults>>

Compacted ==
    record_compaction(manifest, compact.plan.tp, MergedStart(compact.plan),
                      MergedEnd(compact.plan), MergedKey(compact.plan), compact.size,
                      SourceKeys(compact.plan))

CompactRecord ==
    /\ compact.pc = "record"
    /\ manifest' = Compacted
    /\ compact' = [compact EXCEPT !.pc = "replace"]
    /\ UNCHANGED <<index, wal, objects, leads, hw, producer, tier, reader, history, faults>>

\* (swaps is history: index swaps seen by a read in progress.)
CompactReplace ==
    /\ compact.pc = "replace"
    /\ index' = replace_cold(index, compact.plan.tp, MergedStart(compact.plan),
                    MergedEnd(compact.plan), MergedKey(compact.plan), compact.size)
    /\ compact' = [compact EXCEPT !.pc = "delete"]
    /\ reader' = [c \in Readers |->
          IF reader[c].pc = "idle" THEN reader[c] ELSE [reader[c] EXCEPT !.swaps = @ + 1]]
    /\ UNCHANGED <<storage, leads, hw, producer, tier, history, faults>>

CompactDelete ==
    /\ compact.pc = "delete"
    /\ objects' = Without(objects, SourceKeys(compact.plan))
    /\ compact' = PlanDone(compact.plan)
    /\ UNCHANGED <<index, wal, manifest, leads, hw, producer, tier, reader, history, faults>>

(***************************************************************************)
(* An I/O error abandons the plan: the upload or the manifest append may   *)
(* have taken effect.  Deleting the sources is best effort, so any of them *)
(* may stay behind.                                                        *)
(***************************************************************************)
CompactFail(plan) ==
    /\ compact.pc \in {"execute", "record", "delete"} /\ plan \in compact.plans
    /\ compact.pc # "execute" => plan = compact.plan
    /\ Fault("io")
    /\ compact' = PlanDone(plan)
    /\ manifest' \in {manifest} \cup (IF compact.pc = "record" THEN {Compacted} ELSE {})
    /\ objects' \in
          CASE compact.pc = "execute" /\ Mergeable(plan) ->
                  {objects, Put(objects, MergedKey(plan), MergedRecords(plan))}
            [] compact.pc = "delete" -> {Without(objects, S) : S \in SUBSET SourceKeys(plan)}
            [] OTHER -> {objects}
    /\ UNCHANGED <<index, wal, leads, hw, producer, tier, reader, history>>

\* The manifest append of a compaction fails inside the frame.
CompactTear ==
    /\ compact.pc = "record"
    /\ Fault("tear")
    /\ manifest' = TearFrame(manifest)
    /\ compact' = PlanDone(compact.plan)
    /\ UNCHANGED <<index, wal, objects, leads, hw, producer, tier, reader, history>>

Compacting ==
    CompactCycle \/ (\E plan \in compact.plans : CompactUpload(plan))
    \/ CompactRecord \/ CompactReplace \/ CompactDelete

-------------------------------------------------------------------------------
(* Cold reads of acknowledged offsets: PartitionStore::read.  A plan that  *)
(* is Hot or Empty returns at once and leaves no trace.                    *)

Resolve(c, tp, off, retry) ==
    LET plan == read_plan(index, tp, off)
    IN  reader' = [reader EXCEPT ![c] =
            IF plan.plan = "Cold"
            THEN [pc |-> "download", tp |-> tp, off |-> off, key |-> plan.key, retry |-> retry,
                  swaps |-> IF retry THEN 0 ELSE reader[c].swaps]
            ELSE IdleReader]

ReadStart(c) ==
    /\ reader[c].pc = "idle"
    /\ \E r \in acked :
          /\ read_plan(index, r.tp, r.off).plan = "Cold"
          /\ Resolve(c, r.tp, r.off, TRUE)
    /\ UNCHANGED <<index, storage, leads, hw, producer, tier, compact, history, faults>>
\* Mutant: NotFound is an error at once.
ReadDownload_NoRetry(c) ==
    /\ reader[c].pc = "download"
    /\ reader' = [reader EXCEPT ![c] =
          IF reader[c].key \in DOMAIN objects THEN IdleReader ELSE [@ EXCEPT !.pc = "error"]]
    /\ UNCHANGED <<index, storage, leads, hw, producer, tier, compact, history, faults>>

\* NotFound is retried once, from a freshly resolved plan.
ReadDownload(c) ==
    /\ reader[c].pc = "download"
    /\ reader' = [reader EXCEPT ![c] =
          IF reader[c].key \in DOMAIN objects THEN IdleReader
          ELSE [@ EXCEPT !.pc = IF reader[c].retry THEN "resolve" ELSE "error"]]
    /\ UNCHANGED <<index, storage, leads, hw, producer, tier, compact, history, faults>>

ReadRetry(c) ==
    /\ reader[c].pc = "resolve"
    /\ Resolve(c, reader[c].tp, reader[c].off, FALSE)
    /\ UNCHANGED <<index, storage, leads, hw, producer, tier, compact, history, faults>>

Reading == \E c \in Readers : ReadStart(c) \/ ReadDownload(c) \/ ReadRetry(c)

-------------------------------------------------------------------------------
(* Crash, and the restart's recovery: PartitionStore::new_with_fencing,    *)
(* then add_partition for every partition.                                 *)

RecoverCold(m) ==
    LET ranges == UNION {{<<tp, s>> : s \in DOMAIN m.live[tp]} : tp \in Partitions}
        Insert(x, idx) == LET seg == m.live[x[1]][x[2]]
                          IN  insert_cold(idx, x[1], x[2], seg.end, seg.key, seg.size)
    IN  FoldSet(Insert, EmptyIndex(Partitions), ranges)

RecoverIndex(m, w) ==
    FoldLeft(LAMBDA idx, r : insert_hot(idx, r.tp, r.off, r), RecoverCold(m), recover(w))

\* Recovery deletes the orphans its manifest lists; each delete is best effort.
CrashRestart ==
    /\ Fault("crash")
    /\ CrashDuringTiering \/ tier.pc = "idle"
    /\ wal.active < MaxSegment
    /\ \E disk \in CrashDisks(wal) : wal' = wal_new(disk)
    /\ manifest' = load(manifest)
    /\ objects' \in {objects, Without(objects, manifest'.orphans)}
    /\ index' = RecoverIndex(manifest', wal')
    /\ hw' = [tp \in Partitions |-> index'.parts[tp].next_offset]
    /\ leads' = [tp \in Partitions |-> ~Fencing]
    /\ producer' = [p \in Producers |-> IdleProducer]
    /\ tier' = IdleTier
    /\ compact' = IdleCompact
    /\ reader' = [c \in Readers |-> IdleReader]
    /\ UNCHANGED history

-------------------------------------------------------------------------------
Next ==
    \/ Produce
    \/ Tiering \/ TierFail \/ TierTear
    \/ \E tp \in Partitions : LoseLeadership(tp) \/ GainLeadership(tp)
    \/ Compacting \/ (\E plan \in compact.plans : CompactFail(plan)) \/ CompactTear
    \/ Reading
    \/ CrashRestart

Spec == Init /\ [][Next]_vars

\* The background tasks and the WAL writer keep running; nobody has to produce.
Progress(p) == AwaitCapacity(p) \/ InsertHot(p) \/ WalAppend(p)
                  \/ AppendRollback(p) \/ ProduceCommit(p)
FairSpec ==
    /\ Spec
    /\ WF_vars(Tiering)
    /\ \A p \in Producers : WF_vars(Progress(p))

-------------------------------------------------------------------------------
(* Properties.                                                             *)

\* What a read of one offset returns for that offset: the hot record, or the
\* records of that offset in the covering object; nothing if it cannot be read.
Served(tp, off) ==
    LET plan == read_plan(index, tp, off)
    IN  CASE plan.plan = "Hot"  -> {r \in plan.records : r.off = off}
          [] plan.plan = "Cold" -> IF plan.key \in DOMAIN objects
                                   THEN {r \in ToSet(objects[plan.key]) : r.off = off}
                                   ELSE {}
          [] OTHER -> {}

\* Every acknowledged record can be read at its offset in every state: while its
\* segment is sealed, uploaded, flipped, compacted, and after any crash ("a crash can
\* never leave cold data without an offset->object mapping", tier_segment).
AckedReadable == \A r \in acked : r \in Served(r.tp, r.off)

\* A record whose append returned an error is never served ("drop the hot entry so an
\* un-acked record is never served", PartitionStore::append).
FailedNeverServed == \A r \in failed : r \notin Served(r.tp, r.off)

\* The disk alone can restore every acknowledged record: it is in a WAL segment, or
\* in the object of the manifest range a recovered index would resolve its offset to,
\* and recovery's garbage collection leaves that object alone (new_with_fencing).
AckedDurable ==
    \A r \in acked :
        \/ \E s \in DOMAIN wal.disk : Contains(wal.disk[s], r)
        \/ LET live == manifest.live[r.tp]
               floor == {s \in DOMAIN live : s <= r.off}
           IN  /\ floor # {} /\ r.off < live[Max(floor)].end
               /\ live[Max(floor)].key \in DOMAIN objects \ manifest.orphans
               /\ Contains(objects[live[Max(floor)].key], r)

\* Recovery never deletes an object the manifest still maps a range to: an orphan is a
\* source "compaction superseded" (LoadResult; the garbage collection of recovery).
LiveNotOrphaned ==
    \A tp \in Partitions : \A s \in DOMAIN manifest.live[tp] :
        manifest.live[tp][s].key \notin manifest.orphans

\* Memory and manifest agree on the cold ranges whenever neither background task is
\* between its manifest append and its index update ("Mirrors the manifest's fold so
\* the in-memory and durable views stay identical", replace_cold), and the ranges do not
\* overlap ("Disjoint and contiguous", PartitionEntries.cold), so that a floor lookup finds
\* the one range covering an offset.
ColdViewsAgree ==
    /\ tier.pc # "flip" /\ compact.pc # "replace" =>
          \A tp \in Partitions : index.parts[tp].cold = manifest.live[tp]
    /\ \A tp \in Partitions : LET cold == index.parts[tp].cold
          IN  \A s, t \in DOMAIN cold : s < t => cold[s].end <= t

\* No hot copy outlives its segment: a record in memory is still in some WAL segment,
\* or its own append is in progress (the stranding that insert-before-append in
\* PartitionStore::append is there to prevent).
NoStrandedHot ==
    \A tp \in Partitions : \A o \in DOMAIN index.parts[tp].hot :
        LET r == index.parts[tp].hot[o]
        IN  \/ \E s \in DOMAIN wal.disk : Contains(wal.disk[s], r)
            \/ Contains(wal.tail, r)
            \/ \E p \in Producers : producer[p].pc \in {"wal", "rollback"} /\ Head(producer[p].todo) = r

\* The lock-free byte counter equals the bytes held by the hot maps: every insert,
\* overwrite, rollback, eviction and recovery keeps it exact, or backpressure drifts.
HotBytesExact ==
    index.hot_bytes =
        MapThenSumSet(LAMBDA tp : HotSize(index.parts[tp].hot, DOMAIN index.parts[tp].hot), Partitions)

\* The hot tier exceeds its budget ("Max bytes the in-memory hot tier may hold before
\* appends apply backpressure"; append's "invariant 5: bounded memory") by less than what
\* the other appends can have been let through with: await_capacity reserves nothing, so
\* appends that pass its check together are all inserted, and only those.
HotBounded ==
    HotBudget > 0 => index.hot_bytes <= HotBudget + (Cardinality(Producers) - 1) * Max(Sizes)

\* No offset is acknowledged for two different records.
OffsetsNotReused ==
    \A r, s \in acked : r.tp = s.tp /\ r.off = s.off => r = s

\* A read whose object is compacted away under it still succeeds on its one
\* re-resolution: only two index swaps during the same read can make it fail
\* (PartitionStore::read; execute_plan swaps the index before it deletes).
ReadSurvivesCompaction ==
    \A c \in Readers : reader[c].pc = "error" => reader[c].swaps >= 2

ColdResolves(tp, off) ==
    \E s \in DOMAIN index.parts[tp].cold :
        /\ s <= off /\ off < index.parts[tp].cold[s].end
        /\ \A t \in DOMAIN index.parts[tp].cold : t <= off => t <= s

\* An offset that resolves to a cold object keeps resolving to one.  Tiering a retained
\* segment again takes nothing away ("a later cycle re-uploads them as no-ops",
\* tier_segment; run store_fencing), nor do index swaps and the fold of the manifest at a
\* restart between tiering cycles (run store_compaction).  With compaction and a segment
\* that is tiered twice, after a fence or a crash inside a cycle, it does not hold.
ColdNeverUnmapped ==
    [][\A tp \in Partitions, o \in Offsets : ColdResolves(tp, o) => ColdResolves(tp, o)']_vars

\* The store implements PartitionLog: the log is what reads of the acknowledged
\* offsets return (an impossible identity stands for a read that returns anything
\* but one record), through every step of append_records, tier_segment and recovery.
NoId == MaxAttempts
ReadId(tp, off) ==
    IF \E r \in issued : Served(tp, off) = {r}
    THEN (CHOOSE r \in issued : Served(tp, off) = {r}).id ELSE NoId

Log == INSTANCE PartitionLog WITH
    Ids <- 0 .. MaxAttempts - 1,
    log <- [tp \in Partitions |->
              [o \in {r.off : r \in {x \in acked : x.tp = tp}} |-> ReadId(tp, o)]]

StoreIsPartitionLog == Log!Spec

\* Under backpressure a blocked append is eventually admitted: forced sealing makes the
\* active segment tierable and every cycle frees memory (await_capacity).
BlockedAppendAdmitted ==
    \A p \in Producers : producer[p].pc = "capacity" ~> producer[p].pc # "capacity"

\* Every sealed segment is eventually reclaimed.
SealedReclaimed ==
    \A s \in 0 .. MaxSegment :
        (s \in DOMAIN wal.disk /\ s # wal.active) ~> s \notin DOMAIN wal.disk

===============================================================================
