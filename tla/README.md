# RustMQ: a TLA+ verification project

RustMQ is a message broker that keeps recent records in memory and in a local
write-ahead log, tiers sealed log segments to object storage, replicates
partitions to followers and coordinates consumer groups. This directory models
the broker's data path, the parts of the controller that keep state, and the Rust
SDK's producer and consumer; it checks them with TLC on small instances and proves
part of them with TLAPS for all instances. Paths below are relative to the repository root,
`src/`; the crate's own sources are under `src/src/`.

## 1. Inventory

| Component | State | Operations | Interacts with |
|---|---|---|---|
| Partition store (`storage/partition_store.rs`) | Arcs to index, WAL, manifest, uploads; hot budget | `append`, `await_capacity`, `read`, `tier_once`, `tier_segment`, `may_tier`, recovery in `new_with_fencing` | everything below; called by broker core, follower handler, coordinator |
| Partition index (`storage/partition_index.rs`) | per partition: hot map, cold ranges, next offset; global byte counter | `insert_hot`, `remove_hot`, `flip_to_cold`, `insert_cold`, `replace_cold`, `read_plan` | one write lock per operation; the counter is read without it |
| Cold-index manifest (`storage/cold_index.rs`) | append-only file | `register`, `record_compaction`, `load` with its fold | written by tiering and compaction, loaded at start |
| Segmented WAL (`storage/wal/segmented.rs`) | segment files, unflushed tail | append, flush, seal, list, delete, recover | one writer task fed by a channel |
| Compaction (`storage/compaction.rs`) | none between cycles | plan, execute (download, merge, upload, record, swap, delete) | own background task beside tiering |
| Epoch reservation (`storage/reservation.rs`) | one object per partition in shared storage | `acquire` (bounded compare-and-swap loop), `verify` | gRPC leadership handlers, `may_tier` |
| gRPC service (`network/grpc_server.rs`) | follower handlers, leadership table | `assign_partition`, `transfer_leadership`, `replicate_data`, `send_heartbeat` | reservation, follower handler |
| Broker core (`broker/core.rs`) | partition metadata with the high watermark | `append_records`, `fetch_records`, `add_partition` | store, replication manager |
| Replication manager (`replication/manager.rs`) | log end, high watermark, follower states | `replicate_record`, heartbeats, membership | record log, followers over RPC |
| Follower handler (`replication/follower.rs`) | leader epoch (atomic), leader (lock) | `handle_replicate_data`, `handle_heartbeat`, `update_leadership` | record log |
| Consumer groups (`consumer_group/`) | groups map, commit count, snapshot files | join, heartbeat, leave, commit, fetch, reaper, snapshots, recovery | record log, clients |
| Decommission slots (`controller/service.rs`) | semaphore, map of active operations, limit | acquire, release, hourly expiry, change of the limit | scaling manager, administrators |
| Scaling (`scaling/manager.rs`) | brokers map, operation status | remove a broker (drain, rebalance, remove, release), add brokers | slots, rebalancer |
| Controller metadata (`controller/service.rs`) | topics, brokers, assignments, each under its own lock; leader flag | create and delete a topic, register, heartbeat, elect | brokers, administrators |
| Raft storage (`controller/openraft_storage.rs`, `openraft_manager.rs`) | log file with a bounded cache, state machine, snapshot file | append, truncate, purge, apply, save, load | OpenRaft (external) |
| Read cache (`storage/cache.rs`) | per shard: entries, queue, byte count, each locked | get, put, remove, clear | partition store |
| SDK producer (`sdk/rust/src/producer.rs`) | command channel, pending batch and flushes | send, flush, close, batching task | broker's `handle_produce` |
| SDK consumer (`sdk/rust/src/consumer.rs`) | offset tracker, message channel, failed messages, ack queue | receive, ack, nack, seek, pause, commit, close, fetch loop | broker's fetch and commit handlers |
| Bandwidth limiter, local object storage (`storage/object_storage.rs`) | token bucket; files | acquire/refill; conditional put | uploads, reservation |
| Security, ETL, QUIC, admin API, health, upgrades, subscribers, Go SDK | their own | request handling | outside what is modelled |

What is hard here, and what makes each component correct:

* **Tiering is a multi-step commit** (upload, manifest, index, WAL delete) that
  interleaves with produces, compaction, reads, leadership changes and crashes.
  Correct: an acknowledged record is always durable and readable, exactly once,
  at its offset.
* **Two tasks write the cold index**, tiering and compaction, each updating
  manifest, memory and objects in turn. Correct: the views agree, ranges are
  disjoint, recovery's garbage collection spares live objects.
* **Backpressure** counts bytes without a lock and reserves nothing between check and
  insert. Correct: the counter is exact, what concurrent appends add beyond the budget is
  bounded, blocked appends are admitted.
* **Fencing** is check-then-act over shared storage. Correct: one owner per epoch;
  what a superseded leader can still do is bounded.
* **Replication** returns early and recomputes a watermark from whatever answers
  have arrived. Correct: Durable means a quorum; at least the minimum of replicas has
  reached the watermark.
* **Epochs at the follower** are checked, stored and used in separate steps of
  concurrent requests. Correct: epochs never go back, no superseded record enters.
* **Groups** let members act on old generations, and restarts forget. Correct: one
  committer per partition, committed offsets kept, the group settles.
* **Slots** split one fact over a semaphore and a map without a common lock, changes of
  the limit overlap, and removals hold slots over failing tasks. Correct: permits are
  conserved, the limit holds, every removal gives its slot back.
* **Topic creation** spans three locks and one call per partition. Correct: a topic
  reported created is complete, on distinct brokers.
* **The Raft log and snapshot** are files behind memory. Correct: the file replays to
  the log; a state machine started from a snapshot converges.
* **The cache** takes three locks in two orders. Correct: the byte count is exact,
  operations end.
* **The SDK** answers calls from background tasks. Correct: answers name the right
  offset, flush covers what was sent, nothing unacknowledged is committed, close
  returns.

`PROJECT.json` lists every hazard at the line where it bites.

## 2. Modules

| Module | Models | Uses |
|---|---|---|
| `PartitionIndex` | the index as a value, one operator per method | |
| `ColdIndexManifest` | the manifest as its fold plus a torn flag | `PartitionIndex` |
| `SegmentedWal` | the WAL as a value: durable segments, unflushed tail | |
| `Compactor` | the planner as a fold over cold segments | |
| `PartitionStore` | one broker: produce, WAL writer, tiering, compaction, readers, crash and recovery | the four above |
| `PartitionLog` | abstract: a log that only grows, one record per offset, for ever | |
| `ReservationService` | the reservation protocol of one partition, leadership tables | |
| `FencedTiering` | several brokers tiering one range under the reservation | extends `ReservationService` |
| `KthSmallest` | `find_kth_smallest` | |
| `ReplicationManager` | leader-side replication and the followers' data path | `KthSmallest` |
| `FollowerHandler` | epoch handling of concurrent requests at a follower | |
| `GroupCoordinator` | one consumer group, its members, snapshots and restarts | |
| `DecommissionSlots` | the slot manager and changes of its limit, which may overlap | |
| `ScalingManager` | removing and adding brokers | extends `DecommissionSlots` |
| `ControllerMetadata` | topics, brokers and assignments of the controller | |
| `RaftStorage` | log, state machine and snapshot file of one controller node over restarts | |
| `LruCacheShard` | one shard of the LRU cache, lock by lock | |
| `SdkProducer` | producers of the Rust SDK, the broker's produce handler and `append_records` under it | |
| `SdkConsumer` | a consumer of the Rust SDK on one partition | |
| `FencedTiering_proof` | theorems about the reservation and fenced tiering | |
| `GroupCoordinator_proof`, `ReplicationManager_proof` | theorems about the module of that name; the second also about the two algorithms of `MCAlgorithms` | `SharedLemmas` |
| `Controller_proof` | theorems about `RaftStorage`, `ControllerMetadata`, and the slots and the scaling manager | `SharedLemmas` |
| `Tasks_proof` | theorems about `LruCacheShard`, `SdkProducer` and `SdkConsumer` | `SharedLemmas` |
| `PartitionStore_proof` | theorems about `PartitionStore`, lemmas about the four modules under it | `SharedLemmas` |
| `Compaction_proof` | theorems about `PartitionStore` with its compaction task: object lifetime, durability, reads, refinement | `PartitionStore_proof` |
| `SharedLemmas` | remainders, minima and maxima, folds over sequences and sets, sums; what the compaction planner plans | |
| `MCPartitionStore`, `MCFencedTiering`, `MCReplication`, `MCFollowerHandler` | constants for TLC | |
| `MCComponents`, `MCTasks` | components that do not call one another, side by side | |
| `MCAlgorithms` | the inputs of the planner and of `find_kth_smallest`, and what both must return | part of `MCComponents` |

Conventions. A method that runs under one lock is a pure operator on the state it
locks and keeps its Rust name; an action is one stretch of code between two
awaits or lock releases, so `PartitionStore::append` is `AwaitCapacity`,
`InsertHot`, `WalAppend` (or `WalAppendErr` and `AppendRollback`), and
`tier_segment` is `TierReadSegment`, `TierPreCheck`, `TierUpload`,
`TierPostCheck`, `TierRegister`, `TierFlip`, `TierReclaim`. Variables named as
history (`issued`, `acked`, `failed`, `owned`, `late`, `durable`, `expected`, ...)
are never read by a guard. Operators whose comment says *Mutant* are faulty
variants of the definition that follows them: replacing the definition by the
variant makes the property named in `PROJECT.json` fail, which shows that the
property can fail.

How state corresponds to code, where it is not one to one:

* A record is its partition, offset, size and an identity that distinguishes two
  records issued for one offset. Payload bytes, headers and CRCs are left out.
* An object key is `<<partition, start, end>>`, all that the code's key format
  depends on. An object's body is its sequence of records. Its size is the number
  of its records.
* `leads[tp]` in `PartitionStore` stands for the answer of `may_tier`; that the
  answer changes at any time is what `ReservationService` and `FencedTiering`
  justify.
* Whether a periodic cycle seals the active segment depends on size and age: a free
  choice. A forced seal happens exactly above the soft limit.
* An I/O error is possible at every await of the tiering and compaction tasks; the
  upload or manifest write it interrupts may have taken effect.
* The version compared by a conditional write is the object's content, as in the
  local backend, whose ETag is a hash of it.
* `ScalingManager` extends `DecommissionSlots` as the code calls it: acquiring a slot
  is the slot manager's steps plus what the scaling manager does with the answer. It
  keeps the limit constant; changes of it are checked on the slots alone.
* `RaftStorage` has two external variables: the commands the cluster has chosen
  (`chosen`) and the entries OpenRaft believes this node has (`raftLog`); it appends,
  truncates, applies and purges according to them. The code keeps the file (`raftWal`)
  and the cache.
* A lock of the cache is taken in one step and a section runs, releasing all of its
  locks, in another; only the order of the locks and the sections is kept.
* The broker of `SdkProducer` is `handle_produce`, which appends record by record; each
  append is the three steps of `append_records` (`core.rs:248-282`): it reads the
  watermark, appends at that offset across an await, and stores the watermark, with other
  requests in between. A time-out leaves the request with the broker.
* The broker of `SdkConsumer` is a fixed log and one committed offset, and answers as the
  SDK expects it to. Against this repository's broker that holds for joining, leaving,
  committing and fetching the committed offset, whose requests both sides encode with
  bincode. It does not hold for fetching records, seeking and metadata: the SDK sends these
  as JSON (`consumer.rs:604`, `690`, `755`, `1030`, `1441`) and the router decodes bincode
  (`quic_server.rs:228-232`), so that they fail there. `SdkConsumer` says what the consumer
  does once the two agree.
* A controller node whose write to the log file fails stays up with a storage OpenRaft has
  given up (`LogAppendFails`); the line may be in the file or not. A stop that is a
  shutdown lets a snapshot that is being saved finish, a crash does not.
* Group members are external code: they commit under the generation they joined
  with and join again when a heartbeat is refused.

## 3. Runs

Passing runs show their properties on every behaviour within the bounds:

| Run | Question | Bounds |
|---|---|---|
| `store_tiering` | Does one partition survive failures and a crash anywhere in produce and tiering, for acks leader and all? Refines `PartitionLog`. | 2 offsets, 2 attempts each, 4 segments, one crash, one I/O error |
| `store_fencing` | Is a shared segment with a fenced group retained and re-tiered without harm; how far do two appends that pass the budget check together exceed it? | 2 partitions, 2 producers, 2 offsets, 1 loss of leadership, any number of gains; budget 6, records of size 3 |
| `store_compaction` | Do compaction, tiering, reads and restarts agree; does a cold offset stay mapped through index swaps and the recovery's fold? | 3 offsets, batches of 1 or 2, one reader, two restarts outside a tiering cycle |
| `store_backpressure` | Is the byte counter exact, and does a blocked append get in, with WAL, upload and manifest errors? | 1 producer (others may take the room that was freed, and nothing in the code is fair about it), budget 5, records of size 2, batched fsync |
| `fenced_tiering` | Is there one owner per epoch, does `acquire` return, and what do the two fence checks guarantee? | 2 brokers, 2 calls, 2 epochs, 2 retries, storage errors, restarts |
| `replication` | Does Durable mean a quorum; has the minimum of replicas reached the watermark, whatever overlaps and fails? | 2 followers, 2 calls, 2 records, 2 failing sends, 1 stale heartbeat, any membership changes; a lag of 2, so that a follower without records counts as in sync (a lag of 1 gives the same states) |
| `components` (1.9 million states) | Safety, one component per behaviour: | |
| - group | Is a stable assignment exact; are earlier owners fenced and offsets kept while the broker is up? | 2 members, 2 partitions, 3 generations, 1 departure, 2 commits of 2 values, 1 failing append, a snapshot every 2 commits, 1 restart |
| - slots | Are permits conserved through overlapping changes; are they as many as the limit? | 2 callers, 1 broker, 2 operations, limits 1 and 2, 2 changes that may overlap, expiry at any time |
| - metadata | Is a topic that was reported created complete? | 2 creators of one topic, 2 brokers, 1 or 2 partitions and replicas, 6 requests, elections without peers (with peers none is won) |
| - raft | Does the file replay to the log; does the state machine converge? | 2 chosen commands about a topic (a broker is added and removed like a topic without assignments; the theorems are about both), 4 frames, a cache of 2 entries, a snapshot after every entry, 2 restarts, failing writes |
| - producer | Does a message lie at the offset its sender was told; does a flush cover what was sent? | 2 producers, batches of 2, 3 messages, 1 flush, 1 failing append or time-out |
| - consumer | Is only what was processed committed; does the group's offset go back? | 3 offsets, fetches of 2, 2 deliveries, one upset out of nack, seek, failed commit, failed fetch, pause; auto-commit and close |
| - cache | Is the byte count exact, within the size, everything evictable? | 2 threads, 2 keys, 2 sizes, 4 operations |
| - algorithms | Are plans mergeable and maximal; is the k-th smallest right for every k? | every index of 5 ranges, 4 sizes around the thresholds, gaps; every sequence of 6 offsets of 4 values |
| `tasks` (89 thousand states, liveness) | Progress, one component per behaviour: | |
| - scaling | Does a removal end and its slot come back, whichever step fails; does the limit hold while it works? | 2 callers, 2 brokers, 2 operations, limit 1, 1 addition, failing rebalances, expiry at any time |
| - producer | Is every send answered; does every flush return? | 2 producers, batches of 2, 2 messages, 1 flush, 1 failing append or time-out |
| - consumer | Does close return? | 2 offsets, one upset out of nack, failed commit, failed fetch |
| - cache | Do operations end? | 2 threads, 2 keys, 3 operations |

`components` and `tasks` put side by side components that share no state and do not call
one another: the first state chooses a `subject`, whose actions run while the others stay
in their initial states, so the states are those of the components one after the other,
and every property is about one of them. In `tasks` the fair actions of the others are
not enabled in their initial states. The invariants of a component hold in its initial
state, so the other subjects add nothing to what a property shows.

The bounds are the smallest at which the case of interest happens: two records so that
one can be tiered and the other hot; three so that a merged object has a neighbour; two
brokers, calls, producers or handlers for each race; a crash and an error together so
that a retry meets recovery; two members and a departure so that a generation is left by
one of them; as many frames as a controller node needs to write two entries, restart and
write them again. The code retries a conditional write three times; the run has two
retries, and the proofs cover any number. Deadlock checking is off where bounds on
offsets, attempts or faults let a behaviour run out of steps; it is on for the
reservation, which can always go on.

Some properties have a condition, because the code keeps them only so far:
`OneCommitterPerPartition` and `CommittedOffsetKept` hold until the broker restarts;
`SlotAccounting` has as many permits as the limit unless a change of it met another
change or a slot on its way (`overlapped`, a history variable), and conserves them
always; `CreatedTopicComplete` excepts a topic deleted while it was being created
(`raced`); `AnsweredOffsetExact` is about the sends of requests that did not race
(`racedRequests`), whatever races there were before, beside and after them; `HotBounded`
allows the budget and a largest record for each other producer; `CacheAccounting` bounds
the shard until two puts overlap; `CacheOpsEnd` and `CloseReturns` name the one
situation in which the code deadlocks. `store_compaction` restarts only between tiering
cycles (`CrashDuringTiering = FALSE`) and has no fencing, because re-tiering is not
idempotent once compaction has merged a range. What lies beyond is listed next.

Four runs expect a violation. Each states what a comment of the repository says and
shows a behaviour of the code that disagrees; `PROJECT.json` quotes the comment:

* `store_compaction_vs_retry`: a crash between flip and WAL reclaim, then a compaction and
  the retry of the tiering at the same time. The retry registers the source range again
  inside the merged one and uploads its object again; the compaction's last step deletes
  that object as a source it has merged, and acknowledged records cannot be read. (If the
  compaction has finished before the retry, they can, until a restart deletes the object as
  an orphan.)
* `store_concurrent_produce`: two produces acknowledge one offset.
* `fenced_clobber`: the upload itself is not fenced.
* `follower_stale_append`: the epoch is checked before an await and used after it.

### Divergences without a run

The models show further disagreements between a statement in the repository and the
code. They are not kept as runs; each can be reproduced from the configuration named,
with the property as the only one and the constants changed as said.

| Property | Says | Shown with |
|---|---|---|
| `ColdNeverUnmapped` | `partition_store.rs:515`: a later cycle re-uploads as no-ops | `store_fencing` with `Compaction <- SmallMerges` and 4 segments: a fenced segment is tiered again after its range was merged |
| `LiveNotOrphaned` | `cold_index.rs:73`: orphans are what compaction superseded | `store_compaction_vs_retry`: the re-registered source stays an orphan, and recovery deletes it |
| `FailedNeverServed` | `partition_store.rs:230`: an un-acked record is never served | `store_tiering` with one failing WAL append (`wal`) as the only fault: the frame of a failed append stays in the tail and the next flush writes it |
| `HotBounded` without `(Cardinality(Producers) - 1) * Max(Sizes)` | `partition_store.rs:211`: bounded memory | `store_fencing`: two producers pass the check before either inserts |
| `AckedReadable` | `cold_index.rs:31`: no data or index loss | `store_tiering` with one torn manifest append (`tear`) and one crash: frames behind the torn one are lost at the next load |
| `NoStrandedHot` | `partition_store.rs:214`: insert first, or the copy is never evicted | `store_tiering` with batches of 2 and acks `All` only: acks above leader append twice, and the second copy is indexed behind a cold range |
| `FencedHasCause` | `reservation.rs:35`: Fenced means a newer leader owns it | `ReservationService` with 4 epochs, 3 retries, no errors: three lost races end in Fenced |
| `HolderKnowsEpoch` | `partition_store.rs:51`: the epoch this node leads is recorded | `ReservationService` without errors: two acquires of one broker finish in the other order |
| `[][high_watermark' >= high_watermark]_vars` | `manager.rs:322`: never decrease it | `replication`: two recalculations interleave between compare and store |
| `WatermarkReached` with the records below the watermark in place of the next offset | `manager.rs:317`: min_in_sync_replicas have it | `replication` with one call: a follower that missed a record answers with one past its highest offset, so that it counts as having reached what it has a gap below |
| `RemainingSendsComplete` | `manager.rs:252`: remaining futures complete in background | `FairSpec` without failures: returning drops the futures |
| `DurableOnQuorum` | `docs/configuration-reference.md:162`: minimum replicas for durability | `replication` with no followers, which is how `broker.rs:222` builds its manager: Durable from one replica |
| `EpochNeverDecreases` | `follower.rs:58`: only a higher epoch is taken | `follower_stale_append`: the older of two new epochs is stored last |
| `GroupSettles` | `README.md:43`: Kafka-compatible protocol | `FairSpec`, two members, no departures or restarts, `GenerationModulus = MaxGeneration` (so that generations come round within the bound, which `GroupConstants` otherwise excludes): each join of a stable group sends the others back to join |
| `CommittedOffsetKept` without `restarts = 0` | `README.md:43`: WAL-backed offset persistence | `components`: a restart loads the snapshot and replays nothing |
| `RecoversLastSnapshot` | `snapshot.rs:46`: loads the latest snapshot | `components` with two restarts and a snapshot after every commit: numbers restart at zero, the highest is not the newest |
| `SlotAccounting` without `~overlapped` | `service.rs:1029`: the difference is calculated | `components`: the map and the semaphore are read apart, a slot in between is counted twice or not at all; two changes from 1 to 2 both add a permit |
| `CreatedTopicComplete` without `raced` | `create_topic` answers success for a topic that has all its partitions (`service.rs:577`) | `components`: a topic deleted between two assignments is reported created though it is gone, and the later assignments stay for the next topic of the name |
| `LogSurvivesRestart` | `openraft_storage.rs:186`: "Persistent Raft log storage with WAL and crash recovery" | `RaftSpec` with one restart: the entries are read back into the cache but the last log id is not restored, so OpenRaft is told of an empty log |
| `ReplayConverges` for assignments | the state machine is a function of the log | `RaftSpec` with `chosen` starting as an assignment, a deletion and a creation of one topic, `MaxRaftWal = 6`: the entries are applied again over the snapshot, and the deletion that found no topic the first time finds one now |
| `AnsweredOffsetExact` without `racedRequests` | `producer.rs:700`: sequential offsets from the first one | `components`: two requests read one watermark and are told the same offset, or their records alternate |
| `CacheAccounting` without `~overlap` | `cache.rs`: the shard has `max_size_bytes` | `components`: both puts make room before either inserts |
| `CacheOpsEnd` without `Entangled` | operations return | `tasks`: an eviction holds the size and waits for the entries, an insertion the other way round |
| `CloseReturns` without its premise | `consumer.rs:804`: close the consumer | `tasks`: a pending `receive` holds the receiver, the fetch loop waits for `is_closed`, `close` holds `is_closed` and waits for the receiver |

Read in the source while modelling, and not stated as properties:

* `flush` answers Ok though its batch failed (`producer.rs:775`), and a producer accepts
  messages after `close`; no request carries the sequence numbers it counts.
* The SDK consumer never fetches offset 0 and continues after a seek at the offset behind
  its target; `close` leaves the group before the final commit, which the coordinator then
  refuses; the generation it sends is always 1 (`consumer.rs:555`).
* The vote, the committed index and `last_applied` of the Raft storage are not read back
  after a restart (`openraft_storage.rs:427`); `get_current_snapshot` (870) writes a
  format that `install_snapshot` (836) does not read; two saves share one temporary file.
* `create_topic` leaves the topic registered when there are not enough brokers
  (`service.rs:519`); the internal topic gets no assignments; two requests for one broker
  can both get a slot (`service.rs:929`); a broker marked Unhealthy is never marked
  Healthy again (`service.rs:404`).
* An error of the rebalancer ends a removal as Failed and leaves its broker Draining
  (`scaling/manager.rs:329-331`, `347-349`; modelled, and `RemovalEnds` asks for the slot
  only). Both rebalancers of `scaling/operations.rs` always answer Ok.
* Cold reads are cached by partition and offset without `max_bytes`
  (`partition_store.rs:299`); compaction is not fenced (`compaction.rs:54`); the heartbeat
  task sends the epoch it started with (`manager.rs:462`); the coordinator appends every
  offset record at offset 0 (`coordinator.rs:351`); the bandwidth limiter's refill loses
  updates (`object_storage.rs:357`); the local backend rewrites a reservation in place
  while it may be read (`object_storage.rs:126`); a produce with acks above leader ignores
  the level replication answers (`core.rs:273`).

**Fairness.** `PartitionStore`: weak fairness of the tiering task, a loop on a
one-second timer, and of each append's own steps (tokio runs ready tasks; the wait
in `await_capacity` has a timeout, so a lost notification does not stop it). Nobody
has to produce, and faults are never fair. `ReservationService`: weak fairness of
each call's own steps (`FencedFairSpec`): storage answers or fails. No run of
`ReplicationManager` or `GroupCoordinator` uses their `FairSpec` or `FairGroupSpec`,
which are there for the liveness statements of the table above. `ScalingManager`: weak
fairness of spawned removal tasks, of requests inside the controller, of the cleanup task
and of the hour after which a slot expires; nobody has to ask for a removal.
`SdkProducer`: weak fairness of the batching task (its `select!` has a timer) and of the
broker serving what it has; a client need not send, time out or fail. `SdkConsumer`: weak
fairness of the fetch loop, of requests in flight and of a receive or close that can go
on; the application need not receive or acknowledge. `LruCacheShard`: weak fairness of a
section that has its locks and strong fairness of taking a free lock, the one strong
assumption of the project: parking_lot hands a contended lock to a waiting thread at the
latest every half millisecond, so a thread does not lose the race for ever.

## 4. Proofs

TLAPS proves the following for every value of the constants. Each module's named
assumption on its constants is the only one made, unless a hypothesis is given; it
says that bounds are naturals, that the sets over which something is counted are finite
and that the absent value is none of the others.

### Reservation and fenced tiering (`FencedTiering_proof`)

* `ReservationTyped`: `Spec => []TypeOK`;
* `EpochsHaveOneOwner`: no two brokers are ever answered Owned for one epoch;
* `VerifyAcceptsNewest`: what `verify` accepts is the newest grant;
* `ReservationAdvances`: the object moves only to higher epochs;
* `FencedImplementsReservation`: fenced tiering implements the reservation protocol (by
  the identity mapping: tiering steps leave the reservation alone), so that the theorems
  above hold of it;
* `FencedTyped`: `FencedSpec => []FencedTypeOK`;
* `AtMostOneLateUpload`: a superseded leader uploads at most one object per claim.

`OneOwnerPerEpoch` is not inductive by itself: a call about to write might write
over a granted claim of its own epoch. `Inv` adds that the object covers every
granted claim (`OwnedCovered`: it has a higher epoch or is that claim), that a call
about to write saw nothing or an older epoch (`SeenOlder`), and that only granted
claims are, or are about to be, in a leadership table (`SetOwned`, `LeadsOwned`).
A conditional write succeeds only over what was seen, so the object moves from an
older epoch to the call's own (`WriteAdvances`) and covers every earlier grant; a
read that finds its own epoch finds its own claim (`OwnEpochIsOwnClaim`).
`FencedInv` adds that a broker past a check holds a covered claim
(`CheckedCovered`) and that a claim with a late upload has been passed by the
reservation and is not about to be uploaded under again (`LatePassed`): since epochs
only advance, `verify` rejects a passed claim for ever.

### Slots and scaling (`Controller_proof`)

* `SlotsTyped`, `SlotsAccounted`: `SlotsSpec => []SlotsTypeOK`, `SlotsSpec =>
  []SlotAccounting`, with any number of changes of the limit under way at once;
* `ScalingImplementsSlots`: `ScalingSpec => SlotsSpec`, so that both hold of the scaling
  manager;
* `DecommissionsAreLimited`: no more brokers are drained at once than the limit, as long
  as no removal outlives its slot.

`SlotAccounting` speaks of cardinalities, so that its first part needs to know that an
operation entered is new and one removed was there: `SlotInv` adds that only operations
handed out are active or on their way back, and not both (`IssuedOps`), and with it each
step moves one permit from one summand to another (`PermitsBalance`, lemma
`BalanceStep`). The second part needs what a change of the limit carries between its
steps (`LimitTracked`): unless a slot moved since or another change was under way, there
is one change, and the active operations it counted and the permits it still has to add
or forget lead from the permits there are to the new limit, and between the last permit
and the stored configuration both agree (`LimitStep`). `DecommissionsLimited` follows
from the balance once every unfinished removal is known to hold a slot that has not
expired (`RemovalHoldsSlot`).

### Consumer groups (`GroupCoordinator_proof`)

* `GroupTyped`: `GroupSpec => []GroupTypeOK`;
* `AssignmentExact`: a stable group gives every partition exactly one owner, and shares
  that differ by at most one, restarts included;
* `OneCommitter` and `OffsetsKept`: until a restart the coordinator would accept a commit
  of one partition from one member only, and a fetch returns the offset acknowledged
  last or one whose commit failed since.

The assignment of a stable group is always the one a join dealt from some order of the
members (`WellDealt`, of the groups in snapshot files too), and dealing round robin is
exact by division with remainder (lemmas of `SharedLemmas`). For the committers,
`GenerationFences` says that no member is ahead of the group, that none has the
generation being prepared, and that one member at most holds partitions of the current
generation: the coordinator assigns when a member joins, and hands the result to that
member alone.

### Replication (`ReplicationManager_proof`)

* `KthCorrect`: `find_kth_smallest` returns the k-th smallest of any sequence of offsets
  for any k, on each of its three branches; `KthExact` is `[]KthIsKth` from it;
* `PlannerExact`: `AlgorithmsSpec => []PlansExact`, the compaction planner on any index in
  offset order, of any length, sizes and gaps;
* `DurableRecordsOnQuorum`: a record answered Durable is on `min_in_sync_replicas`
  replicas;
* `WatermarkIsReached`: whatever overlaps, fails, is forgotten or comes late, at least
  `min_in_sync_replicas` replicas have reached the watermark.

Hypothesis: `Followers = {} => MinIsr = 1`, because `replicate_record` answers Durable
without followers whatever the minimum (`manager.rs:206`; see the divergences above).
`ReplicationInv` adds what calls in progress know to be stored (`CallsHold`,
`AnswersHold`), that whatever speaks of a replica's next offset (answers and
heartbeats on their way, the follower states) does not exceed what the replica
has reached (`ReportsReached`), and that the watermark, and one a call is about to store
after its comparison, has been reached by enough replicas (`WatermarksReached`). Logs only
grow, so that this survives any delay between comparison and store. That the value picked
from the follower states has been reached is `KthCorrect` and a count of the positions at
or above it (`PickedIsReached`). The heap of
`find_kth_smallest` is followed along the sequence by an invariant of the fold: it holds
the k smallest so far.

`PlannerExact` assumes `max_sources >= 2` (the default is 10): with 1 the planner would close
a plan of a single segment. Its invariant along the fold (`PlannerInv` of `SharedLemmas`)
says that the open run is the last segments seen, that the plans lie before it and in order,
and that every mergeable pair up to the run is settled. The lemma under it,
`PlannerCorrect`, is about any sequence of segments and can be used for a plan made in
`PartitionStore`.

### Controller (`Controller_proof`)

* `WalKeepsLog`: the file gives back every entry of the log, for any truncations,
  rewrites, purges, failed writes and restarts. `LogStored`: the last line of an index
  in the file is the entry;
* `ReplayReachesOutcome`: a state machine that has replayed as far as it ever had knows the
  topics and brokers the chosen commands leave. `Replaying`: whatever is in memory, in a
  copy or in the file knows only what some applied command names (`KnownBy`), and of what
  the replay has come past, the machine has what the commands say. The attempt to prove an
  earlier form of the property, which compared with the position of the loaded snapshot,
  failed for a good reason: a node stopped half-way through a replay may have saved a
  mixture of an older and a newer state under the lower position. `ReplayConverges`
  therefore compares with `furthest`, the last entry the node ever applied. The mixture takes
  two restarts and five frames, one frame beyond the run's bounds; the theorem has none;
* `TopicsComplete`: a topic reported created is complete, unless it was deleted meanwhile.
  `MetadataInv`: a topic has one call at most, and its assignments are exactly what that call
  has come to (`TopicInv`, `CallAssigned`, `AssignedUpTo`).

### Cache and SDK (`Tasks_proof`)

* `CacheAccounted`: `CacheSpec => []CacheAccounting`, for values that fit into a shard
  (`ValuesFit`; `LruCache::put` evicts everything for a larger one and then exceeds the
  size). `CacheInv` adds that a put between its two sections has room (`RoomKept`); the
  count is followed through a sum over a finite set;
* `FlushAnswersSends`, `OffsetsToldAreRight`: what a flush covers is before it in the queue,
  in the batch or answered (`FlushInv`), and a request whose producer waits has that batch
  (`ServingInv`). A request that has not raced has its records next to each other and, once
  it has finished, out of everybody's reach: the watermark and the offset of every record
  still on its way are beyond them (`Placed`, `Below` of `LogInv`). Requests that race may
  take the watermark back, but never below a record placed before they read it;
* `CommitsAreProcessed`: the tracker and the acknowledgements queued hold processed offsets
  only (`AcksProcessed`), and the fold over a batch of acknowledgements keeps it;
* `CommitsMonotonic`: without a seek or a time-out every commit in flight carries the
  tracker's offset (`CommitsCurrent`).

### Partition store (`PartitionStore_proof`)

* `HotBytesCounted`: `Spec => []HotBytesExact`: the byte counter that admission reads
  is the size of the records in memory, for any partitions, producers, record sizes,
  faults and restarts;
* `BudgetKept`: `Spec => []HotBounded`: the records in memory exceed the hot budget by at
  most one largest record for each producer but one, for any number of producers.

The counter is changed by differences (the size of what an insert replaces, of what a
rollback removes, of what a flip evicts), so the proof has to know that each difference is
taken over records that are really there: `Exact` says so of an index, and one lemma per
index operation shows that it is kept (`insert_hot`, `remove_hot`, `flip_to_cold`,
`insert_cold`, `replace_cold`, and the two folds of recovery). `StoreTyped` adds what the
arguments of these operations need wherever they come from: the records of the WAL's
segments, also those that a crash tears, of a segment read back by tiering, of objects
downloaded and merged by compaction, and the ranges of the manifest, also when its folding
replaces some; and that a produce in progress has a record left to append.

`await_capacity` reserves nothing between its check and the insert, so appends that pass
the check together are all inserted; the invariant (`Admitted`) is that the records let
through and not yet inserted fit below the bound, each counted as a largest one except at
most one. `BudgetKept` has two hypotheses that matter (`Admission`), and TLC refutes the
theorem without either: records smaller than the budget, because one as large is let
through rather than blocked for ever (`partition_store.rs:240`); and no restart, because
recovery loads every sealed segment whatever the budget.

Durability and reads. Under `Orderly` (below), for any partitions, producers, batch and
record sizes, budgets, offsets, and any number of crashes, failed uploads and manifest
appends, and lost and regained leases:

* `NothingStranded`: `Spec => []NoStrandedHot`;
* `Durable` and `Readable`: `Spec => []AckedDurable`, `Spec => []AckedReadable`: the disk
  restores every acknowledged record, and a read returns it, at every step;
* `OffsetsFresh`: `Spec => []OffsetsNotReused`;
* `NeverUnmapped`: `Spec => ColdNeverUnmapped`;
* `ImplementsPartitionLog`: `Spec => StoreIsPartitionLog`, the refinement;
* `ViewsAgree`: `Spec => []ColdViewsAgree`, if moreover tiering I/O does not fail: a manifest
  append that took effect and was reported as failed leaves a range that memory does not have.

`Orderly` is what the code needs for them, or what a finding shows it does not survive:

| hypothesis | why |
|---|---|
| one producer per partition | `append_records` reads the watermark, appends, then stores it; the run `store_concurrent_produce` refutes `OffsetsNotReused` for two |
| acks of the leader | Majority and All append every record twice (`core.rs:272` and the replication manager), so that a segment may end with a record already tiered; that case stays with TLC (`store_tiering`) |
| `fsync_on_write` | without it an acknowledged record may be in the tail only, which a crash loses by design |
| no failed WAL append | the frame stays in the tail and the next flush writes it (hazard at `segmented.rs:408`) |
| no torn manifest frame | what is appended after it is not loaded (hazard at `cold_index.rs:147`) |
| no compaction | a merge and a re-tiered segment may delete each other's objects: the run `store_compaction_vs_retry` refutes `AckedReadable` |

None of the properties is inductive: whether a read succeeds after the flip depends on what
was uploaded, which depends on which offsets a segment has, which depends on the order
requests appended in. `StoreInv` is the conjunction of

* `Archive`: a partition's offsets grow along the log (`InOrder`); a range of the manifest
  has its object with one record per offset and is apart from the other ranges
  (`RangesOK`); a range and the group of a sealed segment are apart, or the range *is* that
  group's and its object the group (`SealedAligned`: what makes re-tiering harmless); the
  active segment is above every range (`ActiveAbove`);
* `Memory`: cold ranges in memory are ranges of the manifest; a hot record is in the log or
  its append is in progress; a record of the log is hot or its offset cold;
* `Tierer`: what the tiering task has done so far: groups no longer to do are cold and
  evicted unless one was fenced, and after the upload the object has the group;
* `Clients`: a request has written a prefix of its records, from the watermark on, and
  everything of its partition in the log and the manifest is below what it writes next;
* `AllSafe`: an acknowledged record is in the log, or in the object of a range that memory
  has.

TLC checked `StoreInv` on small instances before it was proved. Each action is one lemma
(`Inv...`), and the facts about sequences they share are about `Keep` (the grouping of a
segment) and `Joined`. Recovery is proved to give back an index with exactly the ranges of
the manifest and a hot record for every record of the log above them (`Recovered`): the two
folds are followed step by step. The refinement adds that acknowledged records were issued
and are below the watermark (`LogInv`). It uses nothing of `StoreInv` but `LogReads`: every
acknowledged record is what a read of its offset returns, there is one per offset, and a
request starts at the watermark; so the same argument (`LogRefines`) serves the store with
compaction. `ViewsAgree` adds that memory and manifest are equal
or differ by the range about to be flipped (`MirrorInv`).

### Compaction (`Compaction_proof`)

Under `Merging`, for any partitions, producers, readers, batch sizes, planner
configurations and crashes, with tiering, compaction and reads interleaved at every step:

* `OrphansSuperseded`: `Spec => []LiveNotOrphaned`;
* `ReadsSurvive`: `Spec => []ReadSurvivesCompaction`;
* `ViewsAgreeMerging`: `Spec => []ColdViewsAgree`, merged ranges included;
* `NothingStrandedMerging`: `Spec => []NoStrandedHot`;
* `DurableMerging` and `ReadableMerging`: `Spec => []AckedDurable` and
  `Spec => []AckedReadable`, at every step of a merge;
* `OffsetsFreshMerging`: `Spec => []OffsetsNotReused`;
* `NeverUnmappedMerging`: `Spec => ColdNeverUnmapped`, across index swaps;
* `MergingImplementsPartitionLog`: `Spec => StoreIsPartitionLog`.

`Merging` keeps the first five hypotheses of `Orderly` (one producer per partition, acks of
the leader, fsync, no failed WAL append, no torn frame) and allows compaction, with a planner
configuration the code accepts. In exchange a tiering cycle is not cut short: no crash in
the middle of one, no failed I/O, no lost lease. That is the line the code draws without
saying so: a cycle that is cut short leaves a segment whose groups are tiered again, and if
compaction has merged their ranges in the meantime the second registration brings a range
back inside the merged one (the run `store_compaction_vs_retry`).

The invariant `MergeInv` keeps of `StoreInv` what does not depend on one range per group.
Its parts:

* `LogOrder`: the order of the log; a group of a sealed segment meets no range of the
  manifest unless this cycle has registered it (`SealedClear`). This is what replaces
  `SealedAligned`, since a merged range is nobody's group;
* `Filed`: in manifest and index, ranges do not overlap, have the key of their bounds, and
  their objects exist;
* `Buried`: the range of an orphan is part of one range of the manifest but not all of it,
  hence is no range's key. A merge only ever makes the enclosing range larger, and a new
  range meets no old one, so that this is kept where "not a live key" alone is not;
* `Merger`: the sources of a plan are consecutive ranges, of the manifest until the merge is
  recorded and of the index until it is swapped in, and the plans of a cycle are apart, so
  that one does not invalidate the next: from `PlannerCorrect` of `SharedLemmas`;
* `Uploader` and `Mirrors`: what each task has done between its manifest append and its
  index update, and that manifest and index differ by just that;
* `ReadsSafe`: the object a read is about to download is one the index names, or the index
  has been swapped since the read resolved it; after the retry, twice.

The merge itself is one fact about maps (`MergedMap`): the ranges that start in [start, end)
become one. If they tile it (`Tiled`), disjointness, what is clear of the map and what is
inside a range all carry over, whether the map is the manifest's or the index's. TLC
checked `MergeInv` on two small instances, of 180 000 and 570 000 states, before it was
proved.

`MergeInv` says where ranges are and nothing of what their objects contain. Durability,
reads and the refinement need the second invariant, `ContentInv`, proved on top of it. A
record is `Present` if it waits in the log, in a segment whose group of its partition has
not been evicted, or is `Archived`: the index range that covers its offset has an object with
it. The parts:

* `BodiesInv`: an object has records of its key's range, one per offset (`AllNeat`); between
  upload and flip the object of the group in work has the group (`Stocked`); from the upload
  of a merge on, the merged object has what the objects of its sources have (`Combined`);
* `HotInv`: memory is exactly what waits in the log or is being appended (`HotBacked`,
  `HotComplete`), and no cold range reaches past the next offset (`PastCold`);
* `RequestsPresent` and `AllPresent`: what a request in progress has appended, and what is
  acknowledged, is present.

Two facts connect it with the disk and with reads. What the index has archived the manifest
has archived too (`ArchivedInManifest`), also between the record of a merge and the swap,
where the two differ: a crash there loses nothing. And a record that is archived is not hot,
so that a read meets it once (`ArchivedNotHot`). TLC checked `ContentInv` on three small
instances, the largest of 570 000 states, before it was proved.

### Not proved

Liveness and fairness, and with them the deadlocks, are out of the prover's reach and stay
with TLC. So do, of the store, `StoreIsPartitionLog` and `NoStrandedHot` with acks of
Majority or All, where records are written twice. The store with both compaction and tiering
cycles that are cut short is not proved correct because it is not: see the run
`store_compaction_vs_retry`.

Recursive functions inside a fold of the community modules can be reasoned about:
`SharedLemmas` shows by induction on naturals that `FoldLeft` over a sequence and a fold
over a finite set have the intermediate results one expects, and each proof carries its
invariant along them. The operators `SelectSeq` and `SetToSortSeq` cannot, since the
provers have no facts about them; models that are proved about use `RemoveFirst` or a
fold (`Keep` and `Joined` of `SegmentedWal`).

## 5. Not modelled

* Bandwidth limiter, in-place writes of the local object storage: planned, see below.
* Auto rebalancer: decides when to rebalance and hands a copy of the assignments to a
  rebalancer that only waits and counts; no state the other components read changes.
* Rolling upgrades and the Kubernetes adapter: steps are delays and log lines.
* Security (ACL, authentication, TLS), ETL, QUIC, admin API and command line, health,
  BigQuery subscriber, Go SDK, stream processing, generated protocol code: rule matching,
  data formats, request handling, and external systems and runtimes. They make up most of
  the repository's lines and little of its concurrent state.
* In modelled components: `max_bytes` of a read, the cached results in front of cold
  objects, byte layouts and checksums, several groups per snapshot file, the vote and
  append-entries handlers of the controller (nothing calls them), `install_snapshot`, the
  health check that marks brokers, the moka cache, several partitions of a consumer, the
  circuit breaker of the SDK (nothing calls it).
* Liveness of `replicate_record`: the fair specification of two overlapping calls is
  beyond five minutes of TLC.

## 6. Plan

1. Done: store, index, manifest, WAL, compaction, reservation, fenced tiering,
   replication, follower epochs, consumer groups; decommission slots, scaling, controller
   metadata, Raft storage, read cache, SDK producer and consumer; proofs about all of them.
2. Next proofs: the store with acks of Majority and All, whose log has a record twice.
3. Next modules: `BandwidthLimiter` (lost updates, oversized requests) and
   `LocalObjectStorage` (in-place conditional put against reads), refined to the atomic
   object of `ReservationService`.
4. Compositions: `ReplicationManager` with `FollowerHandler` (an epoch change during
   replication, the heartbeat task's stale copies), produce acknowledgement with
   replication levels, the SDK consumer with `GroupCoordinator`, the coordinator's offset
   records on the store.
