--------------------------- MODULE Compaction_proof ---------------------------
(***************************************************************************)
(* The partition store with its compaction task, for any partitions,       *)
(* producers, readers, batches, merges and crashes between tiering cycles: *)
(* manifest, index and objects stay consistent while tiering registers     *)
(* ranges, compaction merges them and deletes the sources, and reads are   *)
(* in progress (MergeInv); every acknowledged record stays in the log or   *)
(* in the object its offset resolves to (ContentInv), so that the store is *)
(* durable, readable and an implementation of the partition log.           *)
(***************************************************************************)
EXTENDS PartitionStore_proof

-------------------------------------------------------------------------------
(* The hypotheses and the invariant.                                       *)

\* What the theorems about compaction assume: the discipline of requests and appends, and
\* that a tiering cycle is not cut short once it has registered a range (an I/O error, a
\* crash or a lost lease in the middle of a cycle leaves a segment behind whose groups are
\* tiered again, under ranges that compaction may have merged meanwhile: the run
\* store_compaction_vs_retry).  Crashes outside a cycle, and every interleaving of tiering,
\* compaction and reads, remain.
Merging ==
    /\ Disciplined /\ Faults["io"] = 0 /\ ~ Fencing /\ ~ CrashDuringTiering
    /\ Compaction # NoCompaction => PlannerConfig(Compaction)

\* What does not happen then.
Calm ==
    /\ {"wal", "tear", "io"} \subseteq DOMAIN faults
    /\ faults["wal"] = 0 /\ faults["tear"] = 0 /\ faults["io"] = 0
    /\ manifest.torn = FALSE /\ wal.tail = <<>> /\ \A tp \in Partitions : leads[tp]
    /\ tier.pc \in {"group"} \cup Working => ~ tier.fenced

\* No range of ranges meets [a, e).
Clear(a, e, ranges) == \A b \in DOMAIN ranges : ranges[b].end <= a \/ e <= b

\* The task has registered the group of tp in the segment s.
Handled(t, s, tp) ==
    /\ t.pc \in {"group"} \cup Working /\ s = t.queue[1]
    /\ tp \notin t.todo \/ (t.pc = "flip" /\ tp = t.tp)

\* The groups of the sealed segments that are not registered meet no range.
SealedClear(w, t, live) ==
    \A s \in DOMAIN w.disk : s < w.active => \A tp \in TpsOf(w.disk[s]) :
        Handled(t, s, tp) \/ Clear(StartIn(w.disk[s], tp), EndIn(w.disk[s], tp), live[tp])

LogOrder(w, t, live) == InOrder(w.disk) /\ SealedClear(w, t, live) /\ ActiveAbove(w, live)

\* RequestInv without the safety of the records already appended.
RequestOrder(p, q, mark, disk, live) ==
    /\ q.tp \in Targets[p] /\ q.pc # "rollback" /\ (q.pc = "commit" => q.todo = <<>>)
    /\ q.base = mark[q.tp] /\ Len(q.todo) <= Len(q.recs)
    /\ \A k \in 1 .. Len(q.todo) : q.todo[k] = q.recs[Written(q) + k]
    /\ \A i \in 1 .. Len(q.recs) : q.recs[i].tp = q.tp /\ q.recs[i].off = q.base + (i - 1)
    /\ Below(q.tp, q.base + Written(q), disk, live)
ClientsOrder(prods, mark, disk, live) ==
    /\ \A p \in Producers : Busy(prods[p]) => RequestOrder(p, prods[p], mark, disk, live)
    /\ \A tp \in Partitions : Free(tp, prods) => Below(tp, mark[tp], disk, live)

\* The cold ranges of an index.
ColdOf(idx) == [tp \in Partitions |-> idx.parts[tp].cold]

\* Ranges that do not overlap, under the keys of their objects, which exist.
FiledIn(tp, f, objs) ==
    \A a \in DOMAIN f :
        /\ a < f[a].end /\ f[a].key = ObjectKey(tp, a, f[a].end) /\ f[a].key \in DOMAIN objs
        /\ \A b \in DOMAIN f : a < b => f[a].end <= b
Filed(maps, objs) == \A tp \in Partitions : FiledIn(tp, maps[tp], objs)

\* The range of an orphan is part of a range, but not all of it.
Inside(a, e, f) == \E b \in DOMAIN f : b <= a /\ e <= f[b].end /\ ~ (b = a /\ f[b].end = e)
Buried(orphans, live) == \A k \in orphans : k[2] < k[3] /\ Inside(k[2], k[3], live[k[1]])

\* A plan: its sources are consecutive ranges, at least two, that cover the merged one.
Sources(plan) == ToSet(plan.sources)
SourceOK(s, plan) ==
    /\ s.start \in Nat /\ s.end \in Nat /\ MergedStart(plan) <= s.start /\ s.start < s.end
    /\ s.end <= MergedEnd(plan) /\ ~ (s.start = MergedStart(plan) /\ s.end = MergedEnd(plan))
    /\ s.key = ObjectKey(plan.tp, s.start, s.end)
CoveredBy(plan) ==
    \A o \in Offsets : MergedStart(plan) <= o /\ o < MergedEnd(plan) =>
        \E s \in Sources(plan) : s.start <= o /\ o < s.end
PlanSound(plan) ==
    /\ \A s \in Sources(plan) : SourceOK(s, plan)
    /\ \E s \in Sources(plan) : s.start = MergedStart(plan)
    /\ \E s \in Sources(plan) : s.end = MergedEnd(plan)
    /\ CoveredBy(plan)
PlansApart(plans) ==
    \A p, q \in plans : p # q /\ p.tp = q.tp =>
        MergedEnd(p) <= MergedStart(q) \/ MergedEnd(q) <= MergedStart(p)

SourcesIn(plan, maps) ==
    \A s \in Sources(plan) : s.start \in DOMAIN maps[plan.tp] /\ maps[plan.tp][s.start].end = s.end
MergedIn(plan, size, maps) ==
    /\ MergedStart(plan) \in DOMAIN maps[plan.tp]
    /\ maps[plan.tp][MergedStart(plan)] = ObjectRange(MergedEnd(plan), MergedKey(plan), size)

\* The compaction task: the sources of a plan are ranges of the manifest until the merge is
\* recorded, and of the index until it is swapped in.
Merger(c, live, cold, objs) ==
    /\ \A p \in c.plans : PlanSound(p)
    /\ PlansApart(c.plans)
    /\ c.pc \in {"record", "replace", "delete"} => c.plan \in c.plans
    /\ \A p \in c.plans : (c.pc \in {"replace", "delete"} => p # c.plan) => SourcesIn(p, live)
    /\ \A p \in c.plans : (c.pc = "delete" => p # c.plan) => SourcesIn(p, cold)
    /\ c.pc \in {"record", "replace"} => MergedKey(c.plan) \in DOMAIN objs
    /\ c.pc \in {"replace", "delete"} => MergedIn(c.plan, c.size, live)
    /\ c.pc = "delete" => MergedIn(c.plan, c.size, cold)

\* The group in work.
WorkStart(t, disk) == StartIn(disk[t.queue[1]], t.tp)
WorkEnd(t, disk) == EndIn(disk[t.queue[1]], t.tp)
WorkRange(t, disk) ==
    ObjectRange(WorkEnd(t, disk), KeyIn(disk[t.queue[1]], t.tp), Len(GroupIn(disk[t.queue[1]], t.tp)))

\* The tiering task: its object is uploaded; its range is in the manifest only.
Uploader(t, disk, live, cold, objs) ==
    /\ t.pc \in {"postcheck", "register"} => KeyIn(disk[t.queue[1]], t.tp) \in DOMAIN objs
    /\ t.pc = "flip" =>
          /\ WorkStart(t, disk) \in DOMAIN live[t.tp]
          /\ live[t.tp][WorkStart(t, disk)] = WorkRange(t, disk)
          /\ Clear(WorkStart(t, disk), WorkEnd(t, disk), cold[t.tp])

\* The manifest and the index have the same ranges, but for the range in hand of each task.
Swapping(c, tp, a) ==
    c.pc = "replace" /\ tp = c.plan.tp /\ MergedStart(c.plan) <= a /\ a < MergedEnd(c.plan)
Mirrors(live, cold, t, disk, c) ==
    \A tp \in Partitions :
        /\ \A a \in DOMAIN cold[tp] : (a \in DOMAIN live[tp] /\ live[tp][a] = cold[tp][a]) \/ Swapping(c, tp, a)
        /\ \A a \in DOMAIN live[tp] :
              \/ a \in DOMAIN cold[tp] /\ cold[tp][a] = live[tp][a]
              \/ t.pc = "flip" /\ tp = t.tp /\ a = WorkStart(t, disk)
              \/ c.pc = "replace" /\ tp = c.plan.tp /\ a = MergedStart(c.plan)

\* A read in progress: its object exists unless the index was swapped under it.
InIndex(k, cold) == \E tp \in Partitions : \E a \in DOMAIN cold[tp] : cold[tp][a].key = k
Reads == [pc : {"download", "resolve", "error"}, tp : Partitions, off : Offsets, key : Keys,
          retry : BOOLEAN, swaps : Nat]
ReadSafe(r, cold) ==
    /\ r.pc = "download" /\ r.retry => InIndex(r.key, cold) \/ r.swaps >= 1
    /\ r.pc = "download" /\ ~ r.retry => r.swaps >= 1 /\ (InIndex(r.key, cold) \/ r.swaps >= 2)
    /\ r.pc = "resolve" => r.swaps >= 1
    /\ r.pc = "error" => r.swaps >= 2
ReadsSafe(rd, cold) ==
    DOMAIN rd = Readers /\ \A c \in Readers : rd[c] = IdleReader \/ (rd[c] \in Reads /\ ReadSafe(rd[c], cold))

\* The manifest, the index and the objects, between the steps of the two tasks.
ColdInv(live, cold, objs, orphans, t, disk, c) ==
    /\ Filed(live, objs) /\ Filed(cold, objs) /\ Buried(orphans, live)
    /\ Mirrors(live, cold, t, disk, c) /\ Merger(c, live, cold, objs) /\ Uploader(t, disk, live, cold, objs)

MergeInv ==
    /\ Calm /\ LogOrder(wal, tier, manifest.live)
    /\ ClientsOrder(producer, hw, wal.disk, manifest.live)
    /\ ColdInv(manifest.live, ColdOf(index), objects, manifest.orphans, tier, wal.disk, compact)
    /\ ReadsSafe(reader, ColdOf(index)) /\ acked \in SUBSET Record

-------------------------------------------------------------------------------
(* The order of requests.                                                  *)

\* Two requests in progress are for different partitions.
LEMMA OrderApart ==
    ASSUME Disciplined, NEW prods, NEW mark, NEW disk, NEW live, ClientsOrder(prods, mark, disk, live),
           NEW p \in Producers, NEW tp \in Targets[p], NEW c \in Producers \ {p}, Busy(prods[c])
    PROVE  prods[c].tp # tp
<1>1. prods[c].tp \in Targets[c]
  BY DEF ClientsOrder, RequestOrder
<1> QED
  BY <1>1 DEF Disciplined

\* The fields of a request.
RequestNaturals(q) ==
    /\ q.tp \in Partitions /\ q.base \in Nat /\ q.recs \in Seq(Record) /\ q.todo \in Seq(Record)
    /\ Len(q.recs) \in Nat /\ Len(q.todo) \in Nat /\ Written(q) \in Nat /\ Written(q) <= Len(q.recs)
    /\ q.base + Written(q) \in Nat
LEMMA RequestCounts ==
    ASSUME NEW q, ProducerOK(q), Busy(q), Len(q.todo) <= Len(q.recs)
    PROVE  RequestNaturals(q)
<1>1. RequestOK(q)
  BY DEF ProducerOK, Busy, IdleProducer
<1>2. q.tp \in Partitions /\ q.base \in Nat /\ q.recs \in Seq(Record) /\ q.todo \in Seq(Record)
  BY <1>1, StoreConstants DEF RequestOK, Requests, Ends
<1>3. Len(q.recs) \in Nat /\ Len(q.todo) \in Nat
  BY <1>2
<1>4. Written(q) \in Nat /\ Written(q) <= Len(q.recs) /\ q.base + Written(q) \in Nat
  BY <1>2, <1>3, WrittenFields
<1> QED
  BY <1>2, <1>3, <1>4 DEF RequestNaturals

\* Requests that do not move.
LEMMA OrderStays ==
    ASSUME NEW prods, \A p \in Producers : ProducerOK(prods[p]), NEW mark \in [Partitions -> Ends],
           NEW disk, NEW live, NEW disk2, NEW live2, ClientsOrder(prods, mark, disk, live),
           BelowStays(disk, live, disk2, live2)
    PROVE  ClientsOrder(prods, mark, disk2, live2)
<1>1. ASSUME NEW p \in Producers, Busy(prods[p])
      PROVE  RequestOrder(p, prods[p], mark, disk2, live2)
  <2> DEFINE q == prods[p]
  <2>1. RequestOrder(p, q, mark, disk, live)
    BY <1>1 DEF ClientsOrder
  <2>2. Len(q.todo) <= Len(q.recs) /\ ProducerOK(q) /\ Busy(q)
    BY <1>1, <2>1 DEF RequestOrder
  <2>3. RequestNaturals(q)
    BY <2>2, RequestCounts
  <2>4. Below(q.tp, q.base + Written(q), disk2, live2)
    BY <2>1, <2>3 DEF RequestOrder, BelowStays, RequestNaturals
  <2> QED
    BY <2>1, <2>4 DEF RequestOrder
<1>2. ASSUME NEW tp \in Partitions, Free(tp, prods)
      PROVE  Below(tp, mark[tp], disk2, live2)
  <2>1. mark[tp] \in Nat
    BY StoreConstants DEF Ends
  <2> QED
    BY <1>2, <2>1 DEF ClientsOrder, BelowStays
<1> QED
  BY <1>1, <1>2 DEF ClientsOrder

\* A request whose pc moves.
LEMMA OrderMoved ==
    ASSUME NEW prods, NEW new, NEW mark, NEW disk, NEW live, ClientsOrder(prods, mark, disk, live),
           NEW p \in Producers, \A c \in Producers \ {p} : new[c] = prods[c], Busy(prods[p]), SameRequest(new[p], prods[p]),
           new[p].pc \notin {"idle", "rollback", "commit"}
    PROVE  ClientsOrder(new, mark, disk, live)
<1>1. Busy(new[p])
  BY DEF Busy
<1>2. RequestOrder(p, prods[p], mark, disk, live)
  BY DEF ClientsOrder
<1>3. Written(new[p]) = Written(prods[p])
  BY DEF Written, SameRequest
<1>4. RequestOrder(p, new[p], mark, disk, live)
  <2> DEFINE q == prods[p]
             n == new[p]
  <2>1. n.tp = q.tp /\ n.base = q.base /\ n.recs = q.recs /\ n.todo = q.todo /\ Written(n) = Written(q)
        /\ n.pc # "rollback" /\ n.pc # "commit"
    BY <1>3 DEF SameRequest
  <2> HIDE DEF q, n
  <2>2. RequestOrder(p, q, mark, disk, live)
    BY <1>2 DEF q
  <2>3. RequestOrder(p, n, mark, disk, live)
    BY <2>1, <2>2 DEF RequestOrder
  <2> QED
    BY <2>3 DEF n
<1>5. ASSUME NEW c \in Producers, Busy(new[c]) PROVE RequestOrder(c, new[c], mark, disk, live)
  <2>1. CASE c = p
    BY <1>4, <2>1
  <2>2. CASE c # p
    BY <1>5, <2>2 DEF ClientsOrder
  <2> QED
    BY <2>1, <2>2
<1>6. ASSUME NEW tp \in Partitions, Free(tp, new) PROVE Below(tp, mark[tp], disk, live)
  <2>1. Free(tp, prods)
    BY <1>1, <1>6 DEF Free, SameRequest
  <2> QED
    BY <2>1 DEF ClientsOrder
<1> QED
  BY <1>5, <1>6 DEF ClientsOrder

\* A request that has appended nothing.
LEMMA OrderStarts ==
    ASSUME NEW p, NEW q, NEW mark, NEW disk, NEW live, q.tp \in Targets[p], q.pc \notin {"rollback", "commit"},
           q.base = mark[q.tp], mark[q.tp] \in Nat, NEW recs \in Seq(Record), q.recs = recs, q.todo = recs,
           \A i \in 1 .. Len(recs) : recs[i].tp = q.tp /\ recs[i].off = q.base + (i - 1),
           Below(q.tp, mark[q.tp], disk, live)
    PROVE  RequestOrder(p, q, mark, disk, live)
<1>1. Len(recs) \in Nat
  OBVIOUS
<1>2. Written(q) = Len(recs) - Len(recs)
  BY DEF Written
<1>3. Written(q) = 0
  BY <1>1, <1>2
<1>4. q.base + Written(q) = mark[q.tp]
  <2> DEFINE b == q.base
  <2>1. b \in Nat
    OBVIOUS
  <2> HIDE DEF b
  <2>2. b + 0 = b
    BY <2>1
  <2> QED
    BY <1>3, <2>2 DEF b
<1>5. \A k \in 1 .. Len(recs) : recs[k] = recs[Written(q) + k]
  BY <1>1, <1>3
<1>6. Len(recs) <= Len(recs)
  BY <1>1
<1> QED
  BY <1>4, <1>5, <1>6 DEF RequestOrder

\* ProduceStart.
LEMMA OrderProduceStart ==
    ASSUME Disciplined, StoreTyped, ClientsOrder(producer, hw, wal.disk, manifest.live), NEW p \in Producers, NEW tp \in Partitions,
           NEW n \in BatchSizes, NEW acks \in AckLevels, NEW size \in Sizes, ProduceStart(p, tp, n, acks, size)
    PROVE  ClientsOrder(producer', hw, wal.disk, manifest.live)
<1> DEFINE recs == NewRecords(tp, n, size)
<1>1. /\ \A c \in Producers \ {p} : producer'[c] = producer[c]
      /\ producer'[p].pc = AppendNext /\ producer'[p].tp = tp /\ producer'[p].base = hw[tp]
      /\ producer'[p].recs = recs /\ producer'[p].todo = recs
      /\ tp \in Targets[p] /\ producer[p].pc = "idle"
  BY StartedFields
<1>2. recs \in Seq(Record) /\ Len(recs) = n /\ n \in Nat /\ hw[tp] \in Nat
  BY NewRecordsTyped
<1>3. \A i \in 1 .. Len(recs) : recs[i].tp = tp /\ recs[i].off = hw[tp] + (i - 1)
  BY <1>2, NewOffsets
<1>4. ASSUME NEW c \in Producers \ {p}, Busy(producer[c]) PROVE producer[c].tp # tp
  BY <1>1, <1>4, OrderApart
<1>5. Free(tp, producer)
  BY <1>1, <1>4 DEF Free, Busy
<1>6. Below(tp, hw[tp], wal.disk, manifest.live)
  BY <1>5 DEF ClientsOrder
<1> HIDE DEF recs
<1>7. AppendNext \in {"insert", "capacity"}
  BY DEF AppendNext
<1>8. RequestOrder(p, producer'[p], hw, wal.disk, manifest.live)
  <2> DEFINE q == producer'[p]
  <2>1. q.tp \in Targets[p] /\ q.pc \notin {"rollback", "commit"} /\ q.base = hw[q.tp] /\ q.recs = recs /\ q.todo = recs
        /\ hw[q.tp] \in Nat /\ Below(q.tp, hw[q.tp], wal.disk, manifest.live)
        /\ \A i \in 1 .. Len(recs) : recs[i].tp = q.tp /\ recs[i].off = q.base + (i - 1)
    BY <1>1, <1>2, <1>3, <1>6, <1>7
  <2> HIDE DEF q
  <2>2. RequestOrder(p, q, hw, wal.disk, manifest.live)
    BY <1>2, <2>1, OrderStarts
  <2> QED
    BY <2>2 DEF q
<1>9. ASSUME NEW c \in Producers, Busy(producer'[c])
      PROVE  RequestOrder(c, producer'[c], hw, wal.disk, manifest.live)
  <2>1. CASE c = p
    BY <1>8, <2>1
  <2>2. CASE c # p
    BY <1>1, <1>9, <2>2 DEF ClientsOrder
  <2> QED
    BY <2>1, <2>2
<1>10. ASSUME NEW q \in Partitions, Free(q, producer') PROVE Below(q, hw[q], wal.disk, manifest.live)
  <2>1. Free(q, producer)
    BY <1>1, <1>10 DEF Free, Busy
  <2> QED
    BY <2>1 DEF ClientsOrder
<1> QED
  BY <1>9, <1>10 DEF ClientsOrder

\* ProduceCommit.
LEMMA OrderProduceCommit ==
    ASSUME Disciplined, StoreTyped, ClientsOrder(producer, hw, wal.disk, manifest.live), NEW p \in Producers, ProduceCommit(p)
    PROVE  ClientsOrder(producer', hw', wal.disk, manifest.live) /\ ToSet(producer[p].recs) \subseteq Record
<1> DEFINE q == producer[p]
<1>1. /\ q.pc = "commit" /\ hw' = [hw EXCEPT ![q.tp] = q.base + Len(q.recs)]
      /\ producer' = [producer EXCEPT ![p] = IdleProducer]
  BY DEF ProduceCommit
<1>2. DOMAIN producer = Producers /\ hw \in [Partitions -> Ends] /\ \A c \in Producers : ProducerOK(producer[c])
  BY DEF StoreTyped
<1>3. producer'[p].pc = "idle" /\ \A c \in Producers \ {p} : producer'[c] = producer[c]
  BY <1>1, <1>2 DEF IdleProducer
<1>4. RequestOrder(p, q, hw, wal.disk, manifest.live) /\ Busy(q)
  BY <1>1 DEF ClientsOrder, Busy
<1>5. q.todo = <<>> /\ q.tp \in Targets[p] /\ Len(q.todo) <= Len(q.recs)
  BY <1>1, <1>4 DEF RequestOrder
<1>6. RequestNaturals(q)
  BY <1>2, <1>4, <1>5, RequestCounts
<1> HIDE DEF q
<1>7. q.tp \in Partitions /\ q.recs \in Seq(Record) /\ Len(q.recs) \in Nat
  BY <1>6 DEF RequestNaturals
<1>8. Written(q) = Len(q.recs)
  <2>1. Written(q) = Len(q.recs) - 0
    BY <1>5 DEF Written
  <2> QED
    BY <1>7, <2>1
<1>9. Below(q.tp, q.base + Len(q.recs), wal.disk, manifest.live)
  BY <1>4, <1>8 DEF RequestOrder
<1>10. hw'[q.tp] = q.base + Len(q.recs) /\ \A tp \in Partitions \ {q.tp} : hw'[tp] = hw[tp]
  BY <1>1, <1>2, <1>7
<1>11. ASSUME NEW c \in Producers \ {p}, Busy(producer[c]) PROVE producer[c].tp # q.tp
  BY <1>5, <1>11, OrderApart
<1>12. ASSUME NEW c \in Producers, Busy(producer'[c])
       PROVE  RequestOrder(c, producer'[c], hw', wal.disk, manifest.live)
  <2>1. c # p /\ producer'[c] = producer[c] /\ Busy(producer[c])
    BY <1>3, <1>12 DEF Busy
  <2>2. RequestOrder(c, producer[c], hw, wal.disk, manifest.live)
    BY <2>1 DEF ClientsOrder
  <2> DEFINE b == producer[c]
  <2>3. Len(b.todo) <= Len(b.recs)
    BY <2>2 DEF RequestOrder
  <2>4. RequestNaturals(b)
    BY <1>2, <2>1, <2>3, RequestCounts
  <2>5. b.tp # q.tp /\ b.tp \in Partitions
    BY <1>11, <2>1, <2>4 DEF RequestNaturals
  <2>6. b.base = hw'[b.tp]
    BY <1>10, <2>2, <2>5 DEF RequestOrder
  <2>7. RequestOrder(c, b, hw, wal.disk, manifest.live)
    BY <2>2
  <2> HIDE DEF b
  <2>8. RequestOrder(c, b, hw', wal.disk, manifest.live)
    BY <2>6, <2>7 DEF RequestOrder
  <2> QED
    BY <2>1, <2>8 DEF b
<1>13. ASSUME NEW tp \in Partitions, Free(tp, producer') PROVE Below(tp, hw'[tp], wal.disk, manifest.live)
  <2>1. CASE tp = q.tp
    BY <1>9, <1>10, <2>1
  <2>2. CASE tp # q.tp
    <3>1. Free(tp, producer)
      BY <1>3, <1>13, <2>2 DEF Free, q
    <3> QED
      BY <1>10, <2>2, <3>1 DEF ClientsOrder
  <2> QED
    BY <2>1, <2>2
<1>14. ToSet(q.recs) \subseteq Record
  BY <1>7 DEF ToSet
<1> QED
  BY <1>12, <1>13, <1>14 DEF ClientsOrder, q

\* A request appends at the offset after those it has appended.
LEMMA OrderAt ==
    ASSUME StoreTyped, NEW mark, NEW disk, NEW live, ClientsOrder(producer, mark, disk, live),
           NEW p \in Producers, producer[p].pc \in Appending
    PROVE  /\ RequestOrder(p, producer[p], mark, disk, live) /\ NextRecord(producer[p])
           /\ Below(Head(producer[p].todo).tp, Head(producer[p].todo).off, disk, live)
<1> DEFINE q == producer[p]
<1>1. RequestOrder(p, q, mark, disk, live) /\ Busy(q) /\ ProducerOK(q)
  BY DEF ClientsOrder, Busy, Appending, StoreTyped
<1>2. Len(q.todo) <= Len(q.recs)
  BY <1>1 DEF RequestOrder
<1>3. q.todo \in Seq(Record) /\ Len(q.todo) > 0 /\ Head(q.todo) = q.todo[1] /\ Head(q.todo) \in Record
  BY Incoming
<1>4. RequestNaturals(q)
  BY <1>1, <1>2, RequestCounts
<1> DEFINE n == Len(q.recs)
           m == Len(q.todo)
           k == Written(q)
<1>5. n \in Nat /\ m \in Nat /\ m > 0 /\ m <= n /\ k = n - m
  BY <1>2, <1>3, <1>4 DEF RequestNaturals, Written
<1> HIDE DEF n, m, k
<1>6. k + 1 \in 1 .. n /\ k \in Nat /\ (k + 1) - 1 = k /\ 1 \in 1 .. m
  BY <1>5
<1>7. q.todo[1] = q.recs[k + 1] /\ q.recs[k + 1].tp = q.tp /\ q.recs[k + 1].off = q.base + ((k + 1) - 1)
  BY <1>1, <1>6 DEF RequestOrder, n, m, k
<1>8. NextRecord(q)
  BY <1>3, <1>4, <1>5, <1>6, <1>7 DEF NextRecord, RequestNaturals, n, m, k
<1> HIDE DEF q
<1>9. Below(Head(q.todo).tp, Head(q.todo).off, disk, live)
  BY <1>1, <1>8 DEF RequestOrder, NextRecord
<1> QED
  BY <1>1, <1>8, <1>9 DEF q

\* A request whose next record was appended.
LEMMA OrderGrows ==
    ASSUME NEW p, NEW q, NEW n, NEW mark, NEW w, WalOK(w), NEW v, NEW live \in [Partitions -> Colds],
           RequestOrder(p, q, mark, w.disk, live), NextRecord(q), q.recs \in Seq(Record), q.todo \in Seq(Record),
           OneMore(v, w, Head(q.todo)), n.tp = q.tp, n.base = q.base, n.recs = q.recs, n.todo = Tail(q.todo),
           n.pc # "rollback", n.pc = "commit" => n.todo = <<>>
    PROVE  RequestOrder(p, n, mark, v.disk, live)
<1> DEFINE k == Written(q)
           l == Len(q.recs)
           m == Len(q.todo)
           b == q.base
           rec == Head(q.todo)
<1>1. /\ rec \in Record /\ rec.tp = q.tp /\ rec.off = b + k /\ rec = q.recs[k + 1] /\ k \in Nat /\ b \in Nat
      /\ l \in Nat /\ m \in Nat /\ m > 0 /\ q.tp \in Partitions /\ b + k \in Nat
  BY DEF NextRecord
<1>2. m <= l
  BY DEF RequestOrder
<1>3. k = l - m
  BY DEF Written
<1>4. Len(n.todo) = m - 1 /\ \A i \in 1 .. m - 1 : n.todo[i] = q.todo[i + 1]
  <2>1. q.todo # <<>>
    BY <1>1
  <2> QED
    BY <2>1, HeadTailProperties
<1>5. Written(n) = l - (m - 1)
  BY <1>4 DEF Written
<1> HIDE DEF k, l, m, b, rec
<1>6. Written(n) = k + 1 /\ m - 1 \in Nat /\ m - 1 <= l
  BY <1>1, <1>2, <1>3, <1>5
<1>7. \A i \in 1 .. m - 1 : n.todo[i] = q.recs[Written(n) + i]
  <2> SUFFICES ASSUME NEW i \in 1 .. m - 1 PROVE n.todo[i] = q.recs[Written(n) + i]
    OBVIOUS
  <2>1. i + 1 \in 1 .. m /\ (k + 1) + i = k + (i + 1)
    BY <1>1, <1>6
  <2>2. q.todo[i + 1] = q.recs[k + (i + 1)]
    BY <2>1 DEF RequestOrder, k, m
  <2> QED
    BY <1>4, <1>6, <2>1, <2>2
<1>8. b + (k + 1) \in Nat /\ b + k <= b + (k + 1) /\ b + k < b + (k + 1)
  BY <1>1
<1>9. Below(q.tp, b + k, w.disk, live)
  BY DEF RequestOrder, b, k
<1>10. Below(q.tp, b + (k + 1), v.disk, live)
  BY <1>1, <1>8, <1>9, BelowAppended DEF rec
<1>12. n.tp \in Targets[p] /\ n.base = mark[n.tp]
  BY DEF RequestOrder
<1>13. \A i \in 1 .. Len(n.recs) : n.recs[i].tp = n.tp /\ n.recs[i].off = n.base + (i - 1)
  BY DEF RequestOrder
<1>14. Len(n.todo) <= Len(n.recs) /\ \A i \in 1 .. Len(n.todo) : n.todo[i] = n.recs[Written(n) + i]
  BY <1>4, <1>6, <1>7 DEF l
<1>15. Below(n.tp, n.base + Written(n), v.disk, live)
  BY <1>6, <1>10 DEF b
<1> QED
  BY <1>12, <1>13, <1>14, <1>15 DEF RequestOrder

\* The requests after an append of p.
LEMMA OrderOfOthers ==
    ASSUME Disciplined, NEW prods, \A c \in Producers : ProducerOK(prods[c]), NEW new, NEW mark \in [Partitions -> Ends],
           NEW w, WalOK(w), NEW v, NEW live \in [Partitions -> Colds], NEW rec \in Record,
           ClientsOrder(prods, mark, w.disk, live), OneMore(v, w, rec), NEW p \in Producers,
           \A c \in Producers \ {p} : new[c] = prods[c], RequestOrder(p, new[p], mark, v.disk, live),
           Busy(new[p]), Busy(prods[p]), new[p].tp = rec.tp, prods[p].tp = rec.tp
    PROVE  ClientsOrder(new, mark, v.disk, live)
<1>1. rec.tp \in Targets[p]
  BY DEF RequestOrder
<1>2. ASSUME NEW tp \in Partitions, tp # rec.tp, NEW b \in Nat, Below(tp, b, w.disk, live)
      PROVE  Below(tp, b, v.disk, live)
  <2>1. b <= b
    OBVIOUS
  <2> QED
    BY <1>2, <2>1, BelowAppended
<1>3. ASSUME NEW c \in Producers, Busy(new[c]) PROVE RequestOrder(c, new[c], mark, v.disk, live)
  <2>1. CASE c = p
    BY <2>1
  <2>2. CASE c # p
    <3> DEFINE q == prods[c]
    <3>1. new[c] = q /\ Busy(q) /\ RequestOrder(c, q, mark, w.disk, live)
      BY <1>3, <2>2 DEF ClientsOrder
    <3>2. q.tp # rec.tp
      BY <1>1, <2>2, <3>1, OrderApart
    <3>3. Len(q.todo) <= Len(q.recs)
      BY <3>1 DEF RequestOrder
    <3>4. RequestNaturals(q)
      BY <3>1, <3>3, RequestCounts
    <3>5. Below(q.tp, q.base + Written(q), v.disk, live)
      BY <1>2, <3>1, <3>2, <3>4 DEF RequestOrder, RequestNaturals
    <3>6. RequestOrder(c, q, mark, v.disk, live)
      BY <3>1, <3>5 DEF RequestOrder
    <3> QED
      BY <3>1, <3>6
  <2> QED
    BY <2>1, <2>2
<1>4. ASSUME NEW tp \in Partitions, Free(tp, new) PROVE Below(tp, mark[tp], v.disk, live)
  <2>1. tp # rec.tp
    BY <1>4 DEF Free
  <2>2. Free(tp, prods)
    BY <1>4, <2>1 DEF Free
  <2>3. mark[tp] \in Nat
    BY StoreConstants DEF Ends
  <2> QED
    BY <1>2, <2>1, <2>2, <2>3 DEF ClientsOrder
<1> QED
  BY <1>3, <1>4 DEF ClientsOrder

\* WalAppend: the log has one more record, which is the next of its partition.
LEMMA OrderWalAppend ==
    ASSUME Disciplined, StoreTyped, wal.tail = <<>>, ClientsOrder(producer, hw, wal.disk, manifest.live),
           NEW p \in Producers, WalAppend(p)
    PROVE  /\ ClientsOrder(producer', hw, wal'.disk, manifest.live)
           /\ Head(producer[p].todo) \in Record /\ OneMore(wal', wal, Head(producer[p].todo)) /\ wal'.tail = <<>>
           /\ Below(Head(producer[p].todo).tp, Head(producer[p].todo).off, wal.disk, manifest.live)
<1> DEFINE q == producer[p]
           rec == Head(q.todo)
<1>1. q.pc = "wal" /\ q.pc \in Appending /\ wal' = handle_append(wal, rec, FsyncOnWrite)
  BY DEF WalAppend, Appending
<1>2. /\ RequestOK(q) /\ \A c \in Producers \ {p} : producer'[c] = producer[c]
      /\ producer'[p].pc = IF Len(q.todo) > 1 THEN AppendNext ELSE "commit"
      /\ producer'[p].tp = q.tp /\ producer'[p].base = q.base
      /\ producer'[p].recs = q.recs /\ producer'[p].todo = Tail(q.todo)
  BY RequestAppended
<1>3. /\ RequestOrder(p, q, hw, wal.disk, manifest.live) /\ NextRecord(q)
      /\ Below(rec.tp, rec.off, wal.disk, manifest.live)
  BY <1>1, OrderAt
<1>4. rec \in Record /\ rec.tp = q.tp /\ Len(q.todo) \in Nat /\ Len(q.todo) > 0
  BY <1>3 DEF NextRecord
<1>5. WalOK(wal) /\ manifest.live \in [Partitions -> Colds] /\ hw \in [Partitions -> Ends]
      /\ \A c \in Producers : ProducerOK(producer[c])
  BY DEF StoreTyped, Manifests
<1>6. OneMore(wal', wal, rec) /\ wal'.tail = <<>>
  BY <1>1, <1>4, <1>5, LogAppended
<1>7. q.recs \in Seq(Record) /\ q.todo \in Seq(Record)
  BY <1>2 DEF RequestOK, Requests
<1>8. /\ producer'[p].pc \notin {"rollback", "wal", "idle"}
      /\ producer'[p].pc = "commit" => producer'[p].todo = <<>>
  <2>1. CASE Len(q.todo) > 1
    BY <1>2, <2>1 DEF AppendNext
  <2>2. CASE ~ (Len(q.todo) > 1)
    <3>1. \A s \in Seq(Record) : Len(s) > 0 /\ ~ (Len(s) > 1) => Tail(s) = <<>>
      BY LastOne
    <3>2. Tail(q.todo) = <<>>
      BY <1>4, <1>7, <2>2, <3>1
    <3> QED
      BY <1>2, <2>2, <3>2
  <2> QED
    BY <2>1, <2>2
<1>9. RequestOrder(p, producer'[p], hw, wal'.disk, manifest.live)
  <2> DEFINE n == producer'[p]
  <2>1. n.tp = q.tp /\ n.base = q.base /\ n.recs = q.recs /\ n.todo = Tail(q.todo) /\ n.pc # "rollback"
        /\ (n.pc = "commit" => n.todo = <<>>)
    BY <1>2, <1>8
  <2> HIDE DEF n, q
  <2>2. RequestOrder(p, n, hw, wal'.disk, manifest.live)
    BY <1>3, <1>5, <1>6, <1>7, <2>1, OrderGrows
  <2> QED
    BY <2>2 DEF n
<1>10. ClientsOrder(producer', hw, wal'.disk, manifest.live)
  <2>1. Busy(producer'[p]) /\ Busy(producer[p])
    BY <1>1, <1>8 DEF Busy
  <2>2. \A c \in Producers \ {p} : producer'[c] = producer[c]
    BY <1>2
  <2>3. producer'[p].tp = rec.tp /\ producer[p].tp = rec.tp
    BY <1>2, <1>4
  <2> HIDE DEF rec
  <2> QED
    BY <1>4, <1>5, <1>6, <1>9, <2>1, <2>2, <2>3, OrderOfOthers
<1> QED
  BY <1>3, <1>4, <1>6, <1>10

-------------------------------------------------------------------------------
(* The order of the log and the manifest.                                  *)

\* The ends of ranges are naturals.
Numbered(f) == \A a \in DOMAIN f : a \in Nat /\ f[a].end \in Nat
LEMMA ColdNumbers ==
    ASSUME NEW live \in [Partitions -> Colds], NEW tp \in Partitions
    PROVE  Numbered(live[tp])
BY RangeNaturals DEF Numbered

\* An append.
LEMMA LogOrderAppended ==
    ASSUME NEW v, NEW w, NEW rec, NEW t, NEW live, OneMore(v, w, rec), LogOrder(w, t, live),
           Below(rec.tp, rec.off, w.disk, live)
    PROVE  LogOrder(v, t, live)
<1>1. InOrder(v.disk)
  BY OrderAppended DEF LogOrder
<1>2. SealedClear(v, t, live)
  <2>1. \A s \in DOMAIN v.disk : s < v.active => s \in DOMAIN w.disk /\ s < w.active /\ v.disk[s] = w.disk[s]
    BY DEF OneMore
  <2> QED
    BY <2>1 DEF SealedClear, LogOrder
<1>3. ActiveAbove(v, live)
  <2> SUFFICES ASSUME NEW i \in 1 .. Len(v.disk[v.active]), NEW a \in DOMAIN live[v.disk[v.active][i].tp]
               PROVE  live[v.disk[v.active][i].tp][a].end <= v.disk[v.active][i].off
    BY DEF ActiveAbove
  <2>1. v.active = w.active /\ w.active \in DOMAIN w.disk
    BY DEF OneMore
  <2>2. \/ i \in 1 .. Len(w.disk[w.active]) /\ v.disk[w.active][i] = w.disk[w.active][i]
        \/ v.disk[w.active][i] = rec
    BY <2>1 DEF OneMore
  <2>3. CASE i \in 1 .. Len(w.disk[w.active]) /\ v.disk[w.active][i] = w.disk[w.active][i]
    BY <2>1, <2>3 DEF ActiveAbove, LogOrder
  <2>4. CASE v.disk[w.active][i] = rec
    BY <2>1, <2>4 DEF Below
  <2> QED
    BY <2>2, <2>3, <2>4
<1> QED
  BY <1>1, <1>2, <1>3 DEF LogOrder

\* A step of the task that handles nothing less.
LEMMA LogOrderTier ==
    ASSUME NEW w, NEW t, NEW t2, NEW live, LogOrder(w, t, live),
           \A s, tp : Handled(t, s, tp) => Handled(t2, s, tp)
    PROVE  LogOrder(w, t2, live)
BY DEF LogOrder, SealedClear

\* A group above every range.
LEMMA ClearAbove ==
    ASSUME NEW s \in Seq(Record), OrderedSeq(s), NEW live \in [Partitions -> Colds],
           \A i \in 1 .. Len(s) : \A a \in DOMAIN live[s[i].tp] : live[s[i].tp][a].end <= s[i].off,
           NEW tp \in TpsOf(s)
    PROVE  Clear(StartIn(s, tp), EndIn(s, tp), live[tp])
<1>1. GroupFacts(s, tp)
  BY GroupRange
<1>2. PICK i \in 1 .. Len(s) : s[i].tp = tp /\ s[i].off = StartIn(s, tp)
  BY <1>1 DEF GroupFacts
<1> QED
  BY <1>2 DEF Clear

\* Sealing, when the task has nothing in hand.
LEMMA LogOrderRotated ==
    ASSUME NEW v, NEW w, SameRecords(v, w), NEW live \in [Partitions -> Colds], NEW t, NEW t2, LogOrder(w, t, live),
           t.pc \notin {"group"} \cup Working
    PROVE  LogOrder(v, t2, live)
<1>1. ASSUME NEW s \in DOMAIN v.disk, NEW i \in 1 .. Len(v.disk[s])
      PROVE  s \in DOMAIN w.disk /\ v.disk[s] = w.disk[s] /\ i \in 1 .. Len(w.disk[s])
  <2>1. v.disk[s] # <<>>
    BY <1>1
  <2> QED
    BY <2>1 DEF SameRecords
<1>2. InOrder(v.disk)
  BY <1>1 DEF InOrder, LogOrder
<1>3. SealedClear(v, t2, live)
  <2> SUFFICES ASSUME NEW s \in DOMAIN v.disk, NEW tp \in TpsOf(v.disk[s])
               PROVE  Clear(StartIn(v.disk[s], tp), EndIn(v.disk[s], tp), live[tp])
    BY DEF SealedClear
  <2>1. v.disk[s] # <<>>
    BY DEF TpsOf, ToSet
  <2>2. s \in DOMAIN w.disk /\ v.disk[s] = w.disk[s] /\ s <= w.active /\ w.active \in Nat /\ s \in Nat
        /\ w.disk[s] \in Seq(Record)
    BY <2>1 DEF SameRecords
  <2>3. CASE s < w.active
    BY <2>2, <2>3 DEF SealedClear, LogOrder, Handled
  <2>4. CASE s = w.active
    <3>1. OrderedSeq(w.disk[s])
      BY <2>2, SegmentOrdered DEF LogOrder
    <3>2. \A i \in 1 .. Len(w.disk[s]) : \A b \in DOMAIN live[w.disk[s][i].tp] :
             live[w.disk[s][i].tp][b].end <= w.disk[s][i].off
      BY <2>4 DEF ActiveAbove, LogOrder
    <3> QED
      BY <2>2, <3>1, <3>2, ClearAbove
  <2> QED
    BY <2>2, <2>3, <2>4
<1>4. ActiveAbove(v, live)
  BY DEF ActiveAbove, SameRecords
<1> QED
  BY <1>2, <1>3, <1>4 DEF LogOrder

\* Deleting the segment in hand.
LEMMA LogOrderDeleted ==
    ASSUME NEW v, NEW w, NEW t, NEW t2, NEW live, Deleted(v, w, t.queue[1]), LogOrder(w, t, live),
           t.queue[1] # w.active, w.active \in DOMAIN w.disk
    PROVE  LogOrder(v, t2, live)
<1>1. InOrder(v.disk)
  BY DEF InOrder, LogOrder, Deleted
<1>2. SealedClear(v, t2, live)
  BY DEF SealedClear, LogOrder, Deleted, Handled
<1>3. ActiveAbove(v, live)
  <2>1. v.active = w.active /\ v.disk[v.active] = w.disk[w.active]
    BY DEF Deleted
  <2> QED
    BY <2>1 DEF ActiveAbove, LogOrder
<1> QED
  BY <1>1, <1>2, <1>3 DEF LogOrder

\* Registering the group in hand.
LEMMA LogOrderRegistered ==
    ASSUME NEW w, WalOK(w), NEW live \in [Partitions -> Colds], NEW t, LogOrder(w, t, live), NEW s \in DOMAIN w.disk,
           s < w.active, NEW tp \in TpsOf(w.disk[s]), NEW new, RangeAdded(new, live, w.disk[s], tp), NEW t2,
           Handled(t2, s, tp), \A x, q : Handled(t, x, q) => Handled(t2, x, q)
    PROVE  LogOrder(w, t2, new)
<1>1. InOrder(w.disk)
  BY DEF LogOrder
<1>2. w.disk[s] \in Seq(Record) /\ OrderedSeq(w.disk[s]) /\ DOMAIN w.disk \subseteq Nat /\ w.active \in Nat /\ w.active \in DOMAIN w.disk
  BY <1>1, WalFields, SegmentOrdered DEF WalOK
<1>3. GroupFacts(w.disk[s], tp) /\ tp \in Partitions
  BY <1>2, GroupRange
<1> DEFINE a == StartIn(w.disk[s], tp)
           e == EndIn(w.disk[s], tp)
<1>4. /\ \A q \in Partitions \ {tp} : new[q] = live[q]
      /\ DOMAIN new[tp] = DOMAIN live[tp] \cup {a} /\ new[tp][a].end = e
      /\ \A b \in DOMAIN live[tp] \ {a} : new[tp][b] = live[tp][b]
  BY DEF RangeAdded, Stored, ObjectRange
<1> HIDE DEF a, e
<1>5. SealedClear(w, t2, new)
  <2> SUFFICES ASSUME NEW x \in DOMAIN w.disk, x < w.active, NEW q \in TpsOf(w.disk[x]), ~ Handled(t2, x, q)
               PROVE  Clear(StartIn(w.disk[x], q), EndIn(w.disk[x], q), new[q])
    BY DEF SealedClear
  <2>1. Clear(StartIn(w.disk[x], q), EndIn(w.disk[x], q), live[q])
    BY DEF LogOrder, SealedClear
  <2>2. w.disk[x] \in Seq(Record) /\ OrderedSeq(w.disk[x])
    BY <1>1, WalFields, SegmentOrdered
  <2>3. q \in Partitions
    BY <2>2, GroupRange
  <2>4. CASE q # tp
    BY <1>4, <2>1, <2>3, <2>4
  <2>5. CASE q = tp
    <3>1. x # s
      BY <2>5
    <3>2. x < s \/ s < x
      BY <1>2, <3>1
    <3>3. e <= StartIn(w.disk[x], q) \/ EndIn(w.disk[x], q) <= a
      BY <1>1, <2>5, <3>2, GroupsApart DEF a, e
    <3> QED
      BY <1>4, <2>1, <2>5, <3>3 DEF Clear
  <2> QED
    BY <2>4, <2>5
<1>6. ActiveAbove(w, new)
  <2> SUFFICES ASSUME NEW i \in 1 .. Len(w.disk[w.active]), NEW b \in DOMAIN new[w.disk[w.active][i].tp]
               PROVE  new[w.disk[w.active][i].tp][b].end <= w.disk[w.active][i].off
    BY DEF ActiveAbove
  <2> DEFINE r == w.disk[w.active][i]
  <2>1. r.tp \in Partitions
    BY <1>2, DiskRecords
  <2>2. r.tp = tp => e <= r.off
    BY <1>1, <1>2, GroupsApart DEF e
  <2>3. \A c \in DOMAIN live[r.tp] : live[r.tp][c].end <= r.off
    BY DEF LogOrder, ActiveAbove
  <2> HIDE DEF r
  <2>4. CASE r.tp = tp
    <3>1. b = a \/ b \in DOMAIN live[tp] \ {a}
      BY <1>4, <2>4 DEF r
    <3> QED
      BY <1>4, <2>2, <2>3, <2>4, <3>1 DEF r
  <2>5. CASE r.tp # tp
    <3>1. new[r.tp] = live[r.tp]
      BY <1>4, <2>1, <2>5
    <3> QED
      BY <2>3, <3>1 DEF r
  <2> QED
    BY <2>4, <2>5
<1> QED
  BY <1>1, <1>5, <1>6 DEF LogOrder

-------------------------------------------------------------------------------
(* Merging ranges of a map.                                                *)

\* The ranges of f cover [a, e), the first of them from a on and the last to e.
Tiled(f, a, e) ==
    /\ a \in Nat /\ e \in Nat /\ a < e /\ a \in DOMAIN f
    /\ \E b \in DOMAIN f : a <= b /\ f[b].end = e
    /\ \A o \in Offsets : a <= o /\ o < e => \E b \in DOMAIN f : b <= o /\ o < f[b].end

\* g is f with one range rng from a to e.
MergedMap(g, f, a, e, rng) ==
    /\ DOMAIN g = {x \in DOMAIN f : ~ (a <= x /\ x < e)} \cup {a}
    /\ g[a] = rng /\ rng.end = e
    /\ \A x \in DOMAIN f : ~ (a <= x /\ x < e) => g[x] = f[x]

\* Ranges that do not overlap and are not empty.
Disjoint(f) ==
    Numbered(f) /\ \A a \in DOMAIN f : a < f[a].end /\ \A b \in DOMAIN f : a < b => f[a].end <= b

\* The sources of a plan tile its range.
LEMMA SourcesTile ==
    ASSUME NEW plan \in Plans, PlanSound(plan), NEW maps, SourcesIn(plan, maps)
    PROVE  Tiled(maps[plan.tp], MergedStart(plan), MergedEnd(plan))
<1> DEFINE f == maps[plan.tp]
           ms == MergedStart(plan)
           me == MergedEnd(plan)
<1>1. PICK s \in Sources(plan) : s.start = ms
  BY DEF PlanSound
<1>2. PICK l \in Sources(plan) : l.end = me
  BY DEF PlanSound
<1>3. SourceOK(s, plan) /\ SourceOK(l, plan)
  BY DEF PlanSound
<1>4. ms \in Nat /\ me \in Nat /\ ms < me /\ l.start \in Nat /\ ms <= l.start
  <2>1. s.start \in Nat /\ s.end \in Nat /\ s.start < s.end /\ s.end <= me /\ l.end \in Nat /\ l.start \in Nat /\ ms <= l.start
    BY <1>3 DEF SourceOK
  <2> HIDE DEF ms, me
  <2> QED
    BY <1>1, <1>2, <2>1
<1>5. ms \in DOMAIN f /\ l.start \in DOMAIN f /\ f[l.start].end = me
  BY <1>1, <1>2 DEF SourcesIn
<1>6. ASSUME NEW o \in Offsets, ms <= o, o < me PROVE \E b \in DOMAIN f : b <= o /\ o < f[b].end
  <2>1. PICK x \in Sources(plan) : x.start <= o /\ o < x.end
    BY <1>6 DEF PlanSound, CoveredBy
  <2> QED
    BY <2>1 DEF SourcesIn
<1> HIDE DEF f, ms, me
<1>7. Tiled(f, ms, me)
  BY <1>4, <1>5, <1>6 DEF Tiled
<1> QED
  BY <1>7 DEF f, ms, me

\* A range that starts within a tiled one ends within it.
LEMMA TileEnds ==
    ASSUME NEW f, Disjoint(f), NEW a, NEW e, Tiled(f, a, e), NEW b \in DOMAIN f, a <= b, b < e
    PROVE  f[b].end <= e
<1>1. PICK l \in DOMAIN f : a <= l /\ f[l].end = e
  BY DEF Tiled
<1>2. b \in Nat /\ l \in Nat /\ e \in Nat /\ f[b].end \in Nat
      /\ (b < l => f[b].end <= l) /\ (l < b => e <= b) /\ l < e
  BY <1>1 DEF Disjoint, Numbered, Tiled
<1> DEFINE x == f[b].end
<1>3. b = l => x = e
  BY <1>1
<1>4. x \in Nat /\ (b < l => x <= l)
  BY <1>2
<1> HIDE DEF x
<1>5. x <= e
  BY <1>2, <1>3, <1>4
<1> QED
  BY <1>5 DEF x

\* What is clear of the tiles is clear of the merged range.
LEMMA ClearMerged ==
    ASSUME NEW f, Disjoint(f), NEW a, NEW e, Tiled(f, a, e), NEW rng, NEW g, MergedMap(g, f, a, e, rng),
           NEW x \in Offsets, NEW y \in Nat, x < y, Clear(x, y, f)
    PROVE  Clear(x, y, g)
<1> SUFFICES ASSUME NEW b \in DOMAIN g PROVE g[b].end <= x \/ y <= b
  BY DEF Clear
<1>1. x \in Nat /\ a \in Nat /\ e \in Nat /\ a < e /\ a \in DOMAIN f
  BY StoreConstants DEF Tiled, Offsets
<1>2. CASE b # a
  BY <1>2 DEF MergedMap, Clear
<1>3. CASE b = a
  <2>1. g[b].end = e
    BY <1>3 DEF MergedMap
  <2>2. CASE x < a
    <3> DEFINE z == f[a].end
    <3>1. z \in Nat /\ a < z /\ (z <= x \/ y <= a)
      BY <1>1 DEF Disjoint, Numbered, Clear
    <3> HIDE DEF z
    <3> QED
      BY <1>1, <1>3, <2>2, <3>1
  <2>3. CASE a <= x /\ x < e
    <3>1. PICK c \in DOMAIN f : c <= x /\ x < f[c].end
      BY <2>3 DEF Tiled
    <3> DEFINE z == f[c].end
    <3>2. z \in Nat /\ c \in Nat /\ c <= x /\ x < z /\ (z <= x \/ y <= c)
      BY <3>1 DEF Disjoint, Numbered, Clear
    <3> HIDE DEF z
    <3> QED
      BY <1>1, <3>2
  <2>4. CASE e <= x
    BY <2>1, <2>4
  <2> QED
    BY <1>1, <2>2, <2>3, <2>4
<1> QED
  BY <1>2, <1>3

\* Merging keeps ranges apart.
LEMMA DisjointMerged ==
    ASSUME NEW f, Disjoint(f), NEW a, NEW e, Tiled(f, a, e), NEW rng, NEW g, MergedMap(g, f, a, e, rng)
    PROVE  Disjoint(g)
<1>1. a \in Nat /\ e \in Nat /\ a < e /\ a \in DOMAIN f /\ g[a].end = e
  BY DEF Tiled, MergedMap
<1>2. \A x \in DOMAIN g : x = a \/ (x \in DOMAIN f /\ x \in Nat /\ ~ (a <= x /\ x < e) /\ g[x] = f[x])
  BY DEF MergedMap, Disjoint, Numbered
<1>3. Numbered(g)
  BY <1>1, <1>2 DEF Disjoint, Numbered
<1>4. ASSUME NEW x \in DOMAIN g PROVE x < g[x].end
  BY <1>1, <1>2 DEF Disjoint
<1>5. ASSUME NEW x \in DOMAIN g, NEW y \in DOMAIN g, x < y PROVE g[x].end <= y
  <2>1. CASE x = a
    <3>1. y \in Nat /\ ~ (a <= y /\ y < e)
      BY <1>1, <1>2, <1>5, <2>1
    <3> QED
      BY <1>1, <1>5, <2>1, <3>1
  <2>2. CASE x # a /\ y = a
    BY <1>1, <1>2, <1>5, <2>2 DEF Disjoint
  <2>3. CASE x # a /\ y # a
    BY <1>2, <1>5, <2>3 DEF Disjoint
  <2> QED
    BY <2>1, <2>2, <2>3
<1> QED
  BY <1>3, <1>4, <1>5 DEF Disjoint

\* What was inside a range is inside one.
LEMMA InsideMerged ==
    ASSUME NEW f, Disjoint(f), NEW a, NEW e, Tiled(f, a, e), NEW rng, NEW g, MergedMap(g, f, a, e, rng),
           NEW x \in Nat, NEW y \in Nat, x < y, Inside(x, y, f)
    PROVE  Inside(x, y, g)
<1>1. PICK b \in DOMAIN f : b <= x /\ y <= f[b].end /\ ~ (b = x /\ f[b].end = y)
  BY DEF Inside
<1>2. a \in Nat /\ e \in Nat /\ a < e /\ a \in DOMAIN g /\ g[a].end = e
  BY DEF Tiled, MergedMap
<1>3. CASE a <= b /\ b < e
  <2> DEFINE z == f[b].end
  <2>1. z <= e
    BY <1>3, TileEnds
  <2>2. z \in Nat /\ b \in Nat
    BY DEF Disjoint, Numbered
  <2>3. b <= x /\ y <= z /\ ~ (b = x /\ z = y)
    BY <1>1
  <2> HIDE DEF z
  <2>4. a <= x /\ y <= e /\ ~ (a = x /\ e = y)
    BY <1>2, <1>3, <2>1, <2>2, <2>3
  <2> QED
    BY <1>2, <2>4 DEF Inside
<1>4. CASE ~ (a <= b /\ b < e)
  <2>1. b \in DOMAIN g /\ g[b] = f[b]
    BY <1>4 DEF MergedMap
  <2> QED
    BY <1>1, <2>1 DEF Inside
<1> QED
  BY <1>3, <1>4

\* new is maps with the sources of the plan merged.
MergedAt(new, maps, plan, size) ==
    /\ \A q \in Partitions \ {plan.tp} : new[q] = maps[q]
    /\ MergedMap(new[plan.tp], maps[plan.tp], MergedStart(plan), MergedEnd(plan),
                 ObjectRange(MergedEnd(plan), MergedKey(plan), size))
\* What is known where it is merged.
Merge(new, maps, objs, plan, size) ==
    /\ plan \in Plans /\ plan.tp \in Partitions /\ PlanSound(plan) /\ maps \in [Partitions -> Colds] /\ Filed(maps, objs)
    /\ SourcesIn(plan, maps) /\ MergedAt(new, maps, plan, size)
\* The lemmas about one map apply.
Mergers(g, f, plan, size) ==
    /\ Disjoint(f) /\ Tiled(f, MergedStart(plan), MergedEnd(plan))
    /\ MergedMap(g, f, MergedStart(plan), MergedEnd(plan), ObjectRange(MergedEnd(plan), MergedKey(plan), size))

\* The maps of Colds are disjoint when they are filed.
LEMMA FiledDisjoint ==
    ASSUME NEW maps \in [Partitions -> Colds], NEW objs, Filed(maps, objs), NEW tp \in Partitions
    PROVE  Disjoint(maps[tp]) /\ FiledIn(tp, maps[tp], objs)
<1>1. Numbered(maps[tp]) /\ FiledIn(tp, maps[tp], objs)
  BY ColdNumbers DEF Filed
<1> QED
  BY <1>1 DEF Disjoint, FiledIn

LEMMA MergeOne ==
    ASSUME NEW new, NEW maps, NEW objs, NEW plan, NEW size, Merge(new, maps, objs, plan, size)
    PROVE  /\ Mergers(new[plan.tp], maps[plan.tp], plan, size) /\ FiledIn(plan.tp, maps[plan.tp], objs)
           /\ MergedStart(plan) \in Nat /\ MergedEnd(plan) \in Nat /\ MergedStart(plan) < MergedEnd(plan)
           /\ MergedIn(plan, size, new)
<1>1. /\ plan \in Plans /\ plan.tp \in Partitions /\ PlanSound(plan) /\ maps \in [Partitions -> Colds] /\ Filed(maps, objs)
      /\ SourcesIn(plan, maps) /\ MergedAt(new, maps, plan, size)
  BY DEF Merge
<1>2. Tiled(maps[plan.tp], MergedStart(plan), MergedEnd(plan))
  BY <1>1, SourcesTile
<1>3. Disjoint(maps[plan.tp]) /\ FiledIn(plan.tp, maps[plan.tp], objs)
  BY <1>1, FiledDisjoint
<1>4. MergedMap(new[plan.tp], maps[plan.tp], MergedStart(plan), MergedEnd(plan), ObjectRange(MergedEnd(plan), MergedKey(plan), size))
  BY <1>1 DEF MergedAt
<1>5. MergedIn(plan, size, new)
  BY <1>4 DEF MergedIn, MergedMap
<1> QED
  BY <1>2, <1>3, <1>4, <1>5 DEF Mergers, Tiled

\* The merged maps are filed.
LEMMA FiledMerged ==
    ASSUME NEW new, NEW maps, NEW objs, NEW plan, NEW size, Merge(new, maps, objs, plan, size),
           MergedKey(plan) \in DOMAIN objs
    PROVE  Filed(new, objs)
<1> DEFINE f == maps[plan.tp]
           g == new[plan.tp]
           a == MergedStart(plan)
           e == MergedEnd(plan)
           rng == ObjectRange(e, MergedKey(plan), size)
<1>1. Mergers(g, f, plan, size) /\ FiledIn(plan.tp, f, objs)
  BY MergeOne
<1>2. Disjoint(f) /\ Tiled(f, a, e) /\ MergedMap(g, f, a, e, rng)
  BY <1>1 DEF Mergers
<1>3. Disjoint(g)
  BY <1>2, DisjointMerged
<1>4. ASSUME NEW x \in DOMAIN g PROVE g[x].key = ObjectKey(plan.tp, x, g[x].end) /\ g[x].key \in DOMAIN objs
  <2>1. CASE x = a
    BY <1>2, <2>1 DEF MergedMap, ObjectRange, MergedKey
  <2>2. CASE x # a
    <3>1. x \in DOMAIN f /\ g[x] = f[x]
      BY <1>2, <2>2 DEF MergedMap
    <3> QED
      BY <1>1, <3>1 DEF FiledIn
  <2> QED
    BY <2>1, <2>2
<1>5. FiledIn(plan.tp, g, objs)
  BY <1>3, <1>4 DEF FiledIn, Disjoint
<1>6. ASSUME NEW tp \in Partitions, tp # plan.tp PROVE FiledIn(tp, new[tp], objs)
  BY <1>6 DEF Merge, MergedAt, Filed
<1> QED
  BY <1>5, <1>6 DEF Filed

\* Merging raises no end.
LEMMA BelowMerged ==
    ASSUME NEW new, NEW maps, NEW objs, NEW plan, NEW size, Merge(new, maps, objs, plan, size), NEW disk
    PROVE  BelowStays(disk, maps, disk, new)
<1> DEFINE f == maps[plan.tp]
           g == new[plan.tp]
<1>1. Mergers(g, f, plan, size)
  BY MergeOne
<1>2. \A x \in DOMAIN g : \E y \in DOMAIN f : g[x].end = f[y].end
  BY <1>1 DEF Mergers, MergedMap, Tiled
<1> SUFFICES ASSUME NEW q \in Partitions, NEW b \in Nat, Below(q, b, disk, maps), NEW x \in DOMAIN new[q]
             PROVE  new[q][x].end <= b
  BY DEF BelowStays, Below
<1>3. CASE q = plan.tp
  BY <1>2, <1>3 DEF Below
<1>4. CASE q # plan.tp
  BY <1>4 DEF Merge, MergedAt, Below
<1> QED
  BY <1>3, <1>4

\* The sources of another plan stay.
LEMMA SourcesKept ==
    ASSUME NEW new, NEW maps, NEW objs, NEW plan, NEW size, Merge(new, maps, objs, plan, size),
           NEW p \in Plans, PlanSound(p), SourcesIn(p, maps),
           p.tp = plan.tp => MergedEnd(p) <= MergedStart(plan) \/ MergedEnd(plan) <= MergedStart(p)
    PROVE  SourcesIn(p, new)
<1> SUFFICES ASSUME NEW s \in Sources(p)
             PROVE  s.start \in DOMAIN new[p.tp] /\ new[p.tp][s.start].end = s.end
  BY DEF SourcesIn
<1>1. s.start \in DOMAIN maps[p.tp] /\ maps[p.tp][s.start].end = s.end
  BY DEF SourcesIn
<1>2. p.tp \in Partitions
  BY DEF Plans
<1>3. CASE p.tp # plan.tp
  BY <1>1, <1>2, <1>3 DEF Merge, MergedAt
<1>4. CASE p.tp = plan.tp
  <2> DEFINE a == MergedStart(plan)
             e == MergedEnd(plan)
             b == MergedStart(p)
             d == MergedEnd(p)
             x == s.start
             y == s.end
  <2>1. x \in Nat /\ y \in Nat /\ b <= x /\ x < y /\ y <= d
    BY DEF PlanSound, SourceOK
  <2>2. a \in Nat /\ e \in Nat /\ a < e
    BY MergeOne
  <2>3. b \in Nat /\ d \in Nat
    <3>1. b \in Offsets /\ d \in Ends
      <4>1. p.sources \in Seq(Segments) /\ p.sources # <<>>
        BY DEF Plans, Merges
      <4>2. Head(p.sources) \in Segments /\ Last(p.sources) \in Segments
        BY <4>1 DEF Last
      <4> QED
        BY <4>2 DEF Segments, MergedStart, MergedEnd
    <3> QED
      BY <3>1, StoreConstants DEF Offsets, Ends
  <2>4. d <= a \/ e <= b
    BY <1>4
  <2> HIDE DEF a, e, b, d, x, y
  <2>5. ~ (a <= x /\ x < e)
    BY <2>1, <2>2, <2>3, <2>4
  <2>6. MergedMap(new[plan.tp], maps[plan.tp], a, e, ObjectRange(e, MergedKey(plan), size))
    BY DEF Merge, MergedAt, a, e
  <2> QED
    BY <1>1, <1>4, <2>5, <2>6 DEF MergedMap, x
<1> QED
  BY <1>3, <1>4

\* A source is smaller than what it is merged into.
LEMMA SourceKey ==
    ASSUME NEW plan, PlanSound(plan), NEW k \in SourceKeys(plan)
    PROVE  \E s \in Sources(plan) : k = ObjectKey(plan.tp, s.start, s.end) /\ SourceOK(s, plan)
<1>1. PICK s \in Sources(plan) : k = s.key
  BY DEF SourceKeys, Sources
<1>2. SourceOK(s, plan)
  BY DEF PlanSound
<1> QED
  BY <1>1, <1>2 DEF SourceOK

\* No range has the key of a source once its merge is in the map.
NoneNamed(maps, K) == \A tp \in Partitions : \A a \in DOMAIN maps[tp] : maps[tp][a].key \notin K
LEMMA SourceKeysGone ==
    ASSUME NEW maps \in [Partitions -> Colds], NEW objs, Filed(maps, objs), NEW plan \in Plans, PlanSound(plan), NEW size,
           MergedIn(plan, size, maps)
    PROVE  NoneNamed(maps, SourceKeys(plan))
<1> SUFFICES ASSUME NEW tp \in Partitions, NEW x \in DOMAIN maps[tp], maps[tp][x].key \in SourceKeys(plan)
             PROVE  FALSE
  BY DEF NoneNamed
<1> DEFINE f == maps[tp]
           a == MergedStart(plan)
           e == MergedEnd(plan)
<1>1. PICK s \in Sources(plan) : f[x].key = ObjectKey(plan.tp, s.start, s.end) /\ SourceOK(s, plan)
  BY SourceKey
<1>2. Disjoint(f) /\ f[x].key = ObjectKey(tp, x, f[x].end)
  BY FiledDisjoint DEF FiledIn
<1>3. tp = plan.tp /\ x = s.start /\ f[x].end = s.end
  <2>1. ObjectKey(tp, x, f[x].end) = ObjectKey(plan.tp, s.start, s.end)
    BY <1>1, <1>2
  <2> HIDE DEF f
  <2> QED
    BY <2>1 DEF ObjectKey
<1>4. a \in DOMAIN f /\ f[a].end = e
  BY <1>3 DEF MergedIn, ObjectRange
<1>5. x \in Nat /\ f[x].end \in Nat /\ a <= x /\ x < f[x].end /\ f[x].end <= e /\ ~ (x = a /\ f[x].end = e)
  BY <1>1, <1>3 DEF SourceOK
<1>6. a \in Nat /\ e \in Nat /\ (a < x => e <= x)
  BY <1>2, <1>4 DEF Disjoint, Numbered
<1> HIDE DEF a, e
<1> DEFINE y == f[x].end
<1>7. x \in Nat /\ y \in Nat /\ a <= x /\ x < y /\ y <= e /\ ~ (x = a /\ y = e) /\ (a = x => y = e)
  BY <1>4, <1>5
<1> HIDE DEF y
<1> QED
  BY <1>6, <1>7

\* Orphans stay part of larger ranges.
LEMMA BuriedMerged ==
    ASSUME NEW new, NEW maps, NEW objs, NEW plan, NEW size, Merge(new, maps, objs, plan, size),
           NEW orphans \in SUBSET Keys, Buried(orphans, maps)
    PROVE  Buried(orphans \cup SourceKeys(plan), new)
<1> DEFINE f == maps[plan.tp]
           g == new[plan.tp]
           a == MergedStart(plan)
           e == MergedEnd(plan)
           rng == ObjectRange(e, MergedKey(plan), size)
<1>1. Mergers(g, f, plan, size) /\ PlanSound(plan)
  BY MergeOne DEF Merge
<1>2. Disjoint(f) /\ Tiled(f, a, e) /\ MergedMap(g, f, a, e, rng)
  BY <1>1 DEF Mergers
<1>3. ASSUME NEW k \in orphans PROVE k[2] < k[3] /\ Inside(k[2], k[3], new[k[1]])
  <2>1. k[2] < k[3] /\ Inside(k[2], k[3], maps[k[1]])
    BY DEF Buried
  <2>2. k[1] \in Partitions /\ k[2] \in Nat /\ k[3] \in Nat
    BY StoreConstants DEF Keys, Offsets, Ends
  <2>3. CASE k[1] = plan.tp
    <3>1. Inside(k[2], k[3], f)
      BY <2>1, <2>3
    <3> HIDE DEF f, g, a, e, rng
    <3>2. Inside(k[2], k[3], g)
      BY <1>2, <2>1, <2>2, <3>1, InsideMerged
    <3> QED
      BY <2>1, <2>3, <3>2 DEF g
  <2>4. CASE k[1] # plan.tp
    BY <2>1, <2>2, <2>4 DEF Merge, MergedAt
  <2> QED
    BY <2>3, <2>4
<1>4. ASSUME NEW k \in SourceKeys(plan) PROVE k[2] < k[3] /\ Inside(k[2], k[3], new[k[1]])
  <2>1. PICK s \in Sources(plan) : k = ObjectKey(plan.tp, s.start, s.end) /\ SourceOK(s, plan)
    BY <1>1, SourceKey
  <2>2. k[1] = plan.tp /\ k[2] = s.start /\ k[3] = s.end
    BY <2>1 DEF ObjectKey
  <2>3. a <= s.start /\ s.start < s.end /\ s.end <= e /\ ~ (s.start = a /\ s.end = e)
    BY <2>1 DEF SourceOK
  <2>4. a \in DOMAIN g /\ g[a].end = e
    BY <1>2 DEF MergedMap
  <2>5. Inside(s.start, s.end, g)
    <3> HIDE DEF a, e
    <3> QED
      BY <2>3, <2>4 DEF Inside
  <2> QED
    BY <2>2, <2>3, <2>5
<1> QED
  BY <1>3, <1>4 DEF Buried

\* The groups that are to be registered stay clear of the ranges.
LEMMA LogOrderMerged ==
    ASSUME NEW new, NEW maps, NEW objs, NEW plan, NEW size, Merge(new, maps, objs, plan, size), NEW w, WalOK(w), NEW t,
           LogOrder(w, t, maps)
    PROVE  LogOrder(w, t, new)
<1> DEFINE f == maps[plan.tp]
           g == new[plan.tp]
           a == MergedStart(plan)
           e == MergedEnd(plan)
           rng == ObjectRange(e, MergedKey(plan), size)
<1>1. Mergers(g, f, plan, size)
  BY MergeOne
<1>2. Disjoint(f) /\ Tiled(f, a, e) /\ MergedMap(g, f, a, e, rng)
  BY <1>1 DEF Mergers
<1>3. InOrder(w.disk)
  BY DEF LogOrder
<1>4. \A q \in Partitions \ {plan.tp} : new[q] = maps[q]
  BY DEF Merge, MergedAt
<1> HIDE DEF f, g, a, e, rng
<1>5. SealedClear(w, t, new)
  <2> SUFFICES ASSUME NEW s \in DOMAIN w.disk, s < w.active, NEW tp \in TpsOf(w.disk[s]), ~ Handled(t, s, tp)
               PROVE  Clear(StartIn(w.disk[s], tp), EndIn(w.disk[s], tp), new[tp])
    BY DEF SealedClear
  <2>1. Clear(StartIn(w.disk[s], tp), EndIn(w.disk[s], tp), maps[tp])
    BY DEF LogOrder, SealedClear
  <2>2. w.disk[s] \in Seq(Record) /\ OrderedSeq(w.disk[s])
    BY <1>3, WalFields, SegmentOrdered
  <2>3. GroupFacts(w.disk[s], tp) /\ tp \in Partitions
    BY <2>2, GroupRange
  <2> DEFINE x == StartIn(w.disk[s], tp)
             y == EndIn(w.disk[s], tp)
  <2>4. x \in Offsets /\ y \in Nat /\ x < y
    BY <2>3 DEF GroupFacts
  <2> HIDE DEF x, y
  <2>5. CASE tp = plan.tp
    <3>1. Clear(x, y, f)
      BY <2>1, <2>5 DEF x, y, f
    <3>2. Clear(x, y, g)
      BY <1>2, <2>4, <3>1, ClearMerged
    <3> QED
      BY <2>5, <3>2 DEF x, y, g
  <2>6. CASE tp # plan.tp
    BY <1>4, <2>1, <2>3, <2>6
  <2> QED
    BY <2>5, <2>6
<1>6. ActiveAbove(w, new)
  <2> SUFFICES ASSUME NEW i \in 1 .. Len(w.disk[w.active]), NEW x \in DOMAIN new[w.disk[w.active][i].tp]
               PROVE  new[w.disk[w.active][i].tp][x].end <= w.disk[w.active][i].off
    BY DEF ActiveAbove
  <2> DEFINE r == w.disk[w.active][i]
  <2>1. r.tp \in Partitions
    BY DiskRecords DEF WalOK
  <2>2. \A y \in DOMAIN maps[r.tp] : maps[r.tp][y].end <= r.off
    BY DEF LogOrder, ActiveAbove
  <2>3. \A y \in DOMAIN g : \E z \in DOMAIN f : g[y].end = f[z].end
    BY <1>2 DEF MergedMap, Tiled
  <2> HIDE DEF r
  <2>4. CASE r.tp = plan.tp
    <3>1. \A y \in DOMAIN g : g[y].end <= r.off
      BY <2>2, <2>3, <2>4 DEF f
    <3> QED
      BY <2>4, <3>1 DEF r, g
  <2>5. CASE r.tp # plan.tp
    <3>1. new[r.tp] = maps[r.tp]
      BY <1>4, <2>1, <2>5
    <3> QED
      BY <2>2, <3>1 DEF r
  <2> QED
    BY <2>4, <2>5
<1> QED
  BY <1>3, <1>5, <1>6 DEF LogOrder

-------------------------------------------------------------------------------
(* What the steps of the tasks do to the ranges and the objects.           *)

\* new is maps with the range rng of tp at a.
AddedAt(new, maps, tp, a, rng) ==
    (\A q \in Partitions \ {tp} : new[q] = maps[q]) /\ Stored(new[tp], maps[tp], a, rng)

\* A range that meets no other.
LEMMA AddedFiled ==
    ASSUME NEW maps \in [Partitions -> Colds], NEW objs, Filed(maps, objs), NEW tp \in Partitions, NEW a \in Nat, NEW e \in Nat,
           a < e, NEW n, ObjectKey(tp, a, e) \in DOMAIN objs, Clear(a, e, maps[tp]),
           NEW new, AddedAt(new, maps, tp, a, ObjectRange(e, ObjectKey(tp, a, e), n))
    PROVE  Filed(new, objs) /\ RangesKept(new, maps) /\ a \notin DOMAIN maps[tp]
<1> DEFINE f == maps[tp]
           g == new[tp]
           k == ObjectKey(tp, a, e)
<1>1. Disjoint(f) /\ FiledIn(tp, f, objs)
  BY FiledDisjoint
<1>2. DOMAIN g = DOMAIN f \cup {a} /\ g[a].end = e /\ g[a].key = k /\ \A x \in DOMAIN f : x # a => g[x] = f[x]
  BY DEF AddedAt, Stored, ObjectRange
<1>3. k \in DOMAIN objs /\ Clear(a, e, f)
  OBVIOUS
<1>4. \A q \in Partitions \ {tp} : new[q] = maps[q]
  BY DEF AddedAt
<1>5. \A x \in DOMAIN f : x \in Nat /\ f[x].end \in Nat /\ x < f[x].end /\ (f[x].end <= a \/ e <= x)
  BY <1>1, <1>3 DEF Disjoint, Numbered, Clear
<1>6. a \notin DOMAIN f
  <2> SUFFICES ASSUME a \in DOMAIN f PROVE FALSE
    OBVIOUS
  <2> DEFINE y == f[a].end
  <2>1. y \in Nat /\ a < y /\ (y <= a \/ e <= a)
    BY <1>5
  <2> HIDE DEF y
  <2> QED
    BY <2>1
<1> HIDE DEF f, g
<1>7. \A x \in DOMAIN f : x \in DOMAIN g /\ g[x] = f[x]
  BY <1>2, <1>6
<1>8. ASSUME NEW x \in DOMAIN g PROVE x < g[x].end /\ g[x].key = ObjectKey(tp, x, g[x].end) /\ g[x].key \in DOMAIN objs
  <2>1. CASE x = a
    BY <1>2, <1>3, <2>1
  <2>2. CASE x # a
    BY <1>1, <1>2, <1>7, <2>2 DEF FiledIn
  <2> QED
    BY <2>1, <2>2
<1>9. ASSUME NEW x \in DOMAIN g, NEW y \in DOMAIN g, x < y PROVE g[x].end <= y
  <2>1. CASE x = a
    <3>1. y \in DOMAIN f
      BY <1>2, <1>9, <2>1
    <3> DEFINE z == f[y].end
    <3>2. y \in Nat /\ z \in Nat /\ y < z /\ (z <= a \/ e <= y)
      BY <1>5, <3>1
    <3> HIDE DEF z
    <3>3. e <= y
      BY <1>9, <2>1, <3>2
    <3> QED
      BY <1>2, <2>1, <3>3
  <2>2. CASE x # a /\ y = a
    <3>1. x \in DOMAIN f /\ g[x] = f[x]
      BY <1>2, <2>2
    <3> DEFINE z == f[x].end
    <3>2. x \in Nat /\ z \in Nat /\ x < z /\ (z <= a \/ e <= x)
      BY <1>5, <3>1
    <3> HIDE DEF z
    <3>3. z <= a
      BY <1>9, <2>2, <3>2
    <3> QED
      BY <2>2, <3>1, <3>3 DEF z
  <2>3. CASE x # a /\ y # a
    BY <1>1, <1>2, <1>9, <2>3 DEF Disjoint
  <2> QED
    BY <2>1, <2>2, <2>3
<1>10. FiledIn(tp, g, objs)
  BY <1>8, <1>9 DEF FiledIn
<1>11. Filed(new, objs)
  <2> SUFFICES ASSUME NEW q \in Partitions PROVE FiledIn(q, new[q], objs)
    BY DEF Filed
  <2>1. CASE q = tp
    BY <1>10, <2>1 DEF g
  <2>2. CASE q # tp
    BY <1>4, <2>2 DEF Filed
  <2> QED
    BY <2>1, <2>2
<1>12. RangesKept(new, maps)
  <2> SUFFICES ASSUME NEW q \in Partitions
               PROVE  DOMAIN maps[q] \subseteq DOMAIN new[q] /\ \A x \in DOMAIN maps[q] : new[q][x] = maps[q][x]
    BY DEF RangesKept
  <2>1. CASE q = tp
    BY <1>7, <2>1 DEF f, g
  <2>2. CASE q # tp
    BY <1>4, <2>2
  <2> QED
    BY <2>1, <2>2
<1> QED
  BY <1>6, <1>11, <1>12 DEF f

\* What kept ranges keep.
LEMMA KeptRanges ==
    ASSUME NEW new, NEW maps, RangesKept(new, maps)
    PROVE  /\ \A orphans \in SUBSET Keys : Buried(orphans, maps) => Buried(orphans, new)
           /\ \A p \in Plans : SourcesIn(p, maps) => SourcesIn(p, new)
           /\ \A n : \A p \in Plans : MergedIn(p, n, maps) => MergedIn(p, n, new)
           /\ \A k : InIndex(k, maps) => InIndex(k, new)
<1>1. ASSUME NEW orphans \in SUBSET Keys, Buried(orphans, maps) PROVE Buried(orphans, new)
  <2> SUFFICES ASSUME NEW k \in orphans PROVE k[2] < k[3] /\ Inside(k[2], k[3], new[k[1]])
    BY DEF Buried
  <2>1. k[1] \in Partitions /\ k[2] < k[3] /\ Inside(k[2], k[3], maps[k[1]])
    BY <1>1 DEF Buried, Keys
  <2> QED
    BY <2>1 DEF Inside, RangesKept
<1>2. ASSUME NEW p \in Plans, SourcesIn(p, maps) PROVE SourcesIn(p, new)
  <2>1. p.tp \in Partitions
    BY DEF Plans
  <2> QED
    BY <1>2, <2>1 DEF SourcesIn, RangesKept
<1>3. ASSUME NEW p \in Plans, NEW n, MergedIn(p, n, maps) PROVE MergedIn(p, n, new)
  <2>1. p.tp \in Partitions
    BY DEF Plans
  <2> QED
    BY <1>3, <2>1 DEF MergedIn, RangesKept
<1>4. ASSUME NEW k, InIndex(k, maps) PROVE InIndex(k, new)
  BY <1>4 DEF InIndex, RangesKept
<1> QED
  BY <1>1, <1>2, <1>3, <1>4

\* A step of the task that registers nothing.
LEMMA ColdTier ==
    ASSUME NEW live, NEW cold, NEW objs, NEW orphans, NEW t, NEW disk, NEW c, ColdInv(live, cold, objs, orphans, t, disk, c),
           NEW t2, NEW disk2, t.pc # "flip", t2.pc # "flip", Uploader(t2, disk2, live, cold, objs)
    PROVE  ColdInv(live, cold, objs, orphans, t2, disk2, c)
BY DEF ColdInv, Mirrors

\* The segment in work stays.
LEMMA ColdDisk ==
    ASSUME NEW live, NEW cold, NEW objs, NEW orphans, NEW t, NEW disk, NEW c, ColdInv(live, cold, objs, orphans, t, disk, c),
           NEW disk2, t.pc \in Working => disk2[t.queue[1]] = disk[t.queue[1]]
    PROVE  ColdInv(live, cold, objs, orphans, t, disk2, c)
<1>1. t.pc \in {"postcheck", "register", "flip"} => disk2[t.queue[1]] = disk[t.queue[1]]
  BY DEF Working
<1>2. Mirrors(live, cold, t, disk2, c)
  BY <1>1 DEF ColdInv, Mirrors, WorkStart
<1>3. Uploader(t, disk2, live, cold, objs)
  <2>1. Uploader(t, disk, live, cold, objs)
    BY DEF ColdInv
  <2>2. t.pc = "flip" => WorkStart(t, disk2) = WorkStart(t, disk) /\ WorkEnd(t, disk2) = WorkEnd(t, disk) /\ WorkRange(t, disk2) = WorkRange(t, disk)
    BY <1>1 DEF WorkStart, WorkEnd, WorkRange
  <2> QED
    BY <1>1, <2>1, <2>2 DEF Uploader
<1> QED
  BY <1>2, <1>3 DEF ColdInv

\* More objects.
LEMMA ColdGrown ==
    ASSUME NEW live, NEW cold, NEW objs, NEW orphans, NEW t, NEW disk, NEW c, ColdInv(live, cold, objs, orphans, t, disk, c),
           NEW objs2, DOMAIN objs \subseteq DOMAIN objs2
    PROVE  ColdInv(live, cold, objs2, orphans, t, disk, c)
<1>1. Filed(live, objs2) /\ Filed(cold, objs2)
  BY DEF ColdInv, Filed, FiledIn
<1>2. Merger(c, live, cold, objs2) /\ Uploader(t, disk, live, cold, objs2)
  BY DEF ColdInv, Merger, Uploader
<1> QED
  BY <1>1, <1>2 DEF ColdInv

\* Fewer.
LEMMA FiledRemains ==
    ASSUME NEW maps, NEW objs, Filed(maps, objs), NEW K, NoneNamed(maps, K), NEW objs2, Remains(objs2, objs, K)
    PROVE  Filed(maps, objs2)
BY DEF Filed, FiledIn, NoneNamed, Remains

\* No range has the key of an orphan.
LEMMA BuriedNotNamed ==
    ASSUME NEW maps \in [Partitions -> Colds], NEW objs, Filed(maps, objs), NEW orphans, Buried(orphans, maps)
    PROVE  NoneNamed(maps, orphans)
<1> SUFFICES ASSUME NEW tp \in Partitions, NEW x \in DOMAIN maps[tp], maps[tp][x].key \in orphans
             PROVE  FALSE
  BY DEF NoneNamed
<1> DEFINE f == maps[tp]
           y == f[x].end
<1>1. Disjoint(f) /\ f[x].key = ObjectKey(tp, x, y)
  BY FiledDisjoint DEF FiledIn
<1>2. f[x].key[1] = tp /\ f[x].key[2] = x /\ f[x].key[3] = y
  BY <1>1 DEF ObjectKey
<1>3. Inside(x, y, f)
  <2>1. Inside(f[x].key[2], f[x].key[3], maps[f[x].key[1]])
    BY DEF Buried
  <2> QED
    BY <1>2, <2>1
<1>4. PICK b \in DOMAIN f : b <= x /\ y <= f[b].end /\ ~ (b = x /\ f[b].end = y)
  BY <1>3 DEF Inside
<1> DEFINE z == f[b].end
<1>5. x \in Nat /\ y \in Nat /\ b \in Nat /\ z \in Nat /\ x < y /\ (b < x => z <= x) /\ (b = x => z = y)
  BY <1>1 DEF Disjoint, Numbered
<1>6. b <= x /\ y <= z /\ ~ (b = x /\ z = y)
  BY <1>4
<1> HIDE DEF y, z
<1> QED
  BY <1>5, <1>6

\* The range in hand of the tiering task meets no range of the index.
LEMMA ClearInIndex ==
    ASSUME NEW live \in [Partitions -> Colds], NEW cold \in [Partitions -> Colds], NEW objs, NEW orphans, NEW t, NEW disk, NEW c,
           ColdInv(live, cold, objs, orphans, t, disk, c), c.plans \subseteq Plans,
           NEW tp \in Partitions, NEW a \in Nat, NEW e \in Nat, a < e, Clear(a, e, live[tp])
    PROVE  Clear(a, e, cold[tp])
<1> SUFFICES ASSUME NEW b \in DOMAIN cold[tp] PROVE cold[tp][b].end <= a \/ e <= b
  BY DEF Clear
<1>1. (b \in DOMAIN live[tp] /\ live[tp][b] = cold[tp][b]) \/ Swapping(c, tp, b)
  BY DEF ColdInv, Mirrors
<1>2. CASE b \in DOMAIN live[tp] /\ live[tp][b] = cold[tp][b]
  BY <1>2 DEF Clear
<1>3. CASE Swapping(c, tp, b)
  <2> DEFINE p == c.plan
             ms == MergedStart(p)
             me == MergedEnd(p)
  <2>1. c.pc = "replace" /\ tp = p.tp /\ ms <= b /\ b < me
    BY <1>3 DEF Swapping
  <2>2. p \in c.plans /\ MergedIn(p, c.size, live)
    BY <2>1 DEF ColdInv, Merger
  <2>3. PlanSound(p) /\ SourcesIn(p, cold) /\ p \in Plans
    BY <2>1, <2>2 DEF ColdInv, Merger
  <2> HIDE DEF p
  <2>4. Tiled(cold[tp], ms, me)
    BY <2>1, <2>3, SourcesTile
  <2>5. Disjoint(cold[tp])
    BY FiledDisjoint DEF ColdInv
  <2>6. cold[tp][b].end <= me
    BY <2>1, <2>4, <2>5, TileEnds
  <2>7. me <= a \/ e <= ms
    <3>1. ms \in DOMAIN live[tp] /\ live[tp][ms].end = me
      BY <2>1, <2>2 DEF MergedIn, ObjectRange
    <3> QED
      BY <3>1 DEF Clear
  <2> DEFINE y == cold[tp][b].end
  <2>8. y \in Nat /\ b \in Nat /\ ms \in Nat /\ me \in Nat /\ y <= me
    BY <2>4, <2>5, <2>6 DEF Tiled, Disjoint, Numbered
  <2> HIDE DEF y, ms, me
  <2>9. y <= a \/ e <= b
    BY <2>1, <2>7, <2>8
  <2> QED
    BY <2>9 DEF y
<1> QED
  BY <1>1, <1>2, <1>3

\* TierRegister.
LEMMA ColdRegister ==
    ASSUME NEW live \in [Partitions -> Colds], NEW cold \in [Partitions -> Colds], NEW objs, NEW orphans \in SUBSET Keys,
           NEW t, NEW disk, NEW c, ColdInv(live, cold, objs, orphans, t, disk, c), CompactOK(c), c.plans \subseteq Plans,
           t.pc = "register", NEW t2, t2.pc = "flip", t2.queue = t.queue, t2.tp = t.tp, t.tp \in Partitions,
           GroupFacts(disk[t.queue[1]], t.tp), Clear(WorkStart(t, disk), WorkEnd(t, disk), live[t.tp]),
           NEW new, AddedAt(new, live, t.tp, WorkStart(t, disk), WorkRange(t, disk))
    PROVE  ColdInv(new, cold, objs, orphans, t2, disk, c)
<1> DEFINE tp == t.tp
           a == WorkStart(t, disk)
           e == WorkEnd(t, disk)
           n == Len(GroupIn(disk[t.queue[1]], t.tp))
           k == ObjectKey(tp, a, e)
<1>1. a \in Nat /\ e \in Nat /\ a < e
  BY DEF GroupFacts, WorkStart, WorkEnd
<1>2. KeyIn(disk[t.queue[1]], t.tp) = k /\ WorkRange(t, disk) = ObjectRange(e, k, n)
  BY DEF KeyIn, WorkStart, WorkEnd, WorkRange
<1>3. k \in DOMAIN objs
  BY <1>2 DEF ColdInv, Uploader
<1>4. Filed(live, objs) /\ Buried(orphans, live) /\ Mirrors(live, cold, t, disk, c) /\ Merger(c, live, cold, objs) /\ Filed(cold, objs)
  BY DEF ColdInv
<1>5. Clear(a, e, cold[tp])
  BY <1>1, ClearInIndex
<1>6. WorkStart(t2, disk) = a /\ WorkEnd(t2, disk) = e /\ WorkRange(t2, disk) = WorkRange(t, disk)
  BY DEF WorkStart, WorkEnd, WorkRange
<1>7. AddedAt(new, live, tp, a, ObjectRange(e, k, n)) /\ Clear(a, e, live[tp])
  BY <1>2
<1> HIDE DEF a, e, n
<1>8. Filed(new, objs) /\ RangesKept(new, live) /\ a \notin DOMAIN live[tp]
  BY <1>1, <1>3, <1>4, <1>7, AddedFiled
<1>9. Buried(orphans, new)
  BY <1>4, <1>8, KeptRanges
<1>10. Merger(c, new, cold, objs)
  <2>1. c.pc \in {"replace", "delete"} => c.plan \in Plans
    BY <1>4 DEF Merger
  <2>2. \A p \in c.plans : SourcesIn(p, live) => SourcesIn(p, new)
    BY <1>8, KeptRanges
  <2>3. c.pc \in {"replace", "delete"} => MergedIn(c.plan, c.size, new)
    BY <1>4, <1>8, <2>1, KeptRanges DEF Merger
  <2> QED
    BY <1>4, <2>2, <2>3 DEF Merger
<1>11. Mirrors(new, cold, t2, disk, c)
  <2> SUFFICES ASSUME NEW q \in Partitions
               PROVE  /\ \A x \in DOMAIN cold[q] : (x \in DOMAIN new[q] /\ new[q][x] = cold[q][x]) \/ Swapping(c, q, x)
                      /\ \A x \in DOMAIN new[q] :
                            \/ x \in DOMAIN cold[q] /\ cold[q][x] = new[q][x]
                            \/ t2.pc = "flip" /\ q = t2.tp /\ x = WorkStart(t2, disk)
                            \/ c.pc = "replace" /\ q = c.plan.tp /\ x = MergedStart(c.plan)
    BY DEF Mirrors
  <2>1. \A x \in DOMAIN cold[q] : (x \in DOMAIN new[q] /\ new[q][x] = cold[q][x]) \/ Swapping(c, q, x)
    BY <1>4, <1>8 DEF Mirrors, RangesKept
  <2>2. ASSUME NEW x \in DOMAIN new[q]
        PROVE  \/ x \in DOMAIN cold[q] /\ cold[q][x] = new[q][x]
               \/ q = t2.tp /\ x = a
               \/ c.pc = "replace" /\ q = c.plan.tp /\ x = MergedStart(c.plan)
    <3>1. x \in DOMAIN live[q] \/ (q = tp /\ x = a)
      BY <1>7 DEF AddedAt, Stored
    <3>2. x \in DOMAIN live[q] => new[q][x] = live[q][x]
      BY <1>8 DEF RangesKept
    <3> QED
      BY <1>4, <3>1, <3>2 DEF Mirrors
  <2> QED
    BY <1>6, <2>1, <2>2
<1>12. Uploader(t2, disk, new, cold, objs)
  BY <1>2, <1>5, <1>6, <1>7 DEF Uploader, AddedAt, Stored
<1> QED
  BY <1>4, <1>8, <1>9, <1>10, <1>11, <1>12 DEF ColdInv

\* TierFlip.
LEMMA ColdFlip ==
    ASSUME NEW live \in [Partitions -> Colds], NEW cold \in [Partitions -> Colds], NEW objs, NEW orphans,
           NEW t, NEW disk, NEW c, ColdInv(live, cold, objs, orphans, t, disk, c), c.plans \subseteq Plans,
           t.pc = "flip", NEW t2, t2.pc = "group", t.tp \in Partitions, GroupFacts(disk[t.queue[1]], t.tp),
           NEW new, AddedAt(new, cold, t.tp, WorkStart(t, disk), WorkRange(t, disk))
    PROVE  ColdInv(live, new, objs, orphans, t2, disk, c) /\ RangesKept(new, cold)
<1> DEFINE tp == t.tp
           a == WorkStart(t, disk)
           e == WorkEnd(t, disk)
           n == Len(GroupIn(disk[t.queue[1]], t.tp))
           k == ObjectKey(tp, a, e)
<1>1. a \in Nat /\ e \in Nat /\ a < e
  BY DEF GroupFacts, WorkStart, WorkEnd
<1>2. WorkRange(t, disk) = ObjectRange(e, k, n)
  BY DEF KeyIn, WorkStart, WorkEnd, WorkRange
<1>3. Filed(live, objs) /\ Buried(orphans, live) /\ Mirrors(live, cold, t, disk, c) /\ Merger(c, live, cold, objs) /\ Filed(cold, objs)
  BY DEF ColdInv
<1>4. a \in DOMAIN live[tp] /\ live[tp][a] = ObjectRange(e, k, n) /\ Clear(a, e, cold[tp])
  BY <1>2 DEF ColdInv, Uploader
<1>5. AddedAt(new, cold, tp, a, ObjectRange(e, k, n))
  BY <1>2
<1>6. \A q \in Partitions : \A x \in DOMAIN live[q] :
         \/ x \in DOMAIN cold[q] /\ cold[q][x] = live[q][x]
         \/ q = tp /\ x = a
         \/ c.pc = "replace" /\ q = c.plan.tp /\ x = MergedStart(c.plan)
  BY <1>3 DEF Mirrors
<1> HIDE DEF a, e, n
<1>7. k \in DOMAIN objs
  <2>1. live[tp][a].key = k
    BY <1>4 DEF ObjectRange
  <2> QED
    BY <1>3, <1>4, <2>1 DEF Filed, FiledIn
<1>8. Filed(new, objs) /\ RangesKept(new, cold) /\ a \notin DOMAIN cold[tp]
  BY <1>1, <1>3, <1>4, <1>5, <1>7, AddedFiled
<1>9. Merger(c, live, new, objs)
  <2>1. c.pc \in {"replace", "delete"} => c.plan \in Plans
    BY <1>3 DEF Merger
  <2>2. \A p \in c.plans : SourcesIn(p, cold) => SourcesIn(p, new)
    BY <1>8, KeptRanges
  <2>3. c.pc = "delete" => MergedIn(c.plan, c.size, new)
    BY <1>3, <1>8, <2>1, KeptRanges DEF Merger
  <2> QED
    BY <1>3, <2>2, <2>3 DEF Merger
<1>10. Mirrors(live, new, t2, disk, c)
  <2> SUFFICES ASSUME NEW q \in Partitions
               PROVE  /\ \A x \in DOMAIN new[q] : (x \in DOMAIN live[q] /\ live[q][x] = new[q][x]) \/ Swapping(c, q, x)
                      /\ \A x \in DOMAIN live[q] :
                            \/ x \in DOMAIN new[q] /\ new[q][x] = live[q][x]
                            \/ c.pc = "replace" /\ q = c.plan.tp /\ x = MergedStart(c.plan)
    BY DEF Mirrors
  <2>1. ASSUME NEW x \in DOMAIN new[q] PROVE (x \in DOMAIN live[q] /\ live[q][x] = new[q][x]) \/ Swapping(c, q, x)
    <3>1. x \in DOMAIN cold[q] \/ (q = tp /\ x = a /\ new[q][x] = ObjectRange(e, k, n))
      BY <1>5 DEF AddedAt, Stored
    <3>2. x \in DOMAIN cold[q] => new[q][x] = cold[q][x]
      BY <1>8 DEF RangesKept
    <3> QED
      BY <1>3, <1>4, <3>1, <3>2 DEF Mirrors
  <2>2. ASSUME NEW x \in DOMAIN live[q]
        PROVE  \/ x \in DOMAIN new[q] /\ new[q][x] = live[q][x]
               \/ c.pc = "replace" /\ q = c.plan.tp /\ x = MergedStart(c.plan)
    <3>1. CASE q = tp /\ x = a
      BY <1>4, <1>5, <3>1 DEF AddedAt, Stored
    <3>2. CASE ~ (q = tp /\ x = a)
      BY <1>6, <1>8, <3>2 DEF RangesKept
    <3> QED
      BY <3>1, <3>2
  <2> QED
    BY <2>1, <2>2
<1>11. Uploader(t2, disk, live, new, objs)
  BY DEF Uploader
<1> QED
  BY <1>3, <1>8, <1>9, <1>10, <1>11 DEF ColdInv

\* A plan is given up, or is done.
LEMMA ColdPlan ==
    ASSUME NEW live, NEW cold, NEW objs, NEW orphans, NEW t, NEW disk, NEW c, ColdInv(live, cold, objs, orphans, t, disk, c),
           NEW d, d.pc \in {"idle", "execute"}, d.plans \subseteq c.plans,
           c.pc \in {"execute", "delete"}, c.pc = "delete" => c.plan \notin d.plans
    PROVE  ColdInv(live, cold, objs, orphans, t, disk, d)
<1>1. Merger(c, live, cold, objs) /\ Mirrors(live, cold, t, disk, c)
  BY DEF ColdInv
<1>2. Merger(d, live, cold, objs)
  BY <1>1 DEF Merger, PlansApart
<1>3. Mirrors(live, cold, t, disk, d)
  BY <1>1 DEF Mirrors, Swapping
<1> QED
  BY <1>2, <1>3 DEF ColdInv

\* A plan is in hand.
LEMMA ColdMerging ==
    ASSUME NEW live, NEW cold, NEW objs, NEW orphans, NEW t, NEW disk, NEW c, ColdInv(live, cold, objs, orphans, t, disk, c),
           NEW d, d.pc = "record", d.plans = c.plans, d.plan \in c.plans, c.pc = "execute", MergedKey(d.plan) \in DOMAIN objs
    PROVE  ColdInv(live, cold, objs, orphans, t, disk, d)
<1>1. Merger(c, live, cold, objs) /\ Mirrors(live, cold, t, disk, c)
  BY DEF ColdInv
<1>2. Merger(d, live, cold, objs)
  BY <1>1 DEF Merger
<1>3. Mirrors(live, cold, t, disk, d)
  BY <1>1 DEF Mirrors, Swapping
<1> QED
  BY <1>2, <1>3 DEF ColdInv


\* The range in hand of the tiering task is not one the plan merges.
LEMMA OutsideTiles ==
    ASSUME NEW f, Disjoint(f), NEW ms, NEW me, Tiled(f, ms, me), NEW a \in Offsets, NEW e \in Nat, a < e, Clear(a, e, f)
    PROVE  ~ (ms <= a /\ a < me)
<1> SUFFICES ASSUME ms <= a, a < me PROVE FALSE
  OBVIOUS
<1>1. PICK b \in DOMAIN f : b <= a /\ a < f[b].end
  BY DEF Tiled
<1>2. f[b].end <= a \/ e <= b
  BY DEF Clear
<1>3. b \in Nat /\ f[b].end \in Nat /\ a \in Nat
  BY DEF Disjoint, Numbered, Offsets
<1> DEFINE y == f[b].end
<1> HIDE DEF y
<1>4. y \in Nat /\ a < y /\ (y <= a \/ e <= b)
  BY <1>1, <1>2, <1>3 DEF y
<1> QED
  BY <1>1, <1>3, <1>4

\* CompactRecord.
LEMMA ColdRecord ==
    ASSUME NEW live \in [Partitions -> Colds], NEW cold \in [Partitions -> Colds], NEW objs, NEW orphans \in SUBSET Keys,
           NEW t, NEW disk, NEW c, ColdInv(live, cold, objs, orphans, t, disk, c), c.plans \subseteq Plans,
           c.pc = "record", NEW c2, c2.pc = "replace", c2.plans = c.plans, c2.plan = c.plan, c2.size = c.size,
           t.pc = "flip" => t.tp \in Partitions /\ GroupFacts(disk[t.queue[1]], t.tp),
           NEW new, MergedAt(new, live, c.plan, c.size)
    PROVE  /\ ColdInv(new, cold, objs, orphans \cup SourceKeys(c.plan), t, disk, c2)
           /\ Merge(new, live, objs, c.plan, c.size)
<1> DEFINE plan == c.plan
           ms == MergedStart(plan)
           me == MergedEnd(plan)
<1>1. Filed(live, objs) /\ Buried(orphans, live) /\ Mirrors(live, cold, t, disk, c) /\ Merger(c, live, cold, objs) /\ Filed(cold, objs)
  BY DEF ColdInv
<1>2. plan \in c.plans /\ plan \in Plans /\ PlanSound(plan) /\ PlansApart(c.plans) /\ \A p \in c.plans : PlanSound(p)
  BY <1>1 DEF Merger
<1>3. MergedKey(plan) \in DOMAIN objs /\ \A p \in c.plans : SourcesIn(p, live) /\ SourcesIn(p, cold)
  BY <1>1 DEF Merger
<1>4. plan.tp \in Partitions
  BY <1>2 DEF Plans
<1>5. Merge(new, live, objs, plan, c.size)
  BY <1>1, <1>2, <1>3, <1>4 DEF Merge
<1>6. Filed(new, objs) /\ Buried(orphans \cup SourceKeys(plan), new) /\ MergedIn(plan, c.size, new)
  BY <1>1, <1>3, <1>5, FiledMerged, BuriedMerged, MergeOne
<1>7. \A p \in c.plans : p # plan => SourcesIn(p, new)
  <2> TAKE p \in c.plans
  <2> HAVE p # plan
  <2>1. p \in Plans /\ PlanSound(p) /\ SourcesIn(p, live)
    BY <1>2, <1>3
  <2>2. p.tp = plan.tp => MergedEnd(p) <= MergedStart(plan) \/ MergedEnd(plan) <= MergedStart(p)
    BY <1>2 DEF PlansApart
  <2> HIDE DEF plan
  <2> QED
    BY <1>5, <2>1, <2>2, SourcesKept
<1>8. Merger(c2, new, cold, objs)
  BY <1>2, <1>3, <1>6, <1>7 DEF Merger
<1>9. /\ \A q \in Partitions \ {plan.tp} : new[q] = live[q]
      /\ DOMAIN new[plan.tp] = {x \in DOMAIN live[plan.tp] : ~ (ms <= x /\ x < me)} \cup {ms}
      /\ \A x \in DOMAIN live[plan.tp] : ~ (ms <= x /\ x < me) => new[plan.tp][x] = live[plan.tp][x]
  BY DEF MergedAt, MergedMap
<1>10. Mirrors(new, cold, t, disk, c2)
  <2> SUFFICES ASSUME NEW q \in Partitions
               PROVE  /\ \A x \in DOMAIN cold[q] : (x \in DOMAIN new[q] /\ new[q][x] = cold[q][x]) \/ Swapping(c2, q, x)
                      /\ \A x \in DOMAIN new[q] :
                            \/ x \in DOMAIN cold[q] /\ cold[q][x] = new[q][x]
                            \/ t.pc = "flip" /\ q = t.tp /\ x = WorkStart(t, disk)
                            \/ c2.pc = "replace" /\ q = c2.plan.tp /\ x = MergedStart(c2.plan)
    BY DEF Mirrors
  <2>1. ASSUME NEW x \in DOMAIN cold[q] PROVE (x \in DOMAIN new[q] /\ new[q][x] = cold[q][x]) \/ Swapping(c2, q, x)
    <3>1. x \in DOMAIN live[q] /\ live[q][x] = cold[q][x]
      BY <1>1 DEF Mirrors, Swapping
    <3>2. CASE q = plan.tp /\ ms <= x /\ x < me
      BY <3>2 DEF Swapping
    <3>3. CASE ~ (q = plan.tp /\ ms <= x /\ x < me)
      BY <1>9, <3>1, <3>3
    <3> QED
      BY <3>2, <3>3
  <2>2. ASSUME NEW x \in DOMAIN new[q], ~ (q = plan.tp /\ x = ms)
        PROVE  \/ x \in DOMAIN cold[q] /\ cold[q][x] = new[q][x]
               \/ t.pc = "flip" /\ q = t.tp /\ x = WorkStart(t, disk)
    <3>1. x \in DOMAIN live[q] /\ new[q][x] = live[q][x]
      BY <1>9, <2>2
    <3> QED
      BY <1>1, <3>1 DEF Mirrors
  <2> QED
    BY <2>1, <2>2
<1>11. Uploader(t, disk, new, cold, objs)
  <2>1. CASE t.pc # "flip"
    BY <2>1 DEF ColdInv, Uploader
  <2>2. CASE t.pc = "flip"
    <3> DEFINE a == WorkStart(t, disk)
               e == WorkEnd(t, disk)
    <3>1. a \in DOMAIN live[t.tp] /\ live[t.tp][a] = WorkRange(t, disk) /\ Clear(a, e, cold[t.tp]) /\ t.tp \in Partitions
      BY <2>2 DEF ColdInv, Uploader
    <3>2. a \in Offsets /\ e \in Nat /\ a < e
      BY <2>2 DEF GroupFacts, WorkStart, WorkEnd
    <3>3. t.tp = plan.tp => ~ (ms <= a /\ a < me)
      <4>1. Tiled(cold[plan.tp], ms, me)
        BY <1>2, <1>3, SourcesTile
      <4>2. Disjoint(cold[plan.tp])
        BY <1>1, <1>4, FiledDisjoint
      <4> HIDE DEF a, e, ms, me, plan
      <4> QED
        BY <3>1, <3>2, <4>1, <4>2, OutsideTiles
    <3>4. a \in DOMAIN new[t.tp] /\ new[t.tp][a] = live[t.tp][a]
      BY <1>9, <3>1, <3>3
    <3> QED
      BY <2>2, <3>1, <3>4 DEF Uploader
  <2> QED
    BY <2>1, <2>2
<1> QED
  BY <1>1, <1>5, <1>6, <1>8, <1>10, <1>11 DEF ColdInv

\* CompactReplace.
LEMMA ColdReplace ==
    ASSUME NEW live \in [Partitions -> Colds], NEW cold \in [Partitions -> Colds], NEW objs, NEW orphans \in SUBSET Keys,
           NEW t, NEW disk, NEW c, ColdInv(live, cold, objs, orphans, t, disk, c), c.plans \subseteq Plans,
           c.pc = "replace", NEW c2, c2.pc = "delete", c2.plans = c.plans, c2.plan = c.plan, c2.size = c.size,
           t.pc = "flip" => t.tp \in Partitions /\ GroupFacts(disk[t.queue[1]], t.tp),
           NEW new, MergedAt(new, cold, c.plan, c.size)
    PROVE  ColdInv(live, new, objs, orphans, t, disk, c2)
<1> DEFINE plan == c.plan
           ms == MergedStart(plan)
           me == MergedEnd(plan)
           rng == ObjectRange(me, MergedKey(plan), c.size)
<1>1. Filed(live, objs) /\ Buried(orphans, live) /\ Mirrors(live, cold, t, disk, c) /\ Merger(c, live, cold, objs) /\ Filed(cold, objs)
  BY DEF ColdInv
<1>2. plan \in c.plans /\ plan \in Plans /\ PlanSound(plan) /\ PlansApart(c.plans) /\ \A p \in c.plans : PlanSound(p)
  BY <1>1 DEF Merger
<1>3. MergedKey(plan) \in DOMAIN objs /\ \A p \in c.plans : SourcesIn(p, cold)
  BY <1>1 DEF Merger
<1>4. plan.tp \in Partitions
  BY <1>2 DEF Plans
<1>5. Merge(new, cold, objs, plan, c.size)
  BY <1>1, <1>2, <1>3, <1>4 DEF Merge
<1>6. Filed(new, objs) /\ MergedIn(plan, c.size, new)
  BY <1>1, <1>3, <1>5, FiledMerged, MergeOne
<1>7. \A p \in c.plans : p # plan => SourcesIn(p, new)
  <2> TAKE p \in c.plans
  <2> HAVE p # plan
  <2>1. p \in Plans /\ PlanSound(p) /\ SourcesIn(p, cold)
    BY <1>2, <1>3
  <2>2. p.tp = plan.tp => MergedEnd(p) <= MergedStart(plan) \/ MergedEnd(plan) <= MergedStart(p)
    BY <1>2 DEF PlansApart
  <2> HIDE DEF plan
  <2> QED
    BY <1>5, <2>1, <2>2, SourcesKept
<1>8. Merger(c2, live, new, objs)
  BY <1>1, <1>2, <1>6, <1>7 DEF Merger
<1>9. /\ \A q \in Partitions \ {plan.tp} : new[q] = cold[q]
      /\ DOMAIN new[plan.tp] = {x \in DOMAIN cold[plan.tp] : ~ (ms <= x /\ x < me)} \cup {ms}
      /\ new[plan.tp][ms] = rng
      /\ \A x \in DOMAIN cold[plan.tp] : ~ (ms <= x /\ x < me) => new[plan.tp][x] = cold[plan.tp][x]
  BY DEF MergedAt, MergedMap
<1>10. ms \in DOMAIN live[plan.tp] /\ live[plan.tp][ms] = rng /\ rng.end = me
  BY <1>1 DEF Merger, MergedIn, ObjectRange
<1>11. \A x \in DOMAIN live[plan.tp] : ms <= x /\ x < me => x = ms
  <2> TAKE x \in DOMAIN live[plan.tp]
  <2>1. Disjoint(live[plan.tp])
    BY <1>1, <1>4, FiledDisjoint
  <2>2. ms < x => me <= x
    BY <1>10, <2>1 DEF Disjoint
  <2>3. ms \in Nat /\ me \in Nat /\ x \in Nat
    BY <1>5, <2>1, MergeOne DEF Disjoint, Numbered
  <2> HIDE DEF ms, me
  <2> QED
    BY <2>2, <2>3
<1>12. Mirrors(live, new, t, disk, c2)
  <2> SUFFICES ASSUME NEW q \in Partitions
               PROVE  /\ \A x \in DOMAIN new[q] : x \in DOMAIN live[q] /\ live[q][x] = new[q][x]
                      /\ \A x \in DOMAIN live[q] :
                            \/ x \in DOMAIN new[q] /\ new[q][x] = live[q][x]
                            \/ t.pc = "flip" /\ q = t.tp /\ x = WorkStart(t, disk)
    BY DEF Mirrors
  <2>1. ASSUME NEW x \in DOMAIN new[q] PROVE x \in DOMAIN live[q] /\ live[q][x] = new[q][x]
    <3>1. CASE q = plan.tp /\ x = ms
      BY <1>9, <1>10, <3>1
    <3>2. CASE ~ (q = plan.tp /\ x = ms)
      <4>1. x \in DOMAIN cold[q] /\ new[q][x] = cold[q][x] /\ ~ (q = plan.tp /\ ms <= x /\ x < me)
        BY <1>9, <3>2
      <4> QED
        BY <1>1, <4>1 DEF Mirrors, Swapping
    <3> QED
      BY <3>1, <3>2
  <2>2. ASSUME NEW x \in DOMAIN live[q]
        PROVE  \/ x \in DOMAIN new[q] /\ new[q][x] = live[q][x]
               \/ t.pc = "flip" /\ q = t.tp /\ x = WorkStart(t, disk)
    <3>1. CASE q = plan.tp /\ x = ms
      BY <1>9, <1>10, <3>1
    <3>2. CASE ~ (q = plan.tp /\ x = ms)
      <4>1. ~ (q = plan.tp /\ ms <= x /\ x < me)
        BY <1>11, <3>2
      <4>2. \/ x \in DOMAIN cold[q] /\ cold[q][x] = live[q][x]
            \/ t.pc = "flip" /\ q = t.tp /\ x = WorkStart(t, disk)
        BY <1>1, <3>2 DEF Mirrors
      <4> QED
        BY <1>9, <4>1, <4>2
    <3> QED
      BY <3>1, <3>2
  <2> QED
    BY <2>1, <2>2
<1>13. Uploader(t, disk, live, new, objs)
  <2>1. CASE t.pc # "flip"
    BY <2>1 DEF ColdInv, Uploader
  <2>2. CASE t.pc = "flip"
    <3> DEFINE a == WorkStart(t, disk)
               e == WorkEnd(t, disk)
    <3>1. a \in DOMAIN live[t.tp] /\ live[t.tp][a] = WorkRange(t, disk) /\ Clear(a, e, cold[t.tp]) /\ t.tp \in Partitions
      BY <2>2 DEF ColdInv, Uploader
    <3>2. a \in Offsets /\ e \in Nat /\ a < e
      BY <2>2 DEF GroupFacts, WorkStart, WorkEnd
    <3>3. Clear(a, e, new[t.tp])
      <4>1. Tiled(cold[plan.tp], ms, me)
        BY <1>2, <1>3, SourcesTile
      <4>2. Disjoint(cold[plan.tp]) /\ MergedMap(new[plan.tp], cold[plan.tp], ms, me, rng)
        BY <1>1, <1>4, FiledDisjoint DEF MergedAt
      <4> HIDE DEF a, e, ms, me, plan, rng
      <4>3. CASE t.tp = plan.tp
        BY <3>1, <3>2, <4>1, <4>2, <4>3, ClearMerged
      <4>4. CASE t.tp # plan.tp
        BY <1>9, <3>1, <4>4
      <4> QED
        BY <4>3, <4>4
    <3> QED
      BY <2>2, <3>1, <3>3 DEF Uploader
  <2> QED
    BY <2>1, <2>2
<1> QED
  BY <1>1, <1>6, <1>8, <1>12, <1>13 DEF ColdInv

\* CompactDelete.
LEMMA ColdDelete ==
    ASSUME NEW live \in [Partitions -> Colds], NEW cold \in [Partitions -> Colds], NEW objs, NEW orphans \in SUBSET Keys,
           NEW t, NEW disk, NEW c, ColdInv(live, cold, objs, orphans, t, disk, c), c.plan \in Plans, c.plan \in c.plans,
           c.pc = "delete", NEW d, d.pc \in {"idle", "execute"}, d.plans = c.plans \ {c.plan},
           t.pc \in {"postcheck", "register"} =>
              /\ t.tp \in Partitions /\ GroupFacts(disk[t.queue[1]], t.tp)
              /\ Clear(WorkStart(t, disk), WorkEnd(t, disk), live[t.tp]),
           NEW objs2, Remains(objs2, objs, SourceKeys(c.plan))
    PROVE  ColdInv(live, cold, objs2, orphans, t, disk, d)
<1> DEFINE plan == c.plan
           ms == MergedStart(plan)
           me == MergedEnd(plan)
<1>1. Filed(live, objs) /\ Buried(orphans, live) /\ Mirrors(live, cold, t, disk, c) /\ Merger(c, live, cold, objs) /\ Filed(cold, objs)
  BY DEF ColdInv
<1>2. PlanSound(plan) /\ MergedIn(plan, c.size, live) /\ MergedIn(plan, c.size, cold)
  BY <1>1 DEF Merger
<1>3. NoneNamed(live, SourceKeys(plan)) /\ NoneNamed(cold, SourceKeys(plan))
  BY <1>1, <1>2, SourceKeysGone
<1>4. Filed(live, objs2) /\ Filed(cold, objs2)
  BY <1>1, <1>3, FiledRemains
<1>5. Uploader(t, disk, live, cold, objs2)
  <2>1. CASE t.pc \notin {"postcheck", "register"}
    BY <2>1 DEF ColdInv, Uploader
  <2>2. CASE t.pc \in {"postcheck", "register"}
    <3> DEFINE a == WorkStart(t, disk)
               e == WorkEnd(t, disk)
               k == KeyIn(disk[t.queue[1]], t.tp)
    <3>1. k = ObjectKey(t.tp, a, e) /\ Clear(a, e, live[t.tp])
      BY <2>2 DEF KeyIn, WorkStart, WorkEnd
    <3>2. a \in Nat /\ e \in Nat /\ a < e
      BY <2>2 DEF GroupFacts, WorkStart, WorkEnd
    <3>3. ms \in DOMAIN live[plan.tp] /\ live[plan.tp][ms].end = me
      BY <1>2 DEF MergedIn, ObjectRange
    <3>4. k \notin SourceKeys(plan)
      <4> SUFFICES ASSUME k \in SourceKeys(plan) PROVE FALSE
        OBVIOUS
      <4> HIDE DEF a, e, k, plan, ms, me
      <4>1. PICK s \in Sources(plan) : k = ObjectKey(plan.tp, s.start, s.end) /\ SourceOK(s, plan)
        BY <1>2, SourceKey
      <4>2. t.tp = plan.tp /\ a = s.start /\ e = s.end
        BY <3>1, <4>1 DEF ObjectKey
      <4>3. ms <= a /\ e <= me
        BY <4>1, <4>2 DEF SourceOK, ms, me
      <4>4. me <= a \/ e <= ms
        BY <3>1, <3>3, <4>2 DEF Clear
      <4>5. ms \in Nat /\ me \in Nat
        BY <3>3, RangeNaturals, <4>2, <2>2
      <4> QED
        BY <3>2, <4>3, <4>4, <4>5
    <3>5. k \in DOMAIN objs
      BY <2>2 DEF ColdInv, Uploader
    <3> QED
      BY <2>2, <3>4, <3>5 DEF Uploader, Remains
  <2> QED
    BY <2>1, <2>2
<1>6. Merger(c, live, cold, objs2)
  BY <1>1 DEF Merger
<1>7. ColdInv(live, cold, objs2, orphans, t, disk, c)
  BY <1>1, <1>4, <1>5, <1>6 DEF ColdInv
<1> QED
  BY <1>7, ColdPlan

\* A restart.
LEMMA ColdRestart ==
    ASSUME NEW live, NEW cold, NEW objs, NEW orphans, Filed(live, objs), Buried(orphans, live),
           \A tp \in Partitions : cold[tp] = live[tp], NEW t, t.pc = "idle", NEW disk
    PROVE  ColdInv(live, cold, objs, orphans, t, disk, IdleCompact)
<1>1. Filed(cold, objs)
  BY DEF Filed
<1>2. Mirrors(live, cold, t, disk, IdleCompact)
  BY DEF Mirrors
<1>3. Merger(IdleCompact, live, cold, objs)
  BY DEF Merger, PlansApart, IdleCompact
<1>4. Uploader(t, disk, live, cold, objs)
  BY DEF Uploader
<1> QED
  BY <1>1, <1>2, <1>3, <1>4 DEF ColdInv

-------------------------------------------------------------------------------
(* The steps, with compaction.                                             *)

\* What the lemmas about maps need.
LEMMA MapsTyped ==
    ASSUME StoreTyped
    PROVE  /\ manifest.live \in [Partitions -> Colds] /\ ColdOf(index) \in [Partitions -> Colds]
           /\ manifest.orphans \in SUBSET Keys /\ compact.plans \subseteq Plans /\ WalOK(wal)
           /\ \A tp \in Partitions : ColdOf(index)[tp] = index.parts[tp].cold
BY CompactFields DEF StoreTyped, Manifests, ColdOf, Exact, Indexes, Entries

\* The index keeps its cold ranges.
LEMMA SameCold ==
    ASSUME NEW idx, NEW new, \A tp \in Partitions : new.parts[tp].cold = idx.parts[tp].cold
    PROVE  ColdOf(new) = ColdOf(idx)
BY DEF ColdOf

\* The group in work, and that it meets no range before it is registered.
LEMMA MergingGroup ==
    ASSUME StoreTyped, MergeInv, tier.pc \in Working
    PROVE  /\ WorkGroup /\ WalOK(wal) /\ ~ tier.fenced
           /\ tier.pc # "flip" => Clear(WorkStart(tier, wal.disk), WorkEnd(tier, wal.disk), manifest.live[tier.tp])
<1>1. tier.pc \notin {"idle", "dead"}
  BY DEF Working
<1>2. /\ tier.queue[1] < wal.active /\ tier.queue[1] \in DOMAIN wal.disk
      /\ Segment = wal.disk[tier.queue[1]] /\ Segment \in Seq(Record) /\ WalOK(wal)
  BY <1>1, TierQueue
<1>3. tier.tp \in Partitions /\ tier.tp \in TpsOf(Segment) /\ AtWork(tier, wal)
  BY WorkFields
<1>4. OrderedSeq(Segment)
  BY <1>2, SegmentOrdered DEF MergeInv, LogOrder
<1>5. GroupFacts(Segment, tier.tp)
  BY <1>2, <1>3, <1>4, GroupRange
<1>6. WorkGroup
  BY <1>1, <1>2, <1>3, <1>5, GroupInWork DEF WorkGroup
<1>7. ASSUME tier.pc # "flip" PROVE Clear(WorkStart(tier, wal.disk), WorkEnd(tier, wal.disk), manifest.live[tier.tp])
  <2>1. SealedClear(wal, tier, manifest.live)
    BY DEF MergeInv, LogOrder
  <2>2. ~ Handled(tier, tier.queue[1], tier.tp)
    BY <1>3, <1>7 DEF Handled, AtWork
  <2> QED
    BY <1>2, <1>3, <2>1, <2>2 DEF SealedClear, WorkStart, WorkEnd
<1> QED
  BY <1>2, <1>6, <1>7 DEF MergeInv, Calm

\* A step of a request that leaves the storage alone.
LEMMA MergeRequest ==
    ASSUME MergeInv, UNCHANGED <<wal, manifest, objects, tier, compact, reader, leads, faults>>, ColdOf(index') = ColdOf(index),
           ClientsOrder(producer', hw', wal.disk, manifest.live), acked' \in SUBSET Record
    PROVE  MergeInv'
BY DEF MergeInv, Calm

\* A step of the tiering task, not between manifest and index.
LEMMA MergeTier ==
    ASSUME MergeInv, UNCHANGED <<index, manifest, objects, hw, producer, compact, reader, leads, acked, faults>>,
           wal'.tail = <<>>, tier.pc # "flip", tier'.pc # "flip", LogOrder(wal', tier', manifest.live),
           ClientsOrder(producer, hw, wal'.disk, manifest.live),
           Uploader(tier', wal'.disk, manifest.live, ColdOf(index), objects),
           tier'.pc \in {"group"} \cup Working => ~ tier'.fenced
    PROVE  MergeInv'
<1>1. ColdInv(manifest.live, ColdOf(index), objects, manifest.orphans, tier', wal'.disk, compact)
  BY ColdTier DEF MergeInv
<1> QED
  BY <1>1 DEF MergeInv, Calm

\* The steps of a request.
LEMMA MergeProduce ==
    ASSUME Merging, StoreTyped, MergeInv, Produce
    PROVE  MergeInv'
<1>0. Disciplined /\ FsyncOnWrite
  BY DEF Merging, Disciplined
<1>1. ClientsOrder(producer, hw, wal.disk, manifest.live) /\ Calm /\ acked \in SUBSET Record /\ wal.tail = <<>>
  BY DEF MergeInv, Calm
<1>2. ASSUME NEW p \in Producers, WalAppendErr(p) \/ AppendRollback(p) PROVE FALSE
  <2>1. CASE WalAppendErr(p)
    BY <1>1, <2>1 DEF WalAppendErr, Fault, Calm
  <2>2. CASE AppendRollback(p)
    BY <1>1, <2>2 DEF AppendRollback, ClientsOrder, RequestOrder, Busy
  <2> QED
    BY <1>2, <2>1, <2>2
<1>3. ~ FlushTick
  BY <1>0 DEF FlushTick
<1>4. ASSUME NEW p \in Producers, NEW tp \in Partitions, NEW n \in BatchSizes, NEW a \in AckLevels, NEW s \in Sizes,
             ProduceStart(p, tp, n, a, s)
      PROVE  MergeInv'
  <2>1. UNCHANGED <<index, wal, manifest, objects, hw, tier, compact, reader, leads, acked, faults>>
    BY <1>4 DEF ProduceStart, storage
  <2>2. ClientsOrder(producer', hw, wal.disk, manifest.live)
    BY <1>0, <1>1, <1>4, OrderProduceStart
  <2> QED
    BY <1>1, <2>1, <2>2, MergeRequest
<1>5. ASSUME NEW p \in Producers, AwaitCapacity(p) \/ InsertHot(p) PROVE MergeInv'
  <2>1. UNCHANGED <<wal, manifest, objects, hw, tier, compact, reader, leads, acked, faults>>
    BY <1>5 DEF AwaitCapacity, InsertHot, storage, history
  <2>2. PICK pc \in {"insert", "wal"} : producer[p].pc \in Appending /\ producer' = [producer EXCEPT ![p].pc = pc]
    BY <1>5 DEF AwaitCapacity, InsertHot, Appending
  <2>3. /\ \A c \in Producers \ {p} : producer'[c] = producer[c]
        /\ producer'[p].pc = pc /\ SameRequest(producer'[p], producer[p])
    BY <2>2, MovedFields
  <2>4. ClientsOrder(producer', hw, wal.disk, manifest.live)
    BY <1>1, <2>2, <2>3, OrderMoved DEF Busy, Appending
  <2>5. ColdOf(index') = ColdOf(index)
    <3>1. CASE AwaitCapacity(p)
      BY <3>1 DEF AwaitCapacity
    <3>2. CASE InsertHot(p)
      <4> DEFINE rec == Head(producer[p].todo)
      <4>1. HotInserted(index', index, rec.tp, rec.off, rec)
        BY <3>2, TypedInsertHot
      <4>2. \A tp \in Partitions : index'.parts[tp].cold = index.parts[tp].cold
        BY <4>1 DEF HotInserted, Elsewhere
      <4> QED
        BY <4>2, SameCold
    <3> QED
      BY <1>5, <3>1, <3>2
  <2> QED
    BY <1>1, <2>1, <2>4, <2>5, MergeRequest
<1>6. ASSUME NEW p \in Producers, ProduceCommit(p) PROVE MergeInv'
  <2>1. UNCHANGED <<index, wal, manifest, objects, tier, compact, reader, leads, faults>>
    BY <1>6 DEF ProduceCommit, storage
  <2>2. ClientsOrder(producer', hw', wal.disk, manifest.live) /\ ToSet(producer[p].recs) \subseteq Record
    BY <1>0, <1>1, <1>6, OrderProduceCommit
  <2>3. acked' = acked \cup ToSet(producer[p].recs)
    BY <1>6 DEF ProduceCommit
  <2> QED
    BY <1>1, <2>1, <2>2, <2>3, MergeRequest
<1>7. ASSUME NEW p \in Producers, WalAppend(p) PROVE MergeInv'
  <2> DEFINE rec == Head(producer[p].todo)
  <2>1. UNCHANGED <<index, manifest, objects, hw, tier, compact, reader, leads, acked, faults>>
    BY <1>7 DEF WalAppend, history
  <2>2. /\ ClientsOrder(producer', hw, wal'.disk, manifest.live)
        /\ rec \in Record /\ OneMore(wal', wal, rec) /\ wal'.tail = <<>>
        /\ Below(rec.tp, rec.off, wal.disk, manifest.live)
    BY <1>0, <1>1, <1>7, OrderWalAppend
  <2> HIDE DEF rec
  <2>3. LogOrder(wal', tier, manifest.live)
    BY <2>2, LogOrderAppended DEF MergeInv
  <2>4. tier.pc \in Working => wal'.disk[tier.queue[1]] = wal.disk[tier.queue[1]]
    <3> HAVE tier.pc \in Working
    <3>1. tier.pc \notin {"idle", "dead"}
      BY DEF Working
    <3>2. tier.queue[1] < wal.active /\ tier.queue[1] \in DOMAIN wal.disk /\ tier.queue[1] \in Nat /\ WalOK(wal)
      BY <3>1, TierQueue
    <3>3. wal.active \in Nat
      BY <3>2, WalFields
    <3>4. tier.queue[1] # wal.active
      BY <3>2, <3>3
    <3> QED
      BY <2>2, <3>2, <3>4 DEF OneMore
  <2>5. ColdInv(manifest.live, ColdOf(index), objects, manifest.orphans, tier, wal'.disk, compact)
    BY <2>4, ColdDisk DEF MergeInv
  <2> QED
    BY <2>1, <2>2, <2>3, <2>5 DEF MergeInv, Calm
<1> QED
  BY <1>2, <1>3, <1>4, <1>5, <1>6, <1>7 DEF Produce

\* TierOnce.
LEMMA MergeTierOnce ==
    ASSUME StoreTyped, MergeInv, TierOnce
    PROVE  MergeInv'
<1>1. /\ UNCHANGED <<index, manifest, objects, hw, producer, compact, reader, leads, acked, faults>>
      /\ tier.pc = "idle" /\ tier'.pc = "segment"
  BY DEF TierOnce, history
<1>2. WalOK(wal) /\ wal.tail = <<>> /\ manifest.live \in [Partitions -> Colds]
  BY DEF StoreTyped, MergeInv, Calm, Manifests
<1>3. LogOrder(wal, tier, manifest.live) /\ ClientsOrder(producer, hw, wal.disk, manifest.live)
  BY DEF MergeInv
<1>4. /\ tier'.pc \notin {"postcheck", "register", "flip"} /\ tier'.pc \notin {"group"} \cup Working
      /\ tier.pc \notin {"group"} \cup Working
  BY <1>1 DEF Working
<1>5. wal'.tail = <<>> /\ LogOrder(wal', tier', manifest.live) /\ ClientsOrder(producer, hw, wal'.disk, manifest.live)
  <2>1. CASE wal' = wal
    <3>1. \A s, tp : Handled(tier, s, tp) => Handled(tier', s, tp)
      BY <1>4 DEF Handled
    <3>2. LogOrder(wal, tier', manifest.live)
      BY <1>3, <3>1, LogOrderTier
    <3> QED
      BY <1>2, <1>3, <2>1, <3>2
  <2>2. CASE wal' = handle_maybe_seal(wal)
    <3>1. WalOK(wal') /\ Rotated(wal', wal, wal.tail)
      BY <1>2, <2>2, SealFields
    <3>2. wal.tail \in Seq(Record) /\ wal'.tail = <<>>
      BY <1>2, <3>1, WalFields DEF Rotated
    <3>3. SameRecords(wal', wal)
      BY <1>2, <3>1, <3>2, RotatedSame
    <3>4. LogOrder(wal', tier', manifest.live)
      BY <1>2, <1>3, <1>4, <3>3, LogOrderRotated
    <3>5. BelowStays(wal.disk, manifest.live, wal'.disk, manifest.live)
      BY <3>3, BelowFewer
    <3>6. ClientsOrder(producer, hw, wal'.disk, manifest.live)
      BY <1>3, <3>5, OrderStays DEF StoreTyped
    <3> QED
      BY <3>2, <3>4, <3>6
  <2> QED
    BY <2>1, <2>2 DEF TierOnce
<1>6. Uploader(tier', wal'.disk, manifest.live, ColdOf(index), objects)
  BY <1>4 DEF Uploader
<1> QED
  BY <1>1, <1>4, <1>5, <1>6, MergeTier

\* A segment is deleted, and the task moves on.
LEMMA MergeDeleted ==
    ASSUME StoreTyped, MergeInv, tier.pc \notin {"idle", "dead", "flip"}, wal' = delete_segment(wal, Head(tier.queue)),
           tier' = NextSegment, UNCHANGED <<index, manifest, objects, hw, producer, compact, reader, leads, acked, faults>>
    PROVE  MergeInv'
<1>1. WalOK(wal') /\ Deleted(wal', wal, tier.queue[1])
  BY TypedDelete
<1>2. tier.queue[1] < wal.active /\ tier.queue[1] \in Nat /\ WalOK(wal)
  BY TierQueue
<1>3. wal.active \in Nat /\ wal.active \in DOMAIN wal.disk /\ wal.tail = <<>>
  BY <1>2, WalFields DEF WalOK, MergeInv, Calm
<1>4. tier.queue[1] # wal.active
  BY <1>2, <1>3
<1>5. LogOrder(wal', tier', manifest.live)
  BY <1>1, <1>3, <1>4, LogOrderDeleted DEF MergeInv
<1>6. BelowStays(wal.disk, manifest.live, wal'.disk, manifest.live)
  BY <1>1, BelowFewer
<1>7. ClientsOrder(producer, hw, wal'.disk, manifest.live)
  BY <1>6, OrderStays DEF MergeInv, StoreTyped
<1>8. tier'.pc \notin {"group"} \cup Working
  BY NextPc DEF Working
<1>9. Uploader(tier', wal'.disk, manifest.live, ColdOf(index), objects)
  BY <1>8 DEF Uploader, Working
<1>10. wal'.tail = <<>>
  BY <1>1, <1>3 DEF Deleted
<1> QED
  BY <1>5, <1>7, <1>8, <1>9, <1>10, MergeTier DEF Working

\* TierReadSegment and TierReclaim.
LEMMA MergeSegment ==
    ASSUME StoreTyped, MergeInv, TierReadSegment \/ TierReclaim
    PROVE  MergeInv'
<1>1. UNCHANGED <<index, manifest, objects, hw, producer, compact, reader, leads, acked, faults>>
  BY DEF TierReadSegment, TierReclaim, history
<1>2. CASE tier' = NextSegment /\ wal' = delete_segment(wal, Head(tier.queue))
  <2>1. tier.pc \notin {"idle", "dead", "flip"}
    BY DEF TierReadSegment, TierReclaim
  <2> QED
    BY <1>1, <1>2, <2>1, MergeDeleted
<1>3. CASE TierReclaim
  <2>1. ~ tier.fenced
    BY <1>3 DEF TierReclaim, MergeInv, Calm
  <2> QED
    BY <1>2, <1>3, <2>1 DEF TierReclaim
<1>4. CASE TierReadSegment /\ Segment # <<>>
  <2>1. wal' = wal /\ tier.pc = "segment" /\ tier'.pc = "group" /\ tier'.fenced = FALSE
    BY <1>4 DEF TierReadSegment
  <2>2. \A s, tp : Handled(tier, s, tp) => Handled(tier', s, tp)
    BY <2>1 DEF Handled, Working
  <2>3. LogOrder(wal, tier', manifest.live)
    BY <2>2, LogOrderTier DEF MergeInv
  <2>4. Uploader(tier', wal'.disk, manifest.live, ColdOf(index), objects)
    BY <2>1 DEF Uploader
  <2>5. wal'.tail = <<>> /\ ClientsOrder(producer, hw, wal'.disk, manifest.live)
    BY <2>1 DEF MergeInv, Calm
  <2> QED
    BY <1>1, <2>1, <2>3, <2>4, <2>5, MergeTier
<1> QED
  BY <1>2, <1>3, <1>4 DEF TierReadSegment

\* TierPreCheck and TierPostCheck: the node leads.
LEMMA MergeChecks ==
    ASSUME StoreTyped, MergeInv, TierPostCheck \/ \E tp \in Partitions : TierPreCheck(tp)
    PROVE  MergeInv'
<1>1. UNCHANGED <<index, wal, manifest, objects, hw, producer, compact, reader, leads, acked, faults>>
  BY DEF TierPreCheck, TierPostCheck, storage, history
<1>2. Calm
  BY DEF MergeInv
<1>3. /\ tier.pc \in {"group", "postcheck"} /\ tier'.pc \in {"upload", "register"} /\ ~ tier'.fenced
      /\ tier'.queue = tier.queue /\ tier'.todo = tier.todo
      /\ tier'.pc = "register" => tier.pc = "postcheck" /\ tier'.tp = tier.tp
  <2>1. CASE \E tp \in Partitions : TierPreCheck(tp)
    <3>1. PICK tp \in Partitions : TierPreCheck(tp)
      BY <2>1
    <3>2. leads[tp] /\ ~ tier.fenced
      BY <1>2, <3>1 DEF Calm, TierPreCheck
    <3> QED
      BY <3>1, <3>2 DEF TierPreCheck
  <2>2. CASE TierPostCheck
    <3>1. AtWork(tier, wal) /\ tier.pc = "postcheck" /\ tier.pc \in Working
      BY <2>2, TierAt DEF TierPostCheck, Working
    <3>2. leads[tier.tp] /\ ~ tier.fenced
      BY <1>2, <3>1 DEF Calm, AtWork
    <3>3. tier' = [tier EXCEPT !.pc = "register"]
      BY <2>2, <3>2 DEF TierPostCheck
    <3>4. /\ tier'.pc = "register" /\ tier'.queue = tier.queue /\ tier'.todo = tier.todo
          /\ tier'.fenced = tier.fenced /\ tier'.tp = tier.tp
      BY <3>1, <3>3, TierMoved
    <3> QED
      BY <3>1, <3>2, <3>4
  <2> QED
    BY <2>1, <2>2
<1>4. \A s, tp : Handled(tier, s, tp) => Handled(tier', s, tp)
  BY <1>3 DEF Handled, Working
<1>5. LogOrder(wal, tier', manifest.live)
  BY <1>4, LogOrderTier DEF MergeInv
<1>6. Uploader(tier', wal.disk, manifest.live, ColdOf(index), objects)
  BY <1>3 DEF Uploader, MergeInv, ColdInv
<1>7. wal.tail = <<>> /\ ClientsOrder(producer, hw, wal.disk, manifest.live)
  BY DEF MergeInv, Calm
<1> QED
  BY <1>1, <1>3, <1>5, <1>6, <1>7, MergeTier

\* TierUpload.
LEMMA MergeTierUpload ==
    ASSUME StoreTyped, MergeInv, TierUpload
    PROVE  MergeInv'
<1>1. UNCHANGED <<index, wal, manifest, hw, producer, compact, reader, leads, acked, faults>>
  BY DEF TierUpload, history
<1>2. tier.pc = "upload" /\ tier.pc \in Working /\ AtWork(tier, wal)
  BY TierAt DEF TierUpload, Working
<1>3. tier'.pc = "postcheck" /\ tier'.queue = tier.queue /\ tier'.todo = tier.todo /\ tier'.fenced = tier.fenced /\ tier'.tp = tier.tp
  BY <1>2, TierMoved DEF TierUpload
<1>4. Stored(objects', objects, GroupKey(tier.tp), Group(tier.tp))
  BY <1>2, UploadedTyped DEF TierUpload
<1>5. DOMAIN objects \subseteq DOMAIN objects' /\ GroupKey(tier.tp) \in DOMAIN objects'
  BY <1>4 DEF Stored
<1>6. WorkGroup /\ ~ tier.fenced
  BY <1>2, MergingGroup
<1>7. ColdInv(manifest.live, ColdOf(index), objects', manifest.orphans, tier, wal.disk, compact)
  BY <1>5, ColdGrown DEF MergeInv
<1>8. Uploader(tier', wal.disk, manifest.live, ColdOf(index), objects')
  BY <1>3, <1>5, <1>6 DEF Uploader, WorkGroup
<1>9. ColdInv(manifest.live, ColdOf(index), objects', manifest.orphans, tier', wal.disk, compact)
  BY <1>2, <1>3, <1>7, <1>8, ColdTier
<1>10. \A s, tp : Handled(tier, s, tp) => Handled(tier', s, tp)
  BY <1>2, <1>3 DEF Handled, Working
<1>11. LogOrder(wal, tier', manifest.live)
  BY <1>10, LogOrderTier DEF MergeInv
<1> QED
  BY <1>1, <1>3, <1>6, <1>9, <1>11 DEF MergeInv, Calm

\* The manifest with the group's range.
LEMMA MergeRegistered ==
    ASSUME StoreTyped, MergeInv, tier.pc = "register", manifest' = Registered
    PROVE  /\ manifest'.torn = manifest.torn /\ manifest'.orphans = manifest.orphans
           /\ manifest'.live \in [Partitions -> Colds]
           /\ RangeAdded(manifest'.live, manifest.live, wal.disk[tier.queue[1]], tier.tp)
<1> DEFINE seg == wal.disk[tier.queue[1]]
           tp == tier.tp
           a == StartIn(seg, tp)
           rng == ObjectRange(EndIn(seg, tp), KeyIn(seg, tp), Len(GroupIn(seg, tp)))
           c == Put(manifest.live[tp], a, rng)
<1>1. WorkGroup /\ WalOK(wal) /\ manifest.live \in [Partitions -> Colds]
  BY MergingGroup, MapsTyped DEF Working
<1>2. tp \in Partitions /\ GroupFacts(seg, tp) /\ tp \in TpsOf(seg)
  BY <1>1 DEF WorkGroup
<1>3. manifest.torn = FALSE /\ manifest \in Manifests
  BY DEF MergeInv, Calm, StoreTyped
<1>4. manifest' = [manifest EXCEPT !.live = [manifest.live EXCEPT ![tp] = c]]
  BY <1>1, <1>3 DEF Registered, register, FoldRegister, WorkGroup
<1>5. Stored(c, manifest.live[tp], a, rng)
  <2>1. a \in Offsets /\ EndIn(seg, tp) \in Ends /\ KeyIn(seg, tp) \in Keys /\ GroupIn(seg, tp) \in Seq(Record)
    BY <1>2 DEF GroupFacts, GroupOf
  <2>2. Len(GroupIn(seg, tp)) \in Nat /\ manifest.live[tp] \in Colds /\ 0 \in Ends
    BY <1>1, <1>2, <2>1, StoreConstants DEF Ends
  <2> HIDE DEF seg, tp, a
  <2> QED
    BY <2>1, <2>2, ColdStored
<1> HIDE DEF c
<1>6. /\ manifest'.live = [manifest.live EXCEPT ![tp] = c] /\ manifest'.torn = manifest.torn
      /\ manifest'.orphans = manifest.orphans
  BY <1>3, <1>4 DEF Manifests
<1>7. manifest'.live[tp] = c /\ \A q \in Partitions \ {tp} : manifest'.live[q] = manifest.live[q]
  BY <1>1, <1>2, <1>6
<1>8. RangeAdded(manifest'.live, manifest.live, seg, tp)
  BY <1>5, <1>7 DEF RangeAdded
<1>9. manifest'.live \in [Partitions -> Colds]
  <2>1. manifest' \in Manifests
    BY RegisteredTyped DEF Working
  <2> QED
    BY <2>1 DEF Manifests
<1> QED
  BY <1>6, <1>8, <1>9

\* TierRegister.
LEMMA MergeTierRegister ==
    ASSUME StoreTyped, MergeInv, TierRegister
    PROVE  MergeInv'
<1> DEFINE seg == wal.disk[tier.queue[1]]
           tp == tier.tp
<1>1. tier.pc = "register" /\ tier.pc \in Working /\ AtWork(tier, wal)
  BY TierAt DEF TierRegister, Working
<1>2. /\ manifest' = Registered /\ tier' = [tier EXCEPT !.pc = "flip"]
      /\ UNCHANGED <<index, wal, objects, hw, producer, compact, reader, leads, acked, faults>>
  BY DEF TierRegister, history
<1>3. tier'.pc = "flip" /\ tier'.queue = tier.queue /\ tier'.todo = tier.todo /\ tier'.fenced = tier.fenced /\ tier'.tp = tier.tp
  BY <1>1, <1>2, TierMoved
<1>4. /\ manifest'.torn = manifest.torn /\ manifest'.orphans = manifest.orphans
      /\ RangeAdded(manifest'.live, manifest.live, seg, tp)
  BY <1>1, <1>2, MergeRegistered
<1>5. /\ WorkGroup /\ WalOK(wal) /\ ~ tier.fenced
      /\ Clear(WorkStart(tier, wal.disk), WorkEnd(tier, wal.disk), manifest.live[tier.tp])
  BY <1>1, MergingGroup
<1>6. tier.queue[1] \in DOMAIN wal.disk /\ tier.queue[1] < wal.active /\ tp \in TpsOf(seg) /\ tp \in Partitions /\ GroupFacts(seg, tp)
  BY <1>5 DEF WorkGroup
<1>7. manifest.live \in [Partitions -> Colds] /\ ColdOf(index) \in [Partitions -> Colds] /\ manifest.orphans \in SUBSET Keys
      /\ compact.plans \subseteq Plans /\ CompactOK(compact)
  BY MapsTyped DEF StoreTyped
<1>8. LogOrder(wal, tier', manifest'.live)
  <2>1. Handled(tier', tier.queue[1], tp)
    BY <1>3 DEF Handled, Working
  <2>2. \A x, q : Handled(tier, x, q) => Handled(tier', x, q)
    BY <1>1, <1>3 DEF Handled, Working
  <2>3. LogOrder(wal, tier, manifest.live)
    BY DEF MergeInv
  <2> HIDE DEF seg, tp
  <2> QED
    BY <1>4, <1>5, <1>6, <1>7, <2>1, <2>2, <2>3, LogOrderRegistered DEF seg
<1>9. ClientsOrder(producer, hw, wal.disk, manifest'.live)
  <2>1. InOrder(wal.disk) /\ ClientsOrder(producer, hw, wal.disk, manifest.live)
    BY DEF MergeInv, LogOrder
  <2>2. BelowStays(wal.disk, manifest.live, wal.disk, manifest'.live)
    BY <1>4, <1>5, <1>6, <2>1, BelowRegistered
  <2> QED
    BY <2>1, <2>2, OrderStays DEF StoreTyped
<1>10. ColdInv(manifest'.live, ColdOf(index), objects, manifest.orphans, tier', wal.disk, compact)
  <2>1. AddedAt(manifest'.live, manifest.live, tier.tp, WorkStart(tier, wal.disk), WorkRange(tier, wal.disk))
    BY <1>4 DEF RangeAdded, AddedAt, WorkStart, WorkRange, WorkEnd
  <2>2. ColdInv(manifest.live, ColdOf(index), objects, manifest.orphans, tier, wal.disk, compact)
    BY DEF MergeInv
  <2> QED
    BY <1>1, <1>3, <1>5, <1>6, <1>7, <2>1, <2>2, ColdRegister
<1> QED
  BY <1>2, <1>3, <1>4, <1>5, <1>8, <1>9, <1>10 DEF MergeInv, Calm

\* A read keeps its object when the index keeps its ranges.
LEMMA ReadsKept ==
    ASSUME NEW rd, NEW cold, ReadsSafe(rd, cold), NEW new, RangesKept(new, cold)
    PROVE  ReadsSafe(rd, new)
<1>1. \A k : InIndex(k, cold) => InIndex(k, new)
  BY KeptRanges
<1> QED
  BY <1>1 DEF ReadsSafe, ReadSafe

\* What TierFlip changes.
LEMMA TierFlips ==
    ASSUME StoreTyped, MergeInv, TierFlip
    PROVE  /\ tier.pc = "flip" /\ WorkGroup /\ tier.tp \in tier.todo
           /\ UNCHANGED <<wal, manifest, objects, hw, producer, compact, reader, leads, acked, faults>>
           /\ Flipped(index', index, tier.tp, WorkStart(tier, wal.disk), WorkEnd(tier, wal.disk), WorkRange(tier, wal.disk))
           /\ tier'.pc = "group" /\ tier'.queue = tier.queue /\ tier'.todo = tier.todo \ {tier.tp} /\ ~ tier'.fenced
<1> DEFINE seg == wal.disk[tier.queue[1]]
           tp == tier.tp
           lo == StartIn(seg, tp)
           hi == EndIn(seg, tp)
           n == Len(GroupIn(seg, tp))
<1>1. tier.pc = "flip" /\ tier.pc \in Working /\ AtWork(tier, wal)
  BY TierAt DEF TierFlip, Working
<1>2. UNCHANGED <<wal, manifest, objects, hw, producer, compact, reader, leads, acked, faults>>
  BY DEF TierFlip, storage, history
<1>3. WorkGroup /\ WalOK(wal) /\ ~ tier.fenced
  BY <1>1, MergingGroup
<1>4. tp \in Partitions /\ GroupFacts(seg, tp)
  BY <1>3 DEF WorkGroup
<1>5. lo \in Offsets /\ lo \in Nat /\ hi \in Ends /\ hi \in Nat /\ lo < hi /\ KeyIn(seg, tp) \in Keys /\ n \in Nat
  <2>1. GroupIn(seg, tp) \in Seq(Record)
    BY <1>4 DEF GroupFacts, GroupOf
  <2>2. n \in Nat
    BY <2>1
  <2>3. lo \in Offsets /\ lo \in Nat /\ hi \in Ends /\ hi \in Nat /\ lo < hi /\ KeyIn(seg, tp) \in Keys
    BY <1>4 DEF GroupFacts
  <2> QED
    BY <2>2, <2>3
<1>6. ~ (lo > hi)
  BY <1>5
<1>7. /\ index' = flip_to_cold(index, tp, lo, hi, KeyIn(seg, tp), n)
      /\ tier' = GroupDone(tp, FALSE)
  BY <1>3, <1>6 DEF TierFlip, WorkGroup
<1>8. Flipped(index', index, tp, lo, hi, ObjectRange(hi, KeyIn(seg, tp), n))
  <2>1. Exact(index)
    BY DEF StoreTyped
  <2> HIDE DEF seg, tp, lo, hi, n
  <2> QED
    BY <1>4, <1>5, <1>7, <2>1, FlipFlips
<1>9. tier'.pc = "group" /\ tier'.queue = tier.queue /\ tier'.todo = tier.todo \ {tp} /\ ~ tier'.fenced
  BY <1>3, <1>7 DEF GroupDone
<1>10. tier.tp \in tier.todo
  BY <1>1 DEF AtWork
<1> QED
  BY <1>1, <1>2, <1>3, <1>8, <1>9, <1>10 DEF WorkRange, WorkStart, WorkEnd

\* The flip adds the range of the group to the index.
LEMMA FlipAdds ==
    ASSUME StoreTyped, MergeInv, TierFlip
    PROVE  AddedAt(ColdOf(index'), ColdOf(index), tier.tp, WorkStart(tier, wal.disk), WorkRange(tier, wal.disk))
<1>1. /\ WorkGroup
      /\ Flipped(index', index, tier.tp, WorkStart(tier, wal.disk), WorkEnd(tier, wal.disk), WorkRange(tier, wal.disk))
  BY TierFlips
<1>2. tier.tp \in Partitions
  BY <1>1 DEF WorkGroup
<1>3. \A q \in Partitions \ {tier.tp} : index'.parts[q].cold = index.parts[q].cold
  BY <1>1 DEF Flipped, Elsewhere
<1>4. Stored(index'.parts[tier.tp].cold, index.parts[tier.tp].cold, WorkStart(tier, wal.disk), WorkRange(tier, wal.disk))
  BY <1>1 DEF Flipped
<1>5. \A q \in Partitions : ColdOf(index')[q] = index'.parts[q].cold /\ ColdOf(index)[q] = index.parts[q].cold
  BY DEF ColdOf
<1> QED
  BY <1>2, <1>3, <1>4, <1>5 DEF AddedAt

\* TierFlip.
LEMMA MergeTierFlip ==
    ASSUME StoreTyped, MergeInv, TierFlip
    PROVE  MergeInv'
<1>1. /\ tier.pc = "flip" /\ WorkGroup
      /\ UNCHANGED <<wal, manifest, objects, hw, producer, compact, reader, leads, acked, faults>>
      /\ tier'.pc = "group" /\ tier'.queue = tier.queue /\ tier'.todo = tier.todo \ {tier.tp} /\ ~ tier'.fenced
  BY TierFlips
<1>2. tier.tp \in Partitions /\ GroupFacts(wal.disk[tier.queue[1]], tier.tp)
  BY <1>1 DEF WorkGroup
<1>3. /\ manifest.live \in [Partitions -> Colds] /\ ColdOf(index) \in [Partitions -> Colds] /\ compact.plans \subseteq Plans
      /\ ColdInv(manifest.live, ColdOf(index), objects, manifest.orphans, tier, wal.disk, compact)
      /\ ReadsSafe(reader, ColdOf(index)) /\ LogOrder(wal, tier, manifest.live)
  BY MapsTyped DEF MergeInv
<1>4. /\ ColdInv(manifest.live, ColdOf(index'), objects, manifest.orphans, tier', wal.disk, compact)
      /\ RangesKept(ColdOf(index'), ColdOf(index))
  <2> DEFINE new == ColdOf(index')
  <2>1. AddedAt(new, ColdOf(index), tier.tp, WorkStart(tier, wal.disk), WorkRange(tier, wal.disk))
    BY FlipAdds
  <2> HIDE DEF new
  <2>2. ColdInv(manifest.live, new, objects, manifest.orphans, tier', wal.disk, compact) /\ RangesKept(new, ColdOf(index))
    BY <1>1, <1>2, <1>3, <2>1, ColdFlip
  <2> QED
    BY <2>2 DEF new
<1>5. ReadsSafe(reader, ColdOf(index'))
  BY <1>3, <1>4, ReadsKept
<1>6. LogOrder(wal, tier', manifest.live)
  <2>1. \A s, q : Handled(tier, s, q) => Handled(tier', s, q)
    BY <1>1 DEF Handled, Working
  <2> QED
    BY <1>3, <2>1, LogOrderTier
<1> QED
  BY <1>1, <1>4, <1>5, <1>6 DEF MergeInv, Calm

\* The flip keeps the ranges of the index.
LEMMA FlipRanges ==
    ASSUME StoreTyped, MergeInv, TierFlip
    PROVE  /\ RangesKept(ColdOf(index'), ColdOf(index))
           /\ WorkStart(tier, wal.disk) \in DOMAIN ColdOf(index')[tier.tp]
           /\ ColdOf(index')[tier.tp][WorkStart(tier, wal.disk)] = WorkRange(tier, wal.disk)
<1> DEFINE a == WorkStart(tier, wal.disk)
           e == WorkEnd(tier, wal.disk)
           tp == tier.tp
           rng == WorkRange(tier, wal.disk)
           cold == ColdOf(index)
           new == ColdOf(index')
<1>1. tier.pc = "flip" /\ WorkGroup /\ Flipped(index', index, tp, a, e, rng)
  BY TierFlips
<1>2. tp \in Partitions /\ a \in Nat /\ e \in Nat /\ a < e
  BY <1>1 DEF WorkGroup, GroupFacts, WorkStart, WorkEnd
<1>3. cold \in [Partitions -> Colds] /\ Filed(cold, objects) /\ Clear(a, e, cold[tp])
  BY <1>1, MapsTyped DEF MergeInv, ColdInv, Uploader
<1>4. \A b \in DOMAIN cold[tp] : b \in Nat /\ cold[tp][b].end \in Nat /\ b < cold[tp][b].end
  BY <1>2, <1>3, RangeNaturals DEF Filed, FiledIn
<1>5. \A q \in Partitions : new[q] = index'.parts[q].cold /\ cold[q] = index.parts[q].cold
  BY DEF ColdOf
<1>6. (\A q \in Partitions \ {tp} : new[q] = cold[q]) /\ Stored(new[tp], cold[tp], a, rng)
  BY <1>1, <1>2, <1>5 DEF Flipped, Elsewhere
<1> HIDE DEF a, e, tp, rng, cold, new
<1>7. a \notin DOMAIN cold[tp]
  BY <1>2, <1>3, <1>4 DEF Clear
<1>8. RangesKept(new, cold) /\ a \in DOMAIN new[tp] /\ new[tp][a] = rng
  BY <1>2, <1>6, <1>7 DEF RangesKept, Stored
<1> QED
  BY <1>8 DEF a, tp, rng, cold, new

-------------------------------------------------------------------------------
(* The plans of a compaction cycle.                                        *)

\* Ranges listed in order, one after the other.
Listed(s, tp) ==
    /\ Ordered(s) /\ \A j \in 1 .. Len(s) : s[j].start < s[j].end /\ s[j].key = ObjectKey(tp, s[j].start, s[j].end)
Touching(s) == \A j \in 2 .. Len(s) : s[j].start = s[j - 1].end

LEMMA SegmentNumbers ==
    ASSUME NEW s \in Seq(Segments), NEW j \in 1 .. Len(s)
    PROVE  s[j] \in Segments /\ s[j].start \in Nat /\ s[j].end \in Nat
<1>1. s[j] \in Segments
  OBVIOUS
<1>2. Offsets \subseteq Nat /\ Ends \subseteq Nat
  BY StoreConstants DEF Offsets, Ends
<1> QED
  BY <1>1, <1>2 DEF Segments

\* Ranges that touch cover what lies between the first and the last.
LEMMA TouchingCovers ==
    ASSUME NEW s \in Seq(Segments), NEW n \in Nat, n = Len(s), n >= 1, Touching(s), NEW o \in Nat,
           s[1].start <= o, o < s[n].end
    PROVE  \E i \in 1 .. n : s[i].start <= o /\ o < s[i].end
<1> DEFINE D == 0 .. n - 1
           C(k) == \E i \in 1 .. k : s[i].start <= o /\ o < s[i].end
           h == [k \in D |-> k]
           P == [k \in D |-> {x \in D : o < s[k + 1].end => C(k + 1)}]
<1>1. h[0] \in P[0]
  <2>1. 0 \in D /\ h[0] = 0 /\ 1 \in 1 .. 1
    OBVIOUS
  <2>2. o < s[1].end => C(1)
    OBVIOUS
  <2>3. P[0] = {x \in D : o < s[0 + 1].end => C(0 + 1)}
    BY <2>1
  <2>4. 0 + 1 = 1
    OBVIOUS
  <2> QED
    BY <2>1, <2>2, <2>3, <2>4
<1>2. ASSUME NEW i \in 1 .. n - 1, h[i - 1] \in P[i - 1] PROVE h[i] \in P[i]
  <2>1. i \in D /\ i - 1 \in D /\ i \in 1 .. n /\ i + 1 \in 2 .. n /\ i + 1 \in 1 .. n
    OBVIOUS
  <2>2. (i - 1) + 1 = i /\ (i + 1) - 1 = i /\ 1 .. i \subseteq 1 .. i + 1
    OBVIOUS
  <2>3. o < s[i].end => C(i)
    <3>1. P[i - 1] = {x \in D : o < s[(i - 1) + 1].end => C((i - 1) + 1)}
      BY <2>1
    <3> HIDE DEF D, h, P, C
    <3>2. h[i - 1] \in {x \in D : o < s[(i - 1) + 1].end => C((i - 1) + 1)}
      BY <1>2, <3>1
    <3> QED
      BY <2>2, <3>2
  <2>4. s[i + 1].start = s[i].end
    BY <2>1, <2>2 DEF Touching
  <2>5. o < s[i + 1].end => C(i + 1)
    <3>1. s[i].end \in Nat
      BY <2>1, SegmentNumbers
    <3>2. CASE o < s[i].end
      BY <2>2, <2>3, <3>2
    <3>3. CASE ~ (o < s[i].end)
      <4>1. s[i + 1].start <= o
        BY <2>4, <3>1, <3>3
      <4>2. i + 1 \in 1 .. i + 1
        OBVIOUS
      <4> QED
        BY <4>1, <4>2
    <3> QED
      BY <3>2, <3>3
  <2> HIDE DEF C
  <2> QED
    BY <2>1, <2>5
<1>3. \A k \in 0 .. n - 1 : h[k] \in P[k]
  <2> HIDE DEF h, P
  <2>1. n - 1 \in Nat
    OBVIOUS
  <2>2. \A i \in 1 .. n - 1 : h[i - 1] \in P[i - 1] => h[i] \in P[i]
    BY <1>2
  <2> QED
    BY <1>1, <2>1, <2>2, PrefixInduction
<1>4. n - 1 \in D /\ (n - 1) + 1 = n
  OBVIOUS
<1>5. P[n - 1] = {x \in D : o < s[(n - 1) + 1].end => C((n - 1) + 1)} /\ h[n - 1] \in P[n - 1]
  BY <1>3, <1>4
<1>6. C(n)
  <2> HIDE DEF h, P, C, D
  <2> QED
    BY <1>4, <1>5
<1> QED
  BY <1>6

\* A run of at least two ranges is a sound plan.
LEMMA RunSound ==
    ASSUME NEW plan \in Plans, Len(plan.sources) >= 2, Listed(plan.sources, plan.tp), Touching(plan.sources)
    PROVE  PlanSound(plan)
<1> DEFINE s == plan.sources
           n == Len(s)
           ms == MergedStart(plan)
           me == MergedEnd(plan)
<1>1. s \in Seq(Segments) /\ s # <<>>
  BY DEF Plans, Merges
<1>2. n \in Nat /\ n >= 2 /\ 1 \in 1 .. n /\ n \in 1 .. n
  BY <1>1
<1>3. ms = s[1].start /\ me = s[n].end
  <2>1. Head(s) = s[1] /\ Last(s) = s[n]
    BY <1>1 DEF Last
  <2> QED
    BY <2>1 DEF MergedStart, MergedEnd
<1>4. \A x : x \in Sources(plan) <=> \E i \in 1 .. n : x = s[i]
  BY <1>1, SeqElements DEF Sources
<1>5. ASSUME NEW i \in 1 .. n PROVE SourceOK(s[i], plan)
  <2>1. /\ s[i].start \in Nat /\ s[i].end \in Nat /\ s[1].start \in Nat /\ s[1].end \in Nat
        /\ s[n].start \in Nat /\ s[n].end \in Nat
    BY <1>1, <1>2, SegmentNumbers
  <2>2. /\ s[i].start < s[i].end /\ s[1].start < s[1].end /\ s[n].start < s[n].end
        /\ s[i].key = ObjectKey(plan.tp, s[i].start, s[i].end)
    BY <1>2 DEF Listed
  <2>3. (1 < i => s[1].end <= s[i].start) /\ (i < n => s[i].end <= s[n].start) /\ s[1].end <= s[n].start
    BY <1>2 DEF Listed, Ordered
  <2>4. (i = 1 \/ 1 < i) /\ (i = n \/ i < n) /\ ~ (i = 1 /\ i = n)
    BY <1>2
  <2> DEFINE a == s[i].start
             b == s[i].end
             a1 == s[1].start
             b1 == s[1].end
             an == s[n].start
             bn == s[n].end
  <2>5. /\ a \in Nat /\ b \in Nat /\ a1 \in Nat /\ b1 \in Nat /\ an \in Nat /\ bn \in Nat /\ a < b /\ a1 < b1 /\ an < bn
        /\ ((a = a1 /\ b = b1) \/ b1 <= a) /\ ((a = an /\ b = bn) \/ b <= an) /\ b1 <= an
    BY <2>1, <2>2, <2>3, <2>4
  <2> HIDE DEF a, b, a1, b1, an, bn
  <2>6. a1 <= a /\ b <= bn /\ ~ (a = a1 /\ b = bn)
    BY <2>5
  <2> QED
    BY <1>3, <2>1, <2>2, <2>6 DEF SourceOK, a, b, a1, bn
<1>6. CoveredBy(plan)
  <2> SUFFICES ASSUME NEW o \in Offsets, ms <= o, o < me PROVE \E x \in Sources(plan) : x.start <= o /\ o < x.end
    BY DEF CoveredBy
  <2>1. o \in Nat /\ n >= 1
    BY <1>2 DEF Offsets
  <2>2. s[1].start <= o /\ o < s[n].end
    BY <1>3
  <2> HIDE DEF ms, me, s, n
  <2>3. \E i \in 1 .. n : s[i].start <= o /\ o < s[i].end
    BY <1>1, <1>2, <2>1, <2>2, TouchingCovers DEF s, n
  <2> QED
    BY <1>4, <2>3
<1> QED
  BY <1>2, <1>3, <1>4, <1>5, <1>6 DEF PlanSound

\* The ranges a cycle lists.
LEMMA ColdListed ==
    ASSUME Exact(index), NEW tp \in Partitions,
           Disjoint(index.parts[tp].cold),
           \A a \in DOMAIN index.parts[tp].cold : index.parts[tp].cold[a].key = ObjectKey(tp, a, index.parts[tp].cold[a].end)
    PROVE  /\ get_cold_segments(tp) \in Seq(Segments) /\ Listed(get_cold_segments(tp), tp)
           /\ \A j \in 1 .. Len(get_cold_segments(tp)) :
                 /\ get_cold_segments(tp)[j].start \in DOMAIN index.parts[tp].cold
                 /\ index.parts[tp].cold[get_cold_segments(tp)[j].start].end = get_cold_segments(tp)[j].end
<1> DEFINE cold == index.parts[tp].cold
           s == [i \in 1 .. MaxOffset |-> i - 1]
           starts == Keep(s, DOMAIN cold)
           segs == [i \in 1 .. Len(starts) |->
                      [start |-> starts[i], end |-> cold[starts[i]].end,
                       key |-> cold[starts[i]].key, size |-> cold[starts[i]].size]]
<1>1. get_cold_segments(tp) \in Seq(Segments)
  BY ColdSegmentsTyped
<1>2. s \in Seq(Nat) /\ Len(s) = MaxOffset /\ MaxOffset \in Nat /\ \A i \in 1 .. MaxOffset : s[i] = i - 1
  BY StoreConstants
<1>3. Disjoint(cold) /\ \A a \in DOMAIN cold : cold[a].key = ObjectKey(tp, a, cold[a].end)
  OBVIOUS
<1>4. get_cold_segments(tp) = segs
  BY DEF get_cold_segments
<1> HIDE DEF s, cold
<1>5. starts \in Seq(Nat) /\ Kept(starts, s, Len(s), DOMAIN cold)
  BY <1>2, KeepFields
<1> HIDE DEF starts
<1>6. /\ Len(starts) \in Nat /\ Len(segs) = Len(starts)
      /\ \A j \in 1 .. Len(starts) : /\ segs[j].start = starts[j] /\ segs[j].end = cold[starts[j]].end
                                     /\ segs[j].key = cold[starts[j]].key /\ starts[j] \in DOMAIN cold
  BY <1>5 DEF Kept
<1>7. \A j, k \in 1 .. Len(starts) : j < k => starts[j] < starts[k]
  <2> SUFFICES ASSUME NEW j \in 1 .. Len(starts), NEW k \in 1 .. Len(starts), j < k PROVE starts[j] < starts[k]
    OBVIOUS
  <2>1. PICK x, y \in 1 .. Len(s) : x < y /\ starts[j] = s[x] /\ starts[k] = s[y]
    BY <1>5 DEF Kept
  <2>2. s[x] = x - 1 /\ s[y] = y - 1
    BY <1>2
  <2> QED
    BY <1>2, <2>1, <2>2
<1> HIDE DEF segs
<1>8. Listed(segs, tp)
  <2>1. ASSUME NEW j \in 1 .. Len(segs), NEW k \in 1 .. Len(segs), j < k PROVE segs[j].end <= segs[k].start
    BY <1>3, <1>6, <1>7, <2>1 DEF Disjoint
  <2>2. ASSUME NEW j \in 1 .. Len(segs) PROVE segs[j].start < segs[j].end /\ segs[j].key = ObjectKey(tp, segs[j].start, segs[j].end)
    BY <1>3, <1>6 DEF Disjoint
  <2> QED
    BY <2>1, <2>2 DEF Listed, Ordered
<1> QED
  BY <1>1, <1>4, <1>6, <1>8 DEF cold

\* The runs the planner finds in a partition.
RunsOf(tp) == plan_partition_compaction(get_cold_segments(tp), Compaction)

\* Every plan is a run.
LEMMA PlanIsRun ==
    ASSUME StoreTyped, NEW plan \in plan_compaction
    PROVE  /\ plan \in Plans /\ plan.tp \in Partitions /\ RunsOf(plan.tp) \in Seq(Merges)
           /\ \E i \in 1 .. Len(RunsOf(plan.tp)) : plan.sources = RunsOf(plan.tp)[i]
<1>1. Exact(index)
  BY DEF StoreTyped
<1>2. plan \in Plans
  BY <1>1, PlansTyped
<1>3. PICK tp \in Partitions : plan \in {[tp |-> tp, sources |-> s] : s \in ToSet(RunsOf(tp))}
  BY Zenon DEF plan_compaction, RunsOf
<1>4. PICK s \in ToSet(RunsOf(tp)) : plan = [tp |-> tp, sources |-> s]
  BY <1>3, Zenon
<1>5. RunsOf(tp) \in Seq(Merges)
  BY <1>1, ColdSegmentsTyped, PlanFields DEF RunsOf
<1>6. \E i \in 1 .. Len(RunsOf(tp)) : s = RunsOf(tp)[i]
  BY <1>5, SeqElements
<1>7. plan.tp = tp /\ plan.sources = s
  BY <1>4
<1> QED
  BY <1>2, <1>5, <1>6, <1>7

\* The plans of a cycle are sound and apart, and their sources are ranges of the index.
LEMMA CyclePlans ==
    ASSUME StoreTyped, PlannerConfig(Compaction),
           \A tp \in Partitions : /\ Disjoint(index.parts[tp].cold)
                                  /\ \A a \in DOMAIN index.parts[tp].cold :
                                        index.parts[tp].cold[a].key = ObjectKey(tp, a, index.parts[tp].cold[a].end)
    PROVE  /\ \A plan \in plan_compaction : PlanSound(plan) /\ SourcesIn(plan, ColdOf(index))
           /\ PlansApart(plan_compaction)
<1>1. ColdSegments(Segments)
  <2>1. Offsets \subseteq Nat /\ Ends \subseteq Nat
    BY StoreConstants DEF Offsets, Ends
  <2> QED
    BY <2>1 DEF ColdSegments, Segments
<1>2. ASSUME NEW tp \in Partitions
      PROVE  /\ get_cold_segments(tp) \in Seq(Segments) /\ Listed(get_cold_segments(tp), tp)
             /\ \A j \in 1 .. Len(get_cold_segments(tp)) :
                   /\ get_cold_segments(tp)[j].start \in DOMAIN index.parts[tp].cold
                   /\ index.parts[tp].cold[get_cold_segments(tp)[j].start].end = get_cold_segments(tp)[j].end
             /\ GoodPlans(RunsOf(tp), Compaction) /\ PlannedUpTo(RunsOf(tp), get_cold_segments(tp), Len(get_cold_segments(tp)))
  <2>1. Exact(index)
    BY DEF StoreTyped
  <2>2. /\ get_cold_segments(tp) \in Seq(Segments) /\ Listed(get_cold_segments(tp), tp)
        /\ \A j \in 1 .. Len(get_cold_segments(tp)) :
              /\ get_cold_segments(tp)[j].start \in DOMAIN index.parts[tp].cold
              /\ index.parts[tp].cold[get_cold_segments(tp)[j].start].end = get_cold_segments(tp)[j].end
    BY <2>1, ColdListed
  <2>3. Ordered(get_cold_segments(tp))
    BY <2>2 DEF Listed
  <2>4. GoodPlans(RunsOf(tp), Compaction) /\ PlannedUpTo(RunsOf(tp), get_cold_segments(tp), Len(get_cold_segments(tp)))
    BY <1>1, <2>2, <2>3, PlannerCorrect DEF RunsOf
  <2> QED
    BY <2>2, <2>4
<1>3. ASSUME NEW plan \in plan_compaction PROVE PlanSound(plan) /\ SourcesIn(plan, ColdOf(index))
  <2> DEFINE tp == plan.tp
             s == get_cold_segments(tp)
             p == plan.sources
             top == Len(s)
             n == Len(p)
  <2>1. plan \in Plans /\ tp \in Partitions
    BY PlanIsRun
  <2>2. PICK i \in 1 .. Len(RunsOf(tp)) : p = RunsOf(tp)[i]
    BY PlanIsRun
  <2>3. GoodPlans(RunsOf(tp), Compaction) /\ PlannedUpTo(RunsOf(tp), s, Len(s)) /\ s \in Seq(Segments) /\ Listed(s, tp)
    BY <1>2, <2>1
  <2>4. \A j \in 1 .. Len(s) : s[j].start \in DOMAIN index.parts[tp].cold /\ index.parts[tp].cold[s[j].start].end = s[j].end
    BY <1>2, <2>1
  <2>5. p \in Seq(Segments)
    BY <2>1 DEF Plans, Merges
  <2> HIDE DEF tp, s
  <2>6. n \in 2 .. Compaction.max_sources /\ GoodRun(p, Compaction)
    BY <2>2, <2>3 DEF GoodPlans
  <2>7. PICK a \in Nat : a + n <= top /\ RunAt(p, s, a)
    BY <2>2, <2>3 DEF PlannedUpTo
  <2>8. n \in Nat /\ top \in Nat /\ n >= 2
    <3>1. n \in Nat /\ top \in Nat
      BY <2>3, <2>5
    <3> QED
      BY <2>6, <3>1 DEF PlannerConfig
  <2>9. \A j \in 1 .. n : a + j \in 1 .. top /\ p[j] = s[a + j]
    <3>1. \A j \in 1 .. n : p[j] = s[a + j]
      BY <2>7 DEF RunAt
    <3>2. a + n <= top
      BY <2>7
    <3> HIDE DEF n, top, p
    <3> QED
      BY <2>8, <3>1, <3>2
  <2>10. Listed(p, tp)
    <3>1. ASSUME NEW j \in 1 .. Len(p), NEW k \in 1 .. Len(p), j < k PROVE p[j].end <= p[k].start
      <4>1. a + j \in 1 .. Len(s) /\ a + k \in 1 .. Len(s) /\ p[j] = s[a + j] /\ p[k] = s[a + k] /\ a + j < a + k
        BY <2>9, <3>1
      <4> QED
        BY <2>3, <4>1 DEF Listed, Ordered
    <3>2. ASSUME NEW j \in 1 .. Len(p) PROVE p[j].start < p[j].end /\ p[j].key = ObjectKey(tp, p[j].start, p[j].end)
      BY <2>3, <2>9 DEF Listed
    <3> QED
      BY <3>1, <3>2 DEF Listed, Ordered
  <2>11. Touching(p)
    BY <2>6 DEF GoodRun, Touching
  <2>12. PlanSound(plan)
    BY <2>1, <2>8, <2>10, <2>11, RunSound DEF tp
  <2>13. SourcesIn(plan, ColdOf(index))
    <3>1. \A x \in Sources(plan) : \E j \in 1 .. n : x = p[j]
      BY <2>5, SeqElements DEF Sources
    <3>2. ColdOf(index)[tp] = index.parts[tp].cold
      BY <2>1 DEF ColdOf
    <3>3. \A x \in Sources(plan) : x.start \in DOMAIN ColdOf(index)[tp] /\ ColdOf(index)[tp][x.start].end = x.end
      <4> TAKE x \in Sources(plan)
      <4>1. PICK j \in 1 .. n : x = p[j]
        BY <3>1
      <4>2. a + j \in 1 .. Len(s) /\ x = s[a + j]
        BY <2>9, <4>1
      <4>3. x.start \in DOMAIN index.parts[tp].cold /\ index.parts[tp].cold[x.start].end = x.end
        BY <2>4, <4>2
      <4> QED
        BY <3>2, <4>3
    <3> QED
      BY <3>3 DEF SourcesIn, tp
  <2> QED
    BY <2>12, <2>13
<1>4. PlansApart(plan_compaction)
  <2> SUFFICES ASSUME NEW p \in plan_compaction, NEW q \in plan_compaction, p # q, p.tp = q.tp
               PROVE  MergedEnd(p) <= MergedStart(q) \/ MergedEnd(q) <= MergedStart(p)
    BY DEF PlansApart
  <2>1. PICK i \in 1 .. Len(RunsOf(p.tp)) : p.sources = RunsOf(p.tp)[i]
    BY PlanIsRun
  <2>2. PICK j \in 1 .. Len(RunsOf(p.tp)) : q.sources = RunsOf(p.tp)[j]
    BY PlanIsRun
  <2>3. p \in Plans /\ q \in Plans /\ p.tp \in Partitions
    BY PlanIsRun
  <2>4. p.sources # q.sources
    BY <2>3 DEF Plans
  <2>5. i < j \/ j < i
    BY <2>1, <2>2, <2>4
  <2>6. GoodPlans(RunsOf(p.tp), Compaction)
    BY <1>2, <2>3
  <2>7. (i < j => Last(p.sources).end <= Head(q.sources).start) /\ (j < i => Last(q.sources).end <= Head(p.sources).start)
    BY <2>1, <2>2, <2>6 DEF GoodPlans
  <2> QED
    BY <2>5, <2>7 DEF MergedStart, MergedEnd
<1> QED
  BY <1>3, <1>4

\* A step of the compaction task that leaves manifest, index and readers alone.
LEMMA MergeCompact ==
    ASSUME MergeInv, UNCHANGED <<index, wal, manifest, hw, producer, tier, reader, leads, acked, faults>>,
           ColdInv(manifest.live, ColdOf(index), objects', manifest.orphans, tier, wal.disk, compact')
    PROVE  MergeInv'
BY DEF MergeInv, Calm

\* CompactCycle.
LEMMA MergeCycle ==
    ASSUME Merging, StoreTyped, MergeInv, CompactCycle
    PROVE  MergeInv'
<1>1. UNCHANGED <<index, wal, manifest, objects, hw, producer, tier, reader, leads, acked, faults>>
  BY DEF CompactCycle, storage, history
<1>2. /\ PlannerConfig(Compaction) /\ compact.pc = "idle" /\ compact'.pc = "execute"
      /\ compact'.plans = plan_compaction
  BY DEF CompactCycle, Merging
<1> DEFINE live == manifest.live
           cold == ColdOf(index)
<1>3. /\ live \in [Partitions -> Colds] /\ cold \in [Partitions -> Colds]
      /\ \A tp \in Partitions : cold[tp] = index.parts[tp].cold
  BY MapsTyped
<1>4. ColdInv(live, cold, objects, manifest.orphans, tier, wal.disk, compact)
  BY DEF MergeInv
<1>5. Filed(cold, objects) /\ Mirrors(live, cold, tier, wal.disk, compact)
  BY <1>4 DEF ColdInv
<1> HIDE DEF live, cold
<1>6. \A tp \in Partitions : Disjoint(cold[tp]) /\ FiledIn(tp, cold[tp], objects)
  BY <1>3, <1>5, FiledDisjoint
<1>7. \A tp \in Partitions : /\ Disjoint(index.parts[tp].cold)
                             /\ \A a \in DOMAIN index.parts[tp].cold :
                                   index.parts[tp].cold[a].key = ObjectKey(tp, a, index.parts[tp].cold[a].end)
  BY <1>3, <1>6 DEF FiledIn
<1>8. /\ \A plan \in plan_compaction : PlanSound(plan) /\ SourcesIn(plan, cold)
      /\ PlansApart(plan_compaction)
  BY <1>2, <1>7, CyclePlans DEF cold
<1>9. \A plan \in plan_compaction : SourcesIn(plan, live)
  <2> TAKE plan \in plan_compaction
  <2>1. plan.tp \in Partitions
    BY PlanIsRun
  <2>2. \A a \in DOMAIN cold[plan.tp] : a \in DOMAIN live[plan.tp] /\ live[plan.tp][a] = cold[plan.tp][a]
    BY <1>2, <1>5, <2>1 DEF Mirrors, Swapping
  <2> QED
    BY <1>8, <2>2 DEF SourcesIn
<1>10. Merger(compact', live, cold, objects)
  BY <1>2, <1>8, <1>9 DEF Merger
<1>11. Mirrors(live, cold, tier, wal.disk, compact')
  BY <1>2, <1>5 DEF Mirrors, Swapping
<1>12. ColdInv(live, cold, objects, manifest.orphans, tier, wal.disk, compact')
  BY <1>4, <1>10, <1>11 DEF ColdInv
<1> QED
  BY <1>1, <1>12, MergeCompact DEF live, cold

\* CompactUpload.
LEMMA MergeCompactUpload ==
    ASSUME StoreTyped, MergeInv, NEW plan \in compact.plans, CompactUpload(plan)
    PROVE  MergeInv'
<1>1. UNCHANGED <<index, wal, manifest, hw, producer, tier, reader, leads, acked, faults>> /\ compact.pc = "execute"
  BY DEF CompactUpload, history
<1>2. plan \in Plans /\ objects \in Maps(Keys, Seq(Record))
  BY MapsTyped DEF StoreTyped, Archives
<1>3. ColdInv(manifest.live, ColdOf(index), objects, manifest.orphans, tier, wal.disk, compact)
  BY DEF MergeInv
<1>4. CASE Mergeable(plan)
  <2>1. /\ objects' = Put(objects, MergedKey(plan), MergedRecords(plan))
        /\ compact'.pc = "record" /\ compact'.plans = compact.plans /\ compact'.plan = plan
    BY <1>4 DEF CompactUpload
  <2>2. MergedKey(plan) \in Keys /\ MergedRecords(plan) \in Seq(Record)
    BY <1>2, <1>4, MergeFields
  <2>3. Stored(Put(objects, MergedKey(plan), MergedRecords(plan)), objects, MergedKey(plan), MergedRecords(plan))
    BY <1>2, <2>2, PutFields
  <2>4. DOMAIN objects \subseteq DOMAIN objects' /\ MergedKey(plan) \in DOMAIN objects'
    BY <2>1, <2>3 DEF Stored
  <2>5. ColdInv(manifest.live, ColdOf(index), objects', manifest.orphans, tier, wal.disk, compact)
    BY <1>3, <2>4, ColdGrown
  <2>6. ColdInv(manifest.live, ColdOf(index), objects', manifest.orphans, tier, wal.disk, compact')
    BY <1>1, <2>1, <2>4, <2>5, ColdMerging
  <2> QED
    BY <1>1, <2>6, MergeCompact
<1>5. CASE ~ Mergeable(plan)
  <2>1. objects' = objects /\ compact' = PlanDone(plan)
    BY <1>5 DEF CompactUpload
  <2>2. compact'.pc \in {"idle", "execute"} /\ compact'.plans \subseteq compact.plans
    BY <2>1 DEF PlanDone
  <2>3. ColdInv(manifest.live, ColdOf(index), objects', manifest.orphans, tier, wal.disk, compact')
    BY <1>1, <1>3, <2>1, <2>2, ColdPlan
  <2> QED
    BY <1>1, <2>3, MergeCompact
<1> QED
  BY <1>4, <1>5

\* Storing the merged range in what is left without the ranges that start in it.
LEMMA MergedStored ==
    ASSUME NEW f, NEW base, NEW g, NEW a, NEW e, NEW k, NEW n, a \in Nat, e \in Nat, a < e,
           Remains(base, f, KeysIn(f, a, e)), Stored(g, base, a, ObjectRange(e, k, n))
    PROVE  MergedMap(g, f, a, e, ObjectRange(e, k, n))
<1>1. ObjectRange(e, k, n).end = e
  BY DEF ObjectRange
<1>2. DOMAIN base = {x \in DOMAIN f : ~ (a <= x /\ x < e)}
  BY DEF Remains, KeysIn
<1>3. \A x \in DOMAIN f : ~ (a <= x /\ x < e) => x \in DOMAIN base /\ base[x] = f[x]
  BY <1>2 DEF Remains
<1>4. a <= a /\ a < e
  OBVIOUS
<1> QED
  BY <1>1, <1>2, <1>3, <1>4 DEF MergedMap, Stored

\* What record_compaction changes.
LEMMA CompactedMap ==
    ASSUME StoreTyped, MergeInv, compact.pc = "record", manifest' = Compacted
    PROVE  /\ manifest'.torn = manifest.torn /\ manifest'.orphans = manifest.orphans \cup SourceKeys(compact.plan)
           /\ MergedAt(manifest'.live, manifest.live, compact.plan, compact.size)
<1> DEFINE plan == compact.plan
           tp == plan.tp
           a == MergedStart(plan)
           b == MergedEnd(plan)
           k == MergedKey(plan)
           n == compact.size
           S == SourceKeys(plan)
           base == Without(manifest.live[tp], KeysIn(manifest.live[tp], a, b))
           c == Put(base, a, ObjectRange(b, k, n))
<1>1. plan \in Plans /\ n \in Nat /\ plan \in compact.plans
  BY CompactFields DEF MergeInv, ColdInv, Merger
<1>2. manifest \in Manifests /\ manifest.live \in [Partitions -> Colds] /\ objects \in Maps(Keys, Seq(Record))
      /\ manifest.torn = FALSE
  BY DEF StoreTyped, Manifests, Archives, MergeInv, Calm
<1>3. PlanSound(plan)
  BY <1>1 DEF MergeInv, ColdInv, Merger
<1> HIDE DEF plan, n
<1>4. tp \in Partitions /\ a \in Offsets /\ b \in Ends /\ k \in Keys
  BY <1>1, <1>2, MergeFields
<1>5. a \in Nat /\ b \in Nat /\ a < b
  <2>1. PICK s \in Sources(plan) : s.start = a /\ SourceOK(s, plan)
    BY <1>3 DEF PlanSound
  <2>2. a \in Nat /\ b \in Nat
    BY <1>4, StoreConstants DEF Offsets, Ends
  <2> QED
    BY <2>1, <2>2 DEF SourceOK
<1>6. Compacted = [manifest EXCEPT !.live = [manifest.live EXCEPT ![tp] = c], !.orphans = manifest.orphans \cup S]
  BY <1>2 DEF Compacted, record_compaction, FoldCompact, plan, n
<1> HIDE DEF tp, a, b, k, S
<1>7. manifest.live[tp] \in Maps(Offsets, Ranges) /\ 0 \in Ends
  BY <1>2, <1>4, StoreConstants DEF Ends, Colds
<1>8. base \in Colds /\ Remains(base, manifest.live[tp], KeysIn(manifest.live[tp], a, b))
  BY <1>7, WithoutFields DEF Colds
<1> HIDE DEF base
<1>9. Stored(c, base, a, ObjectRange(b, k, n))
  BY <1>1, <1>4, <1>7, <1>8, ColdStored
<1> HIDE DEF c
<1>10. MergedMap(c, manifest.live[tp], a, b, ObjectRange(b, k, n))
  BY <1>5, <1>8, <1>9, MergedStored
<1>11. /\ manifest'.torn = manifest.torn /\ manifest'.orphans = manifest.orphans \cup S
       /\ manifest'.live = [manifest.live EXCEPT ![tp] = c]
  BY <1>2, <1>6 DEF Manifests
<1>12. manifest'.live[tp] = c /\ \A q \in Partitions \ {tp} : manifest'.live[q] = manifest.live[q]
  BY <1>2, <1>4, <1>11
<1>13. MergedMap(manifest'.live[tp], manifest.live[tp], a, b, ObjectRange(b, k, n))
  BY <1>10, <1>12
<1> QED
  BY <1>11, <1>12, <1>13 DEF MergedAt, plan, tp, a, b, k, n, S

\* The group in work, of the task that is between manifest and index.
LEMMA FlippingGroup ==
    ASSUME StoreTyped, MergeInv
    PROVE  tier.pc = "flip" => tier.tp \in Partitions /\ GroupFacts(wal.disk[tier.queue[1]], tier.tp)
BY MergingGroup DEF WorkGroup, Working

\* CompactRecord.
LEMMA MergeCompactRecord ==
    ASSUME StoreTyped, MergeInv, CompactRecord
    PROVE  MergeInv'
<1>1. UNCHANGED <<index, wal, objects, hw, producer, tier, reader, leads, acked, faults>>
  BY DEF CompactRecord, history
<1>2. compact.pc = "record" /\ manifest' = Compacted /\ compact' = [compact EXCEPT !.pc = "replace"]
  BY DEF CompactRecord
<1>3. /\ compact'.pc = "replace" /\ compact'.plans = compact.plans /\ compact'.plan = compact.plan /\ compact'.size = compact.size
  BY <1>2 DEF StoreTyped, CompactOK
<1>4. /\ manifest'.torn = manifest.torn /\ manifest'.orphans = manifest.orphans \cup SourceKeys(compact.plan)
      /\ MergedAt(manifest'.live, manifest.live, compact.plan, compact.size)
  BY <1>2, CompactedMap
<1>5. /\ manifest.live \in [Partitions -> Colds] /\ ColdOf(index) \in [Partitions -> Colds]
      /\ manifest.orphans \in SUBSET Keys /\ compact.plans \subseteq Plans /\ WalOK(wal)
  BY MapsTyped
<1>6. /\ ColdInv(manifest.live, ColdOf(index), objects, manifest.orphans, tier, wal.disk, compact)
      /\ LogOrder(wal, tier, manifest.live) /\ ClientsOrder(producer, hw, wal.disk, manifest.live)
  BY DEF MergeInv
<1>7. tier.pc = "flip" => tier.tp \in Partitions /\ GroupFacts(wal.disk[tier.queue[1]], tier.tp)
  BY FlippingGroup
<1> DEFINE new == manifest'.live
           c2 == compact'
<1>8. MergedAt(new, manifest.live, compact.plan, compact.size) /\ c2.pc = "replace" /\ c2.plans = compact.plans
      /\ c2.plan = compact.plan /\ c2.size = compact.size
  BY <1>3, <1>4
<1> HIDE DEF new, c2
<1>9. /\ ColdInv(new, ColdOf(index), objects, manifest.orphans \cup SourceKeys(compact.plan), tier, wal.disk, c2)
      /\ Merge(new, manifest.live, objects, compact.plan, compact.size)
  BY <1>2, <1>5, <1>6, <1>7, <1>8, ColdRecord
<1>10. LogOrder(wal, tier, new)
  BY <1>5, <1>6, <1>9, LogOrderMerged
<1>11. BelowStays(wal.disk, manifest.live, wal.disk, new)
  BY <1>9, BelowMerged
<1>12. (\A p \in Producers : ProducerOK(producer[p])) /\ hw \in [Partitions -> Ends]
  BY DEF StoreTyped
<1>13. ClientsOrder(producer, hw, wal.disk, new)
  BY <1>6, <1>11, <1>12, OrderStays
<1> QED
  BY <1>1, <1>4, <1>9, <1>10, <1>13 DEF MergeInv, Calm, new, c2

\* What replace_cold changes.
LEMMA ReplacedMap ==
    ASSUME StoreTyped, MergeInv, CompactReplace
    PROVE  MergedAt(ColdOf(index'), ColdOf(index), compact.plan, compact.size)
<1> DEFINE plan == compact.plan
           tp == plan.tp
           a == MergedStart(plan)
           b == MergedEnd(plan)
           k == MergedKey(plan)
           n == compact.size
           base == Without(index.parts[tp].cold, KeysIn(index.parts[tp].cold, a, b))
<1>1. plan \in Plans /\ n \in Nat /\ plan \in compact.plans
  BY CompactFields DEF MergeInv, ColdInv, Merger, CompactReplace
<1>2. Exact(index) /\ objects \in Maps(Keys, Seq(Record))
  BY DEF StoreTyped, Archives
<1>3. PlanSound(plan)
  BY <1>1 DEF MergeInv, ColdInv, Merger
<1>4. index' = replace_cold(index, tp, a, b, k, n)
  BY DEF CompactReplace
<1> HIDE DEF plan, n
<1>5. tp \in Partitions /\ a \in Offsets /\ b \in Ends /\ k \in Keys
  BY <1>1, <1>2, MergeFields
<1>6. a \in Nat /\ b \in Nat /\ a < b
  <2>1. PICK s \in Sources(plan) : s.start = a /\ SourceOK(s, plan)
    BY <1>3 DEF PlanSound
  <2>2. a \in Nat /\ b \in Nat
    BY <1>5, StoreConstants DEF Offsets, Ends
  <2> QED
    BY <2>1, <2>2 DEF SourceOK
<1>7. index.parts[tp].cold \in Maps(Offsets, Ranges)
  BY <1>2, <1>5 DEF Exact, Indexes, Entries, Colds
<1>8. Remains(base, index.parts[tp].cold, KeysIn(index.parts[tp].cold, a, b))
  BY <1>7, WithoutFields
<1> HIDE DEF tp, a, b, k
<1>9. HotKept(index', index, tp) /\ ColdSet(index', index, tp, base, a, b, k, n)
  BY <1>1, <1>2, <1>4, <1>5, ReplaceColdExact
<1> HIDE DEF base
<1>10. Stored(index'.parts[tp].cold, base, a, ObjectRange(b, k, n))
  BY <1>9 DEF ColdSet
<1>11. MergedMap(index'.parts[tp].cold, index.parts[tp].cold, a, b, ObjectRange(b, k, n))
  BY <1>6, <1>8, <1>10, MergedStored
<1>12. \A q \in Partitions \ {tp} : index'.parts[q].cold = index.parts[q].cold
  BY <1>9 DEF HotKept, Elsewhere
<1>13. \A q \in Partitions : ColdOf(index')[q] = index'.parts[q].cold /\ ColdOf(index)[q] = index.parts[q].cold
  BY DEF ColdOf
<1>14. /\ \A q \in Partitions \ {tp} : ColdOf(index')[q] = ColdOf(index)[q]
       /\ MergedMap(ColdOf(index')[tp], ColdOf(index)[tp], a, b, ObjectRange(b, k, n))
  BY <1>5, <1>11, <1>12, <1>13
<1> QED
  BY <1>14 DEF MergedAt, plan, tp, a, b, k, n

\* Every read in progress has seen one swap more.
LEMMA ReadsSwapped ==
    ASSUME NEW cold, NEW new, ReadsSafe(reader, cold),
           reader' = [c \in Readers |-> IF reader[c].pc = "idle" THEN reader[c] ELSE [reader[c] EXCEPT !.swaps = @ + 1]]
    PROVE  ReadsSafe(reader', new)
<1>1. DOMAIN reader' = Readers
  OBVIOUS
<1>2. ASSUME NEW c \in Readers PROVE reader'[c] = IdleReader \/ (reader'[c] \in Reads /\ ReadSafe(reader'[c], new))
  <2>1. CASE reader[c] = IdleReader
    BY <2>1 DEF IdleReader
  <2>2. CASE reader[c] # IdleReader
    <3> DEFINE r == reader[c]
               q == reader'[c]
    <3>1. r \in Reads /\ ReadSafe(r, cold)
      BY <2>2 DEF ReadsSafe
    <3>2. q = [r EXCEPT !.swaps = @ + 1]
      BY <3>1 DEF Reads
    <3> HIDE DEF r, q
    <3>3. q \in Reads /\ q.pc = r.pc /\ q.retry = r.retry /\ q.swaps = r.swaps + 1 /\ r.swaps \in Nat
      BY <3>1, <3>2 DEF Reads
    <3>4. ReadSafe(q, new)
      BY <3>1, <3>3 DEF ReadSafe
    <3> QED
      BY <3>3, <3>4 DEF q
  <2> QED
    BY <2>1, <2>2
<1> QED
  BY <1>1, <1>2 DEF ReadsSafe

\* CompactReplace.
LEMMA MergeCompactReplace ==
    ASSUME StoreTyped, MergeInv, CompactReplace
    PROVE  MergeInv'
<1>1. UNCHANGED <<wal, manifest, objects, hw, producer, tier, leads, acked, faults>>
  BY DEF CompactReplace, storage, history
<1>2. compact.pc = "replace" /\ compact' = [compact EXCEPT !.pc = "delete"]
  BY DEF CompactReplace
<1>3. /\ compact'.pc = "delete" /\ compact'.plans = compact.plans /\ compact'.plan = compact.plan /\ compact'.size = compact.size
  BY <1>2 DEF StoreTyped, CompactOK
<1>4. MergedAt(ColdOf(index'), ColdOf(index), compact.plan, compact.size)
  BY ReplacedMap
<1>5. /\ manifest.live \in [Partitions -> Colds] /\ ColdOf(index) \in [Partitions -> Colds]
      /\ manifest.orphans \in SUBSET Keys /\ compact.plans \subseteq Plans
  BY MapsTyped
<1>6. /\ ColdInv(manifest.live, ColdOf(index), objects, manifest.orphans, tier, wal.disk, compact)
      /\ ReadsSafe(reader, ColdOf(index))
  BY DEF MergeInv
<1>7. tier.pc = "flip" => tier.tp \in Partitions /\ GroupFacts(wal.disk[tier.queue[1]], tier.tp)
  BY FlippingGroup
<1> DEFINE new == ColdOf(index')
           c2 == compact'
<1>8. MergedAt(new, ColdOf(index), compact.plan, compact.size) /\ c2.pc = "delete" /\ c2.plans = compact.plans
      /\ c2.plan = compact.plan /\ c2.size = compact.size
  BY <1>3, <1>4
<1>9. ReadsSafe(reader', new)
  BY <1>6, ReadsSwapped DEF CompactReplace
<1> HIDE DEF new, c2
<1>10. ColdInv(manifest.live, new, objects, manifest.orphans, tier, wal.disk, c2)
  BY <1>2, <1>5, <1>6, <1>7, <1>8, ColdReplace
<1> QED
  BY <1>1, <1>9, <1>10 DEF MergeInv, Calm, new, c2

\* CompactDelete.
LEMMA MergeCompactDelete ==
    ASSUME StoreTyped, MergeInv, CompactDelete
    PROVE  MergeInv'
<1>1. UNCHANGED <<index, wal, manifest, hw, producer, tier, reader, leads, acked, faults>>
  BY DEF CompactDelete, history
<1>2. compact.pc = "delete" /\ objects' = Without(objects, SourceKeys(compact.plan)) /\ compact' = PlanDone(compact.plan)
  BY DEF CompactDelete
<1>3. compact'.pc \in {"idle", "execute"} /\ compact'.plans = compact.plans \ {compact.plan}
  BY <1>2 DEF PlanDone
<1>4. Remains(objects', objects, SourceKeys(compact.plan))
  BY <1>2, ObjectsDeleted
<1>5. /\ manifest.live \in [Partitions -> Colds] /\ ColdOf(index) \in [Partitions -> Colds]
      /\ manifest.orphans \in SUBSET Keys /\ compact.plan \in Plans
  BY <1>2, MapsTyped, CompactFields
<1>6. ColdInv(manifest.live, ColdOf(index), objects, manifest.orphans, tier, wal.disk, compact)
  BY DEF MergeInv
<1>7. compact.plan \in compact.plans
  BY <1>2, <1>6 DEF ColdInv, Merger
<1>8. tier.pc \in {"postcheck", "register"} =>
          /\ tier.tp \in Partitions /\ GroupFacts(wal.disk[tier.queue[1]], tier.tp)
          /\ Clear(WorkStart(tier, wal.disk), WorkEnd(tier, wal.disk), manifest.live[tier.tp])
  BY MergingGroup DEF WorkGroup, Working
<1> DEFINE d == compact'
           objs2 == objects'
<1>9. d.pc \in {"idle", "execute"} /\ d.plans = compact.plans \ {compact.plan}
      /\ Remains(objs2, objects, SourceKeys(compact.plan))
  BY <1>3, <1>4
<1> HIDE DEF d, objs2
<1>10. ColdInv(manifest.live, ColdOf(index), objs2, manifest.orphans, tier, wal.disk, d)
  BY <1>2, <1>5, <1>6, <1>7, <1>8, <1>9, ColdDelete
<1> QED
  BY <1>1, <1>10, MergeCompact DEF d, objs2

\* A read that is resolved to an object finds it through the index.
LEMMA ReadIndexed ==
    ASSUME Exact(index), NEW tp \in Partitions, NEW off \in Offsets, read_plan(index, tp, off).plan = "Cold"
    PROVE  read_plan(index, tp, off).key \in Keys /\ InIndex(read_plan(index, tp, off).key, ColdOf(index))
<1> DEFINE e == index.parts[tp]
           n == e.next_offset
           cold == e.cold
           floor == {s \in DOMAIN cold : s <= off}
           top == Max(floor)
           plan == read_plan(index, tp, off)
           run == {o \in DOMAIN e.hot : o >= off /\ (off .. o) \subseteq DOMAIN e.hot}
<1>1. e \in Entries
  BY DEF Exact, Indexes
<1>2. n \in Nat /\ off \in Nat /\ cold \in Colds
  BY <1>1, StoreConstants DEF Entries, Ends, Offsets
<1>3. plan = CASE off >= n -> [plan |-> "Empty"]
               [] off < n /\ off \in DOMAIN e.hot -> [plan |-> "Hot", records |-> {e.hot[o] : o \in run}]
               [] off < n /\ off \notin DOMAIN e.hot /\ floor # {} /\ off < cold[top].end ->
                      [plan |-> "Cold", key |-> cold[top].key]
               [] OTHER -> [plan |-> "Empty"]
  BY DEF read_plan
<1> DEFINE far == off >= n
           near == off < n
           hot == off \in DOMAIN e.hot
           found == floor # {} /\ off < cold[top].end
           recs == {e.hot[o] : o \in run}
           key == cold[top].key
<1>4. near <=> ~ far
  <2> HIDE DEF n
  <2> QED
    BY <1>2
<1>5. plan = CASE far -> [plan |-> "Empty"]
               [] near /\ hot -> [plan |-> "Hot", records |-> recs]
               [] near /\ ~ hot /\ found -> [plan |-> "Cold", key |-> key]
               [] OTHER -> [plan |-> "Empty"]
  BY <1>3
<1>6. plan.plan = "Cold"
  OBVIOUS
<1>7. found /\ plan.key = key
  <2> HIDE DEF plan, far, near, hot, found, recs, key
  <2>1. CASE far
    <3>1. plan = [plan |-> "Empty"]
      BY <1>4, <1>5, <2>1
    <3> QED
      BY <1>6, <3>1
  <2>2. CASE near /\ hot
    <3>1. plan = [plan |-> "Hot", records |-> recs]
      BY <1>4, <1>5, <2>2
    <3> QED
      BY <1>6, <3>1
  <2>3. CASE near /\ ~ hot /\ ~ found
    <3>1. plan = [plan |-> "Empty"]
      BY <1>4, <1>5, <2>3
    <3> QED
      BY <1>6, <3>1
  <2>4. CASE near /\ ~ hot /\ found
    <3>1. plan = [plan |-> "Cold", key |-> key]
      BY <1>4, <1>5, <2>4
    <3> QED
      BY <2>4, <3>1
  <2> QED
    BY <1>4, <2>1, <2>2, <2>3, <2>4
<1>8. floor \subseteq Nat /\ floor # {} /\ \A x \in floor : x <= off
  <2>1. \A s \in DOMAIN cold : s \in Nat
    BY <1>2, MapFields, StoreConstants DEF Colds, Offsets
  <2> QED
    BY <1>7, <2>1
<1>9. top \in floor
  <2> HIDE DEF floor
  <2> QED
    BY <1>2, <1>8, MaxOfBounded
<1>10. top \in DOMAIN cold
  BY <1>9
<1>11. key \in Keys
  <2>1. cold \in [DOMAIN cold -> Ranges]
    BY <1>2, MapFields DEF Colds
  <2> HIDE DEF top, cold
  <2>2. cold[top] \in Ranges
    BY <1>10, <2>1
  <2> QED
    BY <2>2 DEF Ranges
<1>12. ColdOf(index)[tp] = cold
  BY DEF ColdOf
<1>13. InIndex(key, ColdOf(index))
  <2> HIDE DEF top, cold
  <2> QED
    BY <1>10, <1>12 DEF InIndex
<1> QED
  BY <1>7, <1>11, <1>13

\* A step of one read.
LEMMA MergeRead ==
    ASSUME MergeInv, NEW c \in Readers, NEW x, reader' = [reader EXCEPT ![c] = x],
           x = IdleReader \/ (x \in Reads /\ ReadSafe(x, ColdOf(index))),
           UNCHANGED <<index, wal, manifest, objects, leads, hw, producer, tier, compact, acked, faults>>
    PROVE  MergeInv'
<1>1. ReadsSafe(reader, ColdOf(index))
  BY DEF MergeInv
<1>2. ReadsSafe(reader', ColdOf(index))
  BY <1>1 DEF ReadsSafe
<1> QED
  BY <1>2 DEF MergeInv, Calm

\* The read that Resolve starts or restarts.
LEMMA Resolved ==
    ASSUME StoreTyped, NEW tp \in Partitions, NEW off \in Offsets, NEW retry \in BOOLEAN, NEW swaps \in Nat,
           read_plan(index, tp, off).plan = "Cold", ~ retry => swaps >= 1, NEW x,
           x = [pc |-> "download", tp |-> tp, off |-> off, key |-> read_plan(index, tp, off).key, retry |-> retry, swaps |-> swaps]
    PROVE  x \in Reads /\ ReadSafe(x, ColdOf(index))
<1> DEFINE key == read_plan(index, tp, off).key
<1>1. key \in Keys /\ InIndex(key, ColdOf(index))
  BY ReadIndexed DEF StoreTyped
<1>2. x = [pc |-> "download", tp |-> tp, off |-> off, key |-> key, retry |-> retry, swaps |-> swaps]
  OBVIOUS
<1> HIDE DEF key
<1>3. x \in Reads
  BY <1>1, <1>2 DEF Reads
<1>4. x.pc = "download" /\ x.key = key /\ x.retry = retry /\ x.swaps = swaps
  BY <1>2
<1>5. ReadSafe(x, ColdOf(index))
  BY <1>1, <1>4 DEF ReadSafe
<1> QED
  BY <1>3, <1>5

\* ReadStart, ReadDownload and ReadRetry.
LEMMA MergeReading ==
    ASSUME StoreTyped, MergeInv, Reading
    PROVE  MergeInv'
<1>1. UNCHANGED <<index, wal, manifest, objects, leads, hw, producer, tier, compact, acked, faults>>
  BY DEF Reading, ReadStart, ReadDownload, ReadRetry, storage, history
<1>2. PICK c \in Readers : ReadStart(c) \/ ReadDownload(c) \/ ReadRetry(c)
  BY DEF Reading
<1>3. ReadsSafe(reader, ColdOf(index)) /\ acked \in SUBSET Record
  BY DEF MergeInv
<1>4. reader[c].pc # "idle" => reader[c] \in Reads /\ ReadSafe(reader[c], ColdOf(index))
  BY <1>3 DEF ReadsSafe, IdleReader
<1>5. CASE ReadStart(c)
  <2>1. PICK r \in acked : read_plan(index, r.tp, r.off).plan = "Cold" /\ Resolve(c, r.tp, r.off, TRUE)
    BY <1>5 DEF ReadStart
  <2>2. r.tp \in Partitions /\ r.off \in Offsets
    BY <1>3 DEF Record
  <2> DEFINE x == [pc |-> "download", tp |-> r.tp, off |-> r.off, key |-> read_plan(index, r.tp, r.off).key, retry |-> TRUE, swaps |-> 0]
  <2>3. reader' = [reader EXCEPT ![c] = x]
    BY <2>1 DEF Resolve
  <2> HIDE DEF x
  <2>4. x \in Reads /\ ReadSafe(x, ColdOf(index))
    BY <2>1, <2>2, Resolved DEF x
  <2> QED
    BY <1>1, <2>3, <2>4, MergeRead
<1>6. CASE ReadDownload(c)
  <2> DEFINE r == reader[c]
             x == IF r.key \in DOMAIN objects THEN IdleReader ELSE [r EXCEPT !.pc = IF r.retry THEN "resolve" ELSE "error"]
  <2>1. r.pc = "download" /\ reader' = [reader EXCEPT ![c] = x]
    BY <1>6 DEF ReadDownload
  <2>2. r \in Reads /\ ReadSafe(r, ColdOf(index))
    BY <1>4, <2>1
  <2>3. x = IdleReader \/ (x \in Reads /\ ReadSafe(x, ColdOf(index)))
    <3>1. CASE r.key \in DOMAIN objects
      BY <3>1
    <3>2. CASE r.key \notin DOMAIN objects
      <4>1. Filed(ColdOf(index), objects)
        BY DEF MergeInv, ColdInv
      <4>2. ~ InIndex(r.key, ColdOf(index))
        <5> HIDE DEF r
        <5> QED
          BY <3>2, <4>1 DEF InIndex, Filed, FiledIn
      <4>3. x = [r EXCEPT !.pc = IF r.retry THEN "resolve" ELSE "error"]
        BY <3>2
      <4> HIDE DEF x, r
      <4>4. x \in Reads /\ x.pc = (IF r.retry THEN "resolve" ELSE "error") /\ x.swaps = r.swaps /\ r.retry \in BOOLEAN
        BY <2>2, <4>3 DEF Reads
      <4>5. ReadSafe(x, ColdOf(index))
        BY <2>1, <2>2, <4>2, <4>4 DEF ReadSafe
      <4> QED
        BY <4>4, <4>5
    <3> QED
      BY <3>1, <3>2
  <2> HIDE DEF x
  <2> QED
    BY <1>1, <2>1, <2>3, MergeRead
<1>7. CASE ReadRetry(c)
  <2> DEFINE r == reader[c]
             y == [pc |-> "download", tp |-> r.tp, off |-> r.off, key |-> read_plan(index, r.tp, r.off).key, retry |-> FALSE, swaps |-> r.swaps]
             x == IF read_plan(index, r.tp, r.off).plan = "Cold" THEN y ELSE IdleReader
  <2>1. r.pc = "resolve" /\ reader' = [reader EXCEPT ![c] = x]
    BY <1>7 DEF ReadRetry, Resolve
  <2>2. r \in Reads /\ ReadSafe(r, ColdOf(index))
    BY <1>4, <2>1
  <2> HIDE DEF r
  <2>3. r.tp \in Partitions /\ r.off \in Offsets /\ r.swaps \in Nat /\ r.swaps >= 1
    BY <2>1, <2>2 DEF Reads, ReadSafe
  <2>4. x = IdleReader \/ (x \in Reads /\ ReadSafe(x, ColdOf(index)))
    <3>1. CASE read_plan(index, r.tp, r.off).plan = "Cold"
      <4>1. x = y
        BY <3>1
      <4> HIDE DEF x
      <4>2. y \in Reads /\ ReadSafe(y, ColdOf(index))
        BY <2>3, <3>1, Resolved
      <4> QED
        BY <4>1, <4>2
    <3>2. CASE read_plan(index, r.tp, r.off).plan # "Cold"
      BY <3>2
    <3> QED
      BY <3>1, <3>2
  <2> HIDE DEF x
  <2> QED
    BY <1>1, <2>1, <2>4, MergeRead
<1> QED
  BY <1>2, <1>5, <1>6, <1>7

\* What a crash leaves of the log.
LEMMA CrashLog ==
    ASSUME StoreTyped, MergeInv, CrashRestart
    PROVE  SameRecords(wal', wal) /\ WalOK(wal') /\ wal'.tail = <<>> /\ wal'.disk[wal'.active] = <<>>
<1>1. WalOK(wal) /\ wal.tail = <<>>
  BY DEF StoreTyped, MergeInv, Calm
<1>2. PICK disk \in CrashDisks(wal) : wal' = wal_new(disk)
  BY DEF CrashRestart
<1>3. WalOK(wal') /\ \E l \in 0 .. Len(wal.tail) : Rotated(wal', wal, SubSeq(wal.tail, 1, l))
  BY <1>1, <1>2, CrashFields
<1>4. \A l \in 0 .. Len(wal.tail) : SubSeq(wal.tail, 1, l) = <<>>
  BY <1>1
<1>5. Rotated(wal', wal, <<>>)
  BY <1>3, <1>4
<1>6. <<>> \in Seq(Record)
  OBVIOUS
<1>7. SameRecords(wal', wal)
  BY <1>1, <1>3, <1>5, <1>6, RotatedSame
<1> QED
  BY <1>3, <1>5, <1>7 DEF Rotated, SameRecords

\* CrashRestart, outside a tiering cycle.
LEMMA MergeCrash ==
    ASSUME Merging, StoreTyped, MergeInv, CrashRestart
    PROVE  MergeInv'
<1>1. StoreTyped' /\ Recovered(index', manifest', wal') /\ manifest'.live = manifest.live
  BY TypedCrash
<1>2. SameRecords(wal', wal) /\ WalOK(wal') /\ wal'.tail = <<>> /\ wal'.disk[wal'.active] = <<>>
  BY CrashLog
<1>3. tier.pc = "idle" /\ tier' = IdleTier /\ tier'.pc = "idle" /\ compact' = IdleCompact /\ acked' = acked
  BY DEF CrashRestart, Merging, IdleTier, history
<1>4. \A p \in Producers : producer'[p].pc = "idle"
  BY DEF CrashRestart, IdleProducer
<1>5. manifest.live \in [Partitions -> Colds] /\ manifest \in Manifests /\ LogOrder(wal, tier, manifest.live)
  BY MapsTyped DEF StoreTyped, MergeInv
<1>6. LogOrder(wal', tier', manifest'.live)
  <2>1. tier.pc \notin {"group"} \cup Working
    BY <1>3 DEF Working
  <2>2. LogOrder(wal', tier', manifest.live)
    BY <1>2, <1>5, <2>1, LogOrderRotated
  <2> QED
    BY <1>1, <2>2
<1>7. ClientsOrder(producer', hw', wal'.disk, manifest'.live)
  <2>1. \A tp \in Partitions : Below(tp, index'.parts[tp].next_offset, wal'.disk, manifest'.live)
    BY <1>1, <1>2, <1>4, RecoveredMemory
  <2>2. \A tp \in Partitions : hw'[tp] = index'.parts[tp].next_offset
    BY DEF CrashRestart
  <2> QED
    BY <1>4, <2>1, <2>2 DEF ClientsOrder, Busy
<1>8. manifest'.orphans = manifest.orphans /\ manifest'.torn = FALSE
  BY <1>5 DEF CrashRestart, load, Manifests
<1>9. Filed(manifest.live, objects) /\ Buried(manifest.orphans, manifest.live)
  BY DEF MergeInv, ColdInv
<1>10. Filed(manifest.live, objects')
  <2>1. objects' = objects \/ objects' = Without(objects, manifest.orphans)
    BY <1>8 DEF CrashRestart
  <2>2. NoneNamed(manifest.live, manifest.orphans)
    BY <1>5, <1>9, BuriedNotNamed
  <2>3. Remains(Without(objects, manifest.orphans), objects, manifest.orphans)
    BY ObjectsDeleted
  <2>4. Filed(manifest.live, Without(objects, manifest.orphans))
    BY <1>9, <2>2, <2>3, FiledRemains
  <2> QED
    BY <1>9, <2>1, <2>4
<1>11. \A tp \in Partitions : ColdOf(index')[tp] = manifest'.live[tp]
  BY <1>1 DEF Recovered, ColdOf
<1>12. ColdInv(manifest'.live, ColdOf(index'), objects', manifest'.orphans, tier', wal'.disk, compact')
  <2>1. Filed(manifest'.live, objects') /\ Buried(manifest'.orphans, manifest'.live)
    BY <1>1, <1>8, <1>9, <1>10
  <2>2. ColdInv(manifest'.live, ColdOf(index'), objects', manifest'.orphans, tier', wal'.disk, IdleCompact)
    BY <1>3, <1>11, <2>1, ColdRestart
  <2> QED
    BY <1>3, <2>2
<1>13. ReadsSafe(reader', ColdOf(index'))
  BY DEF CrashRestart, ReadsSafe
<1>14. Calm'
  <2>1. Fault("crash") /\ Calm
    BY DEF CrashRestart, MergeInv
  <2>2. /\ {"wal", "tear", "io"} \subseteq DOMAIN faults'
        /\ faults'["wal"] = 0 /\ faults'["tear"] = 0 /\ faults'["io"] = 0
    BY <2>1 DEF Fault, Calm
  <2>3. \A tp \in Partitions : leads'[tp]
    BY DEF CrashRestart, Merging
  <2> QED
    BY <1>2, <1>3, <1>8, <2>2, <2>3 DEF Calm, Working
<1>15. acked' \in SUBSET Record
  BY <1>3 DEF MergeInv
<1> QED
  BY <1>6, <1>7, <1>12, <1>13, <1>14, <1>15 DEF MergeInv

\* What Merging rules out.
LEMMA MergeNotTaken ==
    ASSUME Merging, MergeInv
    PROVE  /\ ~ TierFail /\ ~ TierTear /\ ~ CompactTear /\ ~ \E plan \in compact.plans : CompactFail(plan)
           /\ ~ \E tp \in Partitions : LoseLeadership(tp) \/ GainLeadership(tp)
<1>1. faults["tear"] = 0 /\ faults["io"] = 0 /\ \A tp \in Partitions : leads[tp]
  BY DEF MergeInv, Calm
<1>2. ~ Fault("tear") /\ ~ Fault("io")
  BY <1>1 DEF Fault
<1> QED
  BY <1>1, <1>2 DEF TierFail, TierTear, CompactTear, CompactFail, LoseLeadership, GainLeadership, Merging

\* Every step keeps the invariant.
LEMMA MergeNext ==
    ASSUME Merging, StoreTyped, MergeInv, [Next]_vars
    PROVE  MergeInv'
<1>1. /\ ~ TierFail /\ ~ TierTear /\ ~ CompactTear /\ ~ \E plan \in compact.plans : CompactFail(plan)
      /\ ~ \E tp \in Partitions : LoseLeadership(tp) \/ GainLeadership(tp)
  BY MergeNotTaken
<1>2. CASE Produce
  BY <1>2, MergeProduce
<1>3. CASE Tiering
  <2>1. ASSUME TierOnce PROVE MergeInv'
    BY <2>1, MergeTierOnce
  <2>2. ASSUME TierReadSegment \/ TierReclaim PROVE MergeInv'
    BY <2>2, MergeSegment
  <2>3. ASSUME TierPostCheck \/ \E tp \in Partitions : TierPreCheck(tp) PROVE MergeInv'
    BY <2>3, MergeChecks
  <2>4. ASSUME TierUpload PROVE MergeInv'
    BY <2>4, MergeTierUpload
  <2>5. ASSUME TierRegister PROVE MergeInv'
    BY <2>5, MergeTierRegister
  <2>6. ASSUME TierFlip PROVE MergeInv'
    BY <2>6, MergeTierFlip
  <2> QED
    BY <1>3, <2>1, <2>2, <2>3, <2>4, <2>5, <2>6 DEF Tiering
<1>4. CASE Compacting
  <2>1. ASSUME CompactCycle PROVE MergeInv'
    BY <2>1, MergeCycle
  <2>2. ASSUME NEW plan \in compact.plans, CompactUpload(plan) PROVE MergeInv'
    BY <2>2, MergeCompactUpload
  <2>3. ASSUME CompactRecord PROVE MergeInv'
    BY <2>3, MergeCompactRecord
  <2>4. ASSUME CompactReplace PROVE MergeInv'
    BY <2>4, MergeCompactReplace
  <2>5. ASSUME CompactDelete PROVE MergeInv'
    BY <2>5, MergeCompactDelete
  <2> QED
    BY <1>4, <2>1, <2>2, <2>3, <2>4, <2>5 DEF Compacting
<1>5. CASE Reading
  BY <1>5, MergeReading
<1>6. CASE CrashRestart
  BY <1>6, MergeCrash
<1>7. CASE UNCHANGED vars
  BY <1>7 DEF MergeInv, Calm, vars, storage, tasks, history
<1> QED
  BY <1>1, <1>2, <1>3, <1>4, <1>5, <1>6, <1>7 DEF Next

\* The invariant holds of an empty store.
LEMMA MergeInit ==
    ASSUME Merging, Init
    PROVE  MergeInv
<1>1. wal = wal_new(<<>>)
  BY DEF Init
<1>2. DOMAIN wal.disk = {0} /\ wal.disk[0] = <<>> /\ wal.active = 0 /\ wal.tail = <<>>
  BY <1>1 DEF wal_new, open_new_segment
<1>3. Len(wal.disk[0]) = 0 /\ (1 .. Len(wal.disk[0])) = {}
  BY <1>2
<1>4. (\A tp \in Partitions : DOMAIN manifest.live[tp] = {}) /\ manifest.orphans = {} /\ manifest.torn = FALSE
  BY DEF Init, EmptyManifest
<1>5. \A tp \in Partitions : ColdOf(index)[tp] = manifest.live[tp]
  BY DEF Init, EmptyIndex, EmptyEntries, EmptyManifest, ColdOf
<1>6. tier.pc = "idle" /\ compact = IdleCompact
  BY DEF Init, IdleTier
<1>7. Calm
  BY <1>2, <1>4, <1>6, StoreConstants DEF Init, Calm, Merging, Disciplined, Working
<1>8. LogOrder(wal, tier, manifest.live)
  BY <1>2, <1>3, <1>4 DEF LogOrder, InOrder, SealedClear, ActiveAbove
<1>9. ClientsOrder(producer, hw, wal.disk, manifest.live)
  BY <1>2, <1>3, <1>4 DEF ClientsOrder, Below, Busy, Init, IdleProducer
<1>10. Filed(manifest.live, objects) /\ Buried(manifest.orphans, manifest.live)
  BY <1>4 DEF Filed, FiledIn, Buried
<1>11. ColdInv(manifest.live, ColdOf(index), objects, manifest.orphans, tier, wal.disk, compact)
  BY <1>5, <1>6, <1>10, ColdRestart
<1>12. ReadsSafe(reader, ColdOf(index)) /\ acked \in SUBSET Record
  BY DEF Init, ReadsSafe
<1> QED
  BY <1>7, <1>8, <1>9, <1>11, <1>12 DEF MergeInv

\* The invariant, always.
LEMMA AlwaysMerge ==
    ASSUME Merging
    PROVE  Spec => []MergeInv
<1>1. Init => MergeInv
  BY MergeInit
<1>2. StoreTyped /\ MergeInv /\ [Next]_vars => MergeInv'
  BY MergeNext
<1> QED
  BY <1>1, <1>2, AlwaysTyped, PTL DEF Spec

\* Through any number of tiering cycles, compactions and crashes between cycles, no range of
\* the manifest names an object that recovery would delete as an orphan (record_compaction
\* orphans the sources of a merge; new_with_fencing deletes the orphans).
THEOREM OrphansSuperseded ==
    ASSUME Merging
    PROVE  Spec => []LiveNotOrphaned
<1>1. ASSUME StoreTyped, MergeInv PROVE LiveNotOrphaned
  <2>1. manifest.live \in [Partitions -> Colds]
    BY <1>1, MapsTyped
  <2>2. Filed(manifest.live, objects) /\ Buried(manifest.orphans, manifest.live)
    BY <1>1 DEF MergeInv, ColdInv
  <2>3. NoneNamed(manifest.live, manifest.orphans)
    BY <2>1, <2>2, BuriedNotNamed
  <2> QED
    BY <2>3 DEF LiveNotOrphaned, NoneNamed
<1> QED
  BY <1>1, AlwaysTyped, AlwaysMerge, PTL

\* A read whose object is deleted by a compaction under it succeeds on its one retry, unless
\* the index was swapped twice during the read (read resolves again after NotFound;
\* execute_plan swaps the index before it deletes the sources).
THEOREM ReadsSurvive ==
    ASSUME Merging
    PROVE  Spec => []ReadSurvivesCompaction
<1>1. ASSUME MergeInv PROVE ReadSurvivesCompaction
  <2>1. ReadsSafe(reader, ColdOf(index))
    BY <1>1 DEF MergeInv
  <2> QED
    BY <2>1 DEF ReadSurvivesCompaction, ReadsSafe, ReadSafe, IdleReader
<1> QED
  BY <1>1, AlwaysMerge, PTL

\* With compaction running next to tiering, memory and manifest still have the same cold
\* ranges except between a manifest append and its index update, and the ranges never
\* overlap (replace_cold mirrors the Compact arm of the manifest's fold).
THEOREM ViewsAgreeMerging ==
    ASSUME Merging
    PROVE  Spec => []ColdViewsAgree
<1>1. ASSUME StoreTyped, MergeInv PROVE ColdViewsAgree
  <2> DEFINE live == manifest.live
             cold == ColdOf(index)
  <2>1. /\ live \in [Partitions -> Colds] /\ cold \in [Partitions -> Colds]
        /\ \A tp \in Partitions : cold[tp] = index.parts[tp].cold
    BY <1>1, MapsTyped
  <2>2. Filed(cold, objects) /\ Mirrors(live, cold, tier, wal.disk, compact)
    BY <1>1 DEF MergeInv, ColdInv
  <2> HIDE DEF live, cold
  <2>3. \A tp \in Partitions : Disjoint(cold[tp])
    BY <2>1, <2>2, FiledDisjoint
  <2>4. ASSUME tier.pc # "flip", compact.pc # "replace", NEW tp \in Partitions PROVE cold[tp] = live[tp]
    <3>1. /\ \A a \in DOMAIN cold[tp] : a \in DOMAIN live[tp] /\ live[tp][a] = cold[tp][a]
          /\ \A a \in DOMAIN live[tp] : a \in DOMAIN cold[tp]
      BY <2>2, <2>4 DEF Mirrors, Swapping
    <3>2. cold[tp] \in [DOMAIN cold[tp] -> Ranges] /\ live[tp] \in [DOMAIN live[tp] -> Ranges]
      BY <2>1, MapFields DEF Colds
    <3>3. DOMAIN cold[tp] = DOMAIN live[tp]
      BY <3>1
    <3> DEFINE f == cold[tp]
               g == live[tp]
               D == DOMAIN f
    <3>4. f \in [D -> Ranges] /\ g \in [D -> Ranges] /\ \A a \in D : g[a] = f[a]
      BY <3>1, <3>2, <3>3
    <3> HIDE DEF f, g, D
    <3>5. f = g
      BY <3>4
    <3> QED
      BY <3>5 DEF f, g
  <2> QED
    BY <2>1, <2>3, <2>4 DEF ColdViewsAgree, Disjoint, live
<1> QED
  BY <1>1, AlwaysTyped, AlwaysMerge, PTL

-------------------------------------------------------------------------------
(* Durability and reads with compaction: the contents.                     *)

\* The task has moved the group of tp in the segment s out of memory.
Evicted(t, s, tp) == t.pc \in {"group"} \cup Working /\ s = t.queue[1] /\ tp \notin t.todo
\* The record is in the log, and still in memory.
Waiting(r, disk, t) == \E s \in DOMAIN disk : Has(disk[s], r) /\ ~ Evicted(t, s, r.tp)
\* The record is in the object of the range that covers it.
Archived(r, maps, objs) ==
    \E a \in DOMAIN maps[r.tp] :
        Covers(maps[r.tp], a, r.off) /\ maps[r.tp][a].key \in DOMAIN objs /\ Has(objs[maps[r.tp][a].key], r)
Present(r, disk, t, cold, objs) == Waiting(r, disk, t) \/ Archived(r, cold, objs)

\* An object has records of its range, one per offset.
Neat(k, o) ==
    /\ \A i \in 1 .. Len(o) : o[i].tp = k[1] /\ k[2] <= o[i].off /\ o[i].off < k[3]
    /\ \A i, j \in 1 .. Len(o) : o[i].off = o[j].off => o[i] = o[j]
AllNeat(objs) == \A k \in DOMAIN objs : Neat(k, objs[k])

\* The object of the group in work has the group.
Stocked(t, disk, objs) ==
    t.pc \in {"postcheck", "register", "flip"} =>
        /\ KeyIn(disk[t.queue[1]], t.tp) \in DOMAIN objs
        /\ objs[KeyIn(disk[t.queue[1]], t.tp)] = GroupIn(disk[t.queue[1]], t.tp)

\* The merged object has what its sources have.
Includes(o, x) == \A i \in 1 .. Len(x) : Has(o, x[i])
MergedAll(plan, objs) ==
    /\ MergedKey(plan) \in DOMAIN objs
    /\ \A s \in Sources(plan) : s.key \in DOMAIN objs => Includes(objs[MergedKey(plan)], objs[s.key])
Combined(c, objs) == c.pc \in {"record", "replace"} => MergedAll(c.plan, objs)

\* Memory holds the records that wait in the log and those on their way there, and no others.
HotAt(idx, r) == r.off \in DOMAIN idx.parts[r.tp].hot /\ idx.parts[r.tp].hot[r.off] = r
HotBacked(idx, disk, t, prods) ==
    \A tp \in Partitions : \A o \in DOMAIN idx.parts[tp].hot :
        /\ idx.parts[tp].hot[o].tp = tp /\ idx.parts[tp].hot[o].off = o
        /\ o < idx.parts[tp].next_offset
        /\ Waiting(idx.parts[tp].hot[o], disk, t) \/ InFlight(prods, idx.parts[tp].hot[o])
HotComplete(idx, disk, t, prods) ==
    /\ \A s \in DOMAIN disk : \A i \in 1 .. Len(disk[s]) : Evicted(t, s, disk[s][i].tp) \/ HotAt(idx, disk[s][i])
    /\ \A p \in Producers : prods[p].pc = "wal" => HotAt(idx, Head(prods[p].todo))
PastCold(idx) ==
    \A tp \in Partitions : \A a \in DOMAIN idx.parts[tp].cold : idx.parts[tp].cold[a].end <= idx.parts[tp].next_offset
HotInv(idx, disk, t, prods) == HotBacked(idx, disk, t, prods) /\ HotComplete(idx, disk, t, prods) /\ PastCold(idx)

\* What the tasks have in hand.
BodiesInv(t, disk, c, objs) == AllNeat(objs) /\ Stocked(t, disk, objs) /\ Combined(c, objs)

\* What is acknowledged, or appended by a request in progress.
RequestsPresent(prods, disk, t, cold, objs) ==
    \A p \in Producers : Busy(prods[p]) =>
        \A i \in 1 .. Written(prods[p]) : Present(prods[p].recs[i], disk, t, cold, objs)
AllPresent(S, disk, t, cold, objs) == \A r \in S : Present(r, disk, t, cold, objs)

ContentInv ==
    /\ BodiesInv(tier, wal.disk, compact, objects) /\ HotInv(index, wal.disk, tier, producer)
    /\ RequestsPresent(producer, wal.disk, tier, ColdOf(index), objects)
    /\ AllPresent(acked, wal.disk, tier, ColdOf(index), objects)

-------------------------------------------------------------------------------
(* What leaves the contents alone.                                         *)

\* What waits in disk waits in disk2, at the same place.
WaitKept(disk, t, disk2, t2) ==
    \A s \in DOMAIN disk : \A i \in 1 .. Len(disk[s]) : ~ Evicted(t, s, disk[s][i].tp) =>
        /\ s \in DOMAIN disk2 /\ i \in 1 .. Len(disk2[s]) /\ disk2[s][i] = disk[s][i]
        /\ ~ Evicted(t2, s, disk[s][i].tp)
SameWait(disk, t, disk2, t2) == WaitKept(disk, t, disk2, t2) /\ WaitKept(disk2, t2, disk, t)

PresentStays(disk, t, cold, objs, disk2, t2, cold2, objs2) ==
    \A r \in Record : Present(r, disk, t, cold, objs) => Present(r, disk2, t2, cold2, objs2)
ArchivedStays(cold, objs, cold2, objs2) ==
    \A r \in Record : Archived(r, cold, objs) => Archived(r, cold2, objs2)

LEMMA WaitingStays ==
    ASSUME NEW disk, NEW t, NEW disk2, NEW t2, WaitKept(disk, t, disk2, t2), NEW r, Waiting(r, disk, t)
    PROVE  Waiting(r, disk2, t2)
<1>1. PICK s \in DOMAIN disk : Has(disk[s], r) /\ ~ Evicted(t, s, r.tp)
  BY DEF Waiting
<1>2. PICK i \in 1 .. Len(disk[s]) : disk[s][i] = r
  BY <1>1 DEF Has
<1>3. /\ s \in DOMAIN disk2 /\ i \in 1 .. Len(disk2[s]) /\ disk2[s][i] = r
      /\ ~ Evicted(t2, s, r.tp)
  BY <1>1, <1>2 DEF WaitKept
<1> QED
  BY <1>3 DEF Waiting, Has

LEMMA WaitingAndArchived ==
    ASSUME NEW disk, NEW t, NEW disk2, NEW t2, WaitKept(disk, t, disk2, t2),
           NEW cold, NEW objs, NEW cold2, NEW objs2, ArchivedStays(cold, objs, cold2, objs2)
    PROVE  PresentStays(disk, t, cold, objs, disk2, t2, cold2, objs2)
BY WaitingStays DEF PresentStays, ArchivedStays, Present

\* Objects that ranges name stay.
LEMMA ArchivedObjects ==
    ASSUME NEW cold, NEW objs, NEW objs2, ObjectsKept(objs2, objs, cold)
    PROVE  ArchivedStays(cold, objs, cold, objs2)
BY RecordFields DEF ArchivedStays, Archived, ObjectsKept

LEMMA ArchivedSame ==
    ASSUME NEW cold, NEW objs
    PROVE  ArchivedStays(cold, objs, cold, objs)
BY DEF ArchivedStays

\* Memory, when the same records wait.
LEMMA HotSame ==
    ASSUME NEW idx, NEW disk, NEW t, NEW disk2, NEW t2, NEW prods, SameWait(disk, t, disk2, t2), HotInv(idx, disk, t, prods)
    PROVE  HotInv(idx, disk2, t2, prods)
<1>1. \A r : Waiting(r, disk, t) => Waiting(r, disk2, t2)
  BY WaitingStays DEF SameWait
<1>2. HotBacked(idx, disk2, t2, prods)
  BY <1>1 DEF HotInv, HotBacked
<1>3. HotComplete(idx, disk2, t2, prods)
  BY DEF HotInv, HotComplete, SameWait, WaitKept
<1> QED
  BY <1>2, <1>3 DEF HotInv

\* The records of a request.
LEMMA RequestRecords ==
    ASSUME NEW q, ProducerOK(q), Busy(q), NEW i \in 1 .. Written(q)
    PROVE  i \in 1 .. Len(q.recs) /\ q.recs[i] \in Record
<1>1. RequestOK(q)
  BY DEF ProducerOK, Busy, IdleProducer
<1>2. q.recs \in Seq(Record) /\ q.todo \in Seq(Record)
  BY <1>1 DEF RequestOK, Requests
<1>3. Len(q.recs) \in Nat /\ Len(q.todo) \in Nat
  BY <1>2
<1>4. i \in 1 .. Len(q.recs)
  BY <1>3 DEF Written
<1> QED
  BY <1>2, <1>4

LEMMA ClientsPresent ==
    ASSUME NEW prods, \A p \in Producers : ProducerOK(prods[p]), NEW S \in SUBSET Record,
           NEW disk, NEW t, NEW cold, NEW objs, NEW disk2, NEW t2, NEW cold2, NEW objs2,
           PresentStays(disk, t, cold, objs, disk2, t2, cold2, objs2),
           RequestsPresent(prods, disk, t, cold, objs), AllPresent(S, disk, t, cold, objs)
    PROVE  RequestsPresent(prods, disk2, t2, cold2, objs2) /\ AllPresent(S, disk2, t2, cold2, objs2)
<1>1. \A p \in Producers : Busy(prods[p]) => \A i \in 1 .. Written(prods[p]) : prods[p].recs[i] \in Record
  BY RequestRecords
<1> QED
  BY <1>1 DEF PresentStays, RequestsPresent, AllPresent

\* A step that changes nobody's records.
LEMMA ContentStays ==
    ASSUME StoreTyped, MergeInv, ContentInv, UNCHANGED <<producer, acked>>,
           BodiesInv(tier', wal'.disk, compact', objects'), HotInv(index', wal'.disk, tier', producer),
           PresentStays(wal.disk, tier, ColdOf(index), objects, wal'.disk, tier', ColdOf(index'), objects')
    PROVE  ContentInv'
<1>1. (\A p \in Producers : ProducerOK(producer[p])) /\ acked \in SUBSET Record
  BY DEF StoreTyped, MergeInv
<1>2. RequestsPresent(producer, wal.disk, tier, ColdOf(index), objects) /\ AllPresent(acked, wal.disk, tier, ColdOf(index), objects)
  BY DEF ContentInv
<1>3. /\ RequestsPresent(producer, wal'.disk, tier', ColdOf(index'), objects')
      /\ AllPresent(acked, wal'.disk, tier', ColdOf(index'), objects')
  BY ONLY <1>1, <1>2, ClientsPresent,
     PresentStays(wal.disk, tier, ColdOf(index), objects, wal'.disk, tier', ColdOf(index'), objects')
<1>4. ColdOf(index)' = ColdOf(index')
  BY DEF ColdOf
<1> QED
  BY <1>3, <1>4 DEF ContentInv

\* A step of the tiering task that changes neither memory nor what waits.
LEMMA ContentTier ==
    ASSUME StoreTyped, MergeInv, ContentInv, UNCHANGED <<index, producer, compact, acked>>,
           SameWait(wal.disk, tier, wal'.disk, tier'), ObjectsKept(objects', objects, ColdOf(index)),
           BodiesInv(tier', wal'.disk, compact, objects')
    PROVE  ContentInv'
<1>1. HotInv(index, wal'.disk, tier', producer)
  BY HotSame DEF ContentInv
<1>2. PresentStays(wal.disk, tier, ColdOf(index), objects, wal'.disk, tier', ColdOf(index), objects')
  BY ArchivedObjects, WaitingAndArchived DEF SameWait
<1> QED
  BY <1>1, <1>2, ContentStays

-------------------------------------------------------------------------------
(* The contents and the steps of the tiering task.                         *)

LEMMA IndexedObjects ==
    ASSUME MergeInv
    PROVE  ObjectsKept(objects, objects, ColdOf(index))
<1>1. Filed(ColdOf(index), objects)
  BY DEF MergeInv, ColdInv
<1> QED
  BY <1>1 DEF Filed, FiledIn, ObjectsKept

\* TierOnce.
LEMMA ContentTierOnce ==
    ASSUME StoreTyped, MergeInv, ContentInv, TierOnce
    PROVE  ContentInv'
<1>1. UNCHANGED <<index, objects, producer, compact, acked>> /\ tier.pc = "idle" /\ tier'.pc = "segment"
  BY DEF TierOnce, history
<1>2. \A s, tp : ~ Evicted(tier, s, tp) /\ ~ Evicted(tier', s, tp)
  BY <1>1 DEF Evicted, Working
<1>3. WalOK(wal) /\ wal.tail = <<>>
  BY DEF StoreTyped, MergeInv, Calm
<1>4. SameWait(wal.disk, tier, wal'.disk, tier')
  <2>1. CASE wal' = wal
    BY <1>2, <2>1 DEF SameWait, WaitKept
  <2>2. CASE wal' = handle_maybe_seal(wal)
    <3>1. WalOK(wal') /\ Rotated(wal', wal, wal.tail)
      BY <1>3, <2>2, SealFields
    <3>2. SameRecords(wal', wal)
      BY <1>3, <3>1, WalFields, RotatedSame
    <3>3. /\ DOMAIN wal.disk \subseteq DOMAIN wal'.disk /\ \A s \in DOMAIN wal.disk : wal'.disk[s] = wal.disk[s]
          /\ \A s \in DOMAIN wal'.disk \ DOMAIN wal.disk : wal'.disk[s] = <<>>
      BY <3>2 DEF SameRecords
    <3>4. \A s \in DOMAIN wal'.disk \ DOMAIN wal.disk : Len(wal'.disk[s]) = 0
      BY <3>3
    <3> QED
      BY <1>2, <3>3, <3>4 DEF SameWait, WaitKept
  <2> QED
    BY <2>1, <2>2 DEF TierOnce
<1>5. BodiesInv(tier', wal'.disk, compact, objects')
  BY <1>1 DEF ContentInv, BodiesInv, Stocked
<1>6. ObjectsKept(objects', objects, ColdOf(index))
  BY <1>1, IndexedObjects
<1> QED
  BY <1>1, <1>4, <1>5, <1>6, ContentTier

\* The task leaves a segment that has nothing to wait for.
LEMMA ContentDeleted ==
    ASSUME StoreTyped, MergeInv, ContentInv, tier.pc \notin {"idle", "dead"}, tier' = NextSegment,
           wal' = delete_segment(wal, Head(tier.queue)), UNCHANGED <<index, objects, producer, compact, acked>>,
           \A i \in 1 .. Len(wal.disk[tier.queue[1]]) : Evicted(tier, tier.queue[1], wal.disk[tier.queue[1]][i].tp)
    PROVE  ContentInv'
<1>1. Deleted(wal', wal, tier.queue[1])
  BY TypedDelete
<1>2. tier'.pc \in {"idle", "segment"}
  BY DEF NextSegment, IdleTier
<1>3. \A s, tp : ~ Evicted(tier', s, tp)
  BY <1>2 DEF Evicted, Working
<1>4. DOMAIN wal'.disk = DOMAIN wal.disk \ {tier.queue[1]} /\ \A s \in DOMAIN wal'.disk : wal'.disk[s] = wal.disk[s]
  BY <1>1 DEF Deleted
<1>5. \A s, tp : s # tier.queue[1] => ~ Evicted(tier, s, tp)
  BY DEF Evicted
<1>6. SameWait(wal.disk, tier, wal'.disk, tier')
  BY <1>3, <1>4, <1>5 DEF SameWait, WaitKept
<1>7. BodiesInv(tier', wal'.disk, compact, objects')
  BY <1>2 DEF ContentInv, BodiesInv, Stocked
<1>8. ObjectsKept(objects', objects, ColdOf(index))
  BY IndexedObjects
<1> QED
  BY <1>6, <1>7, <1>8, ContentTier

\* TierReadSegment and TierReclaim.
LEMMA ContentSegment ==
    ASSUME StoreTyped, MergeInv, ContentInv, TierReadSegment \/ TierReclaim
    PROVE  ContentInv'
<1>1. UNCHANGED <<index, objects, producer, compact, acked>>
  BY DEF TierReadSegment, TierReclaim, history
<1>2. tier.pc \notin {"idle", "dead"}
  BY DEF TierReadSegment, TierReclaim
<1>3. Segment = wal.disk[tier.queue[1]] /\ Segment \in Seq(Record)
  BY <1>2, TierQueue
<1>4. CASE TierReclaim
  <2>1. ~ tier.fenced /\ tier.pc = "group" /\ tier.todo = {}
    BY <1>4 DEF TierReclaim, MergeInv, Calm
  <2>2. \A tp : Evicted(tier, tier.queue[1], tp)
    BY <2>1 DEF Evicted
  <2>3. tier' = NextSegment /\ wal' = delete_segment(wal, Head(tier.queue))
    BY <1>4, <2>1 DEF TierReclaim
  <2> QED
    BY <1>1, <1>2, <2>2, <2>3, ContentDeleted
<1>5. CASE TierReadSegment /\ Segment = <<>>
  <2>1. Len(wal.disk[tier.queue[1]]) = 0
    BY <1>3, <1>5
  <2>2. tier' = NextSegment /\ wal' = delete_segment(wal, Head(tier.queue))
    BY <1>5 DEF TierReadSegment
  <2> QED
    BY <1>1, <1>2, <2>1, <2>2, ContentDeleted
<1>6. CASE TierReadSegment /\ Segment # <<>>
  <2>1. /\ wal' = wal /\ tier.pc = "segment" /\ tier'.pc = "group" /\ tier'.queue = tier.queue
        /\ tier'.todo = TpsOf(Segment)
    BY <1>6 DEF TierReadSegment, TpsOf
  <2>2. \A s, tp : ~ Evicted(tier, s, tp)
    BY <2>1 DEF Evicted, Working
  <2>3. \A i \in 1 .. Len(Segment) : Segment[i].tp \in tier'.todo
    BY <1>3, <2>1 DEF TpsOf, ToSet
  <2>4. \A s \in DOMAIN wal.disk : \A i \in 1 .. Len(wal.disk[s]) : ~ Evicted(tier', s, wal.disk[s][i].tp)
    BY <1>3, <2>1, <2>3 DEF Evicted
  <2>5. SameWait(wal.disk, tier, wal'.disk, tier')
    BY <2>1, <2>2, <2>4 DEF SameWait, WaitKept
  <2>6. BodiesInv(tier', wal'.disk, compact, objects')
    BY <1>1, <2>1 DEF ContentInv, BodiesInv, Stocked
  <2>7. ObjectsKept(objects', objects, ColdOf(index))
    BY <1>1, IndexedObjects
  <2> QED
    BY <1>1, <2>5, <2>6, <2>7, ContentTier
<1> QED
  BY <1>4, <1>5, <1>6

\* The task goes on with the groups it has.
LEMMA EvictedSame ==
    ASSUME NEW disk, NEW t, NEW t2, t.pc \in {"group"} \cup Working, t2.pc \in {"group"} \cup Working,
           t2.queue = t.queue, t2.todo = t.todo
    PROVE  SameWait(disk, t, disk, t2)
<1>1. \A s, tp : Evicted(t2, s, tp) <=> Evicted(t, s, tp)
  BY DEF Evicted
<1> QED
  BY <1>1 DEF SameWait, WaitKept

\* TierPreCheck, TierPostCheck and TierRegister.
LEMMA ContentChecks ==
    ASSUME StoreTyped, MergeInv, ContentInv, TierPostCheck \/ TierRegister \/ \E tp \in Partitions : TierPreCheck(tp)
    PROVE  ContentInv'
<1>1. UNCHANGED <<index, wal, objects, producer, compact, acked>>
  BY DEF TierPreCheck, TierPostCheck, TierRegister, storage, history
<1>2. Calm
  BY DEF MergeInv
<1>3. /\ tier.pc \in {"group"} \cup Working /\ tier'.pc \in {"group"} \cup Working
      /\ tier'.queue = tier.queue /\ tier'.todo = tier.todo
      /\ tier'.pc \in {"postcheck", "register", "flip"} =>
            tier.pc \in {"postcheck", "register", "flip"} /\ tier'.tp = tier.tp
  <2>1. CASE \E tp \in Partitions : TierPreCheck(tp)
    <3>1. PICK tp \in Partitions : TierPreCheck(tp)
      BY <2>1
    <3>2. leads[tp]
      BY <1>2, <3>1 DEF Calm, TierPreCheck
    <3> QED
      BY <3>1, <3>2 DEF TierPreCheck, Working
  <2>2. CASE TierPostCheck
    <3>1. AtWork(tier, wal) /\ tier.pc = "postcheck" /\ tier.pc \in Working
      BY <2>2, TierAt DEF TierPostCheck, Working
    <3>2. leads[tier.tp]
      BY <1>2, <3>1 DEF Calm, AtWork
    <3>3. tier' = [tier EXCEPT !.pc = "register"]
      BY <2>2, <3>2 DEF TierPostCheck
    <3> QED
      BY <3>1, <3>3, TierMoved DEF Working
  <2>3. CASE TierRegister
    <3>1. AtWork(tier, wal) /\ tier.pc = "register" /\ tier.pc \in Working
      BY <2>3, TierAt DEF TierRegister, Working
    <3>2. tier' = [tier EXCEPT !.pc = "flip"]
      BY <2>3 DEF TierRegister
    <3> QED
      BY <3>1, <3>2, TierMoved DEF Working
  <2> QED
    BY <2>1, <2>2, <2>3
<1>4. SameWait(wal.disk, tier, wal'.disk, tier')
  BY <1>1, <1>3, EvictedSame
<1>5. BodiesInv(tier', wal'.disk, compact, objects')
  BY <1>1, <1>3 DEF ContentInv, BodiesInv, Stocked
<1>6. ObjectsKept(objects', objects, ColdOf(index))
  BY <1>1, IndexedObjects
<1> QED
  BY <1>1, <1>4, <1>5, <1>6, ContentTier

\* No range starts where the group in work starts, until it is registered.
LEMMA GroupFresh ==
    ASSUME StoreTyped, MergeInv, tier.pc \in Working, tier.pc # "flip"
    PROVE  /\ WorkStart(tier, wal.disk) \notin DOMAIN manifest.live[tier.tp]
           /\ WorkStart(tier, wal.disk) \notin DOMAIN ColdOf(index)[tier.tp]
<1> DEFINE a == WorkStart(tier, wal.disk)
           e == WorkEnd(tier, wal.disk)
           tp == tier.tp
           live == manifest.live
           cold == ColdOf(index)
<1>1. WorkGroup /\ Clear(a, e, live[tp])
  BY MergingGroup
<1>2. tp \in Partitions /\ a \in Nat /\ e \in Nat /\ a < e
  BY <1>1 DEF WorkGroup, GroupFacts, WorkStart, WorkEnd
<1>3. live \in [Partitions -> Colds] /\ cold \in [Partitions -> Colds] /\ compact.plans \subseteq Plans
  BY MapsTyped
<1>4. ColdInv(live, cold, objects, manifest.orphans, tier, wal.disk, compact)
  BY DEF MergeInv
<1> HIDE DEF a, e, tp, live, cold
<1>5. Clear(a, e, cold[tp])
  BY <1>1, <1>2, <1>3, <1>4, ClearInIndex
<1>6. \A b \in DOMAIN live[tp] : b \in Nat /\ live[tp][b].end \in Nat /\ b < live[tp][b].end
  BY <1>2, <1>3, <1>4, RangeNaturals DEF ColdInv, Filed, FiledIn
<1>7. \A b \in DOMAIN cold[tp] : b \in Nat /\ cold[tp][b].end \in Nat /\ b < cold[tp][b].end
  BY <1>2, <1>3, <1>4, RangeNaturals DEF ColdInv, Filed, FiledIn
<1>8. a \notin DOMAIN live[tp]
  BY <1>1, <1>2, <1>6 DEF Clear
<1>9. a \notin DOMAIN cold[tp]
  BY <1>2, <1>5, <1>7 DEF Clear
<1> QED
  BY <1>8, <1>9 DEF a, tp, live, cold

\* The object of a group is neat.
LEMMA GroupNeat ==
    ASSUME NEW s, NEW tp, GroupFacts(s, tp)
    PROVE  Neat(KeyIn(s, tp), GroupIn(s, tp))
<1> DEFINE g == GroupIn(s, tp)
<1>1. GroupOf(g, s, tp) /\ KeyIn(s, tp) = <<tp, StartIn(s, tp), EndIn(s, tp)>>
  BY DEF GroupFacts, KeyIn, ObjectKey
<1>2. \A i \in 1 .. Len(g) : g[i].tp = tp /\ StartIn(s, tp) <= g[i].off /\ g[i].off < EndIn(s, tp)
  <2>1. SUFFICES ASSUME NEW i \in 1 .. Len(g) PROVE g[i].tp = tp /\ StartIn(s, tp) <= g[i].off /\ g[i].off < EndIn(s, tp)
    OBVIOUS
  <2>2. g[i].tp = tp /\ \E j \in 1 .. Len(s) : g[i] = s[j]
    BY <1>1 DEF GroupOf
  <2>3. PICK j \in 1 .. Len(s) : g[i] = s[j]
    BY <2>2
  <2>4. StartIn(s, tp) <= s[j].off /\ s[j].off < EndIn(s, tp)
    BY <2>2, <2>3 DEF GroupFacts
  <2> QED
    BY <2>2, <2>3, <2>4
<1>3. \A i, j \in 1 .. Len(g) : g[i].off = g[j].off => g[i] = g[j]
  BY DEF GroupFacts
<1> QED
  BY <1>1, <1>2, <1>3 DEF Neat

LEMMA AllNeatStored ==
    ASSUME NEW objs, AllNeat(objs), NEW k, NEW o, Neat(k, o), NEW objs2, Stored(objs2, objs, k, o)
    PROVE  AllNeat(objs2)
BY DEF AllNeat, Stored

LEMMA AllNeatRemains ==
    ASSUME NEW objs, AllNeat(objs), NEW K, NEW objs2, Remains(objs2, objs, K)
    PROVE  AllNeat(objs2)
BY DEF AllNeat, Remains

\* Other keys keep their objects.
OthersKept(objs2, objs, k) == DOMAIN objs2 \subseteq DOMAIN objs \cup {k} /\ \A x \in DOMAIN objs \ {k} : x \in DOMAIN objs2 /\ objs2[x] = objs[x]
LEMMA StoredOthers ==
    ASSUME NEW objs, NEW k, NEW o, NEW objs2, Stored(objs2, objs, k, o)
    PROVE  OthersKept(objs2, objs, k) /\ k \in DOMAIN objs2 /\ objs2[k] = o
BY DEF OthersKept, Stored

\* A key that no range of maps has.
LEMMA UnnamedKept ==
    ASSUME NEW maps, NEW objs, Filed(maps, objs), NEW k, NoneNamed(maps, {k}), NEW objs2, OthersKept(objs2, objs, k)
    PROVE  ObjectsKept(objs2, objs, maps)
BY DEF Filed, FiledIn, NoneNamed, OthersKept, ObjectsKept

\* The merge in hand starts at a range of the manifest, and its sources are ranges of the index.
LEMMA MergeInHand ==
    ASSUME MergeInv, compact.pc \in {"record", "replace"}
    PROVE  /\ MergedStart(compact.plan) \in DOMAIN manifest.live[compact.plan.tp]
           /\ \A s \in Sources(compact.plan) :
                 s.key = ObjectKey(compact.plan.tp, s.start, s.end) /\ s.start \in DOMAIN ColdOf(index)[compact.plan.tp]
<1>1. Merger(compact, manifest.live, ColdOf(index), objects)
  BY DEF MergeInv, ColdInv
<1>2. compact.plan \in compact.plans /\ PlanSound(compact.plan) /\ SourcesIn(compact.plan, ColdOf(index))
  BY <1>1 DEF Merger
<1>3. \A s \in Sources(compact.plan) :
         s.key = ObjectKey(compact.plan.tp, s.start, s.end) /\ s.start \in DOMAIN ColdOf(index)[compact.plan.tp]
  BY <1>2 DEF PlanSound, SourceOK, SourcesIn
<1>4. CASE compact.pc = "record"
  <2>1. SourcesIn(compact.plan, manifest.live)
    BY <1>1, <1>2, <1>4 DEF Merger
  <2> QED
    BY <1>2, <1>3, <2>1 DEF PlanSound, SourcesIn
<1>5. CASE compact.pc = "replace"
  BY <1>1, <1>3, <1>5 DEF Merger, MergedIn
<1> QED
  BY <1>4, <1>5

\* TierUpload.
LEMMA ContentTierUpload ==
    ASSUME StoreTyped, MergeInv, ContentInv, TierUpload
    PROVE  ContentInv'
<1> DEFINE seg == wal.disk[tier.queue[1]]
           k == KeyIn(seg, tier.tp)
           g == GroupIn(seg, tier.tp)
           a == WorkStart(tier, wal.disk)
<1>1. UNCHANGED <<index, wal, producer, compact, acked>>
  BY DEF TierUpload, history
<1>2. tier.pc = "upload" /\ tier.pc \in Working /\ AtWork(tier, wal)
  BY TierAt DEF TierUpload, Working
<1>3. tier'.pc = "postcheck" /\ tier'.queue = tier.queue /\ tier'.todo = tier.todo /\ tier'.tp = tier.tp
  BY <1>2, TierMoved DEF TierUpload
<1>4. WorkGroup
  BY <1>2, MergingGroup
<1>5. Stored(objects', objects, k, g)
  <2>1. Stored(objects', objects, GroupKey(tier.tp), Group(tier.tp))
    BY <1>2, UploadedTyped DEF TierUpload
  <2> QED
    BY <1>4, <2>1 DEF WorkGroup
<1>6. OthersKept(objects', objects, k) /\ k \in DOMAIN objects' /\ objects'[k] = g
  BY <1>5, StoredOthers
<1>7. a \notin DOMAIN manifest.live[tier.tp] /\ a \notin DOMAIN ColdOf(index)[tier.tp]
  BY <1>2, GroupFresh
<1>8. k = <<tier.tp, a, WorkEnd(tier, wal.disk)>>
  BY DEF KeyIn, ObjectKey, WorkStart, WorkEnd
<1>9. Filed(ColdOf(index), objects)
  BY DEF MergeInv, ColdInv
<1> HIDE DEF k, g, a
<1>10. NoneNamed(ColdOf(index), {k})
  <2>1. SUFFICES ASSUME NEW tp \in Partitions, NEW b \in DOMAIN ColdOf(index)[tp], ColdOf(index)[tp][b].key = k
                 PROVE  FALSE
    BY DEF NoneNamed
  <2>2. ColdOf(index)[tp][b].key = <<tp, b, ColdOf(index)[tp][b].end>>
    BY <1>9 DEF Filed, FiledIn, ObjectKey
  <2> QED
    BY <1>7, <1>8, <2>1, <2>2
<1>11. ObjectsKept(objects', objects, ColdOf(index))
  BY <1>6, <1>9, <1>10, UnnamedKept
<1>12. AllNeat(objects')
  <2>1. Neat(k, g)
    BY <1>4, GroupNeat DEF WorkGroup, k, g
  <2> QED
    BY <1>5, <2>1, AllNeatStored DEF ContentInv, BodiesInv
<1>13. Stocked(tier', wal'.disk, objects')
  BY <1>1, <1>3, <1>6 DEF Stocked, k, g
<1>14. Combined(compact, objects')
  <2>1. SUFFICES ASSUME compact.pc \in {"record", "replace"} PROVE MergedAll(compact.plan, objects')
    BY DEF Combined
  <2>2. MergedAll(compact.plan, objects)
    BY <2>1 DEF ContentInv, BodiesInv, Combined
  <2>3. MergedKey(compact.plan) # k
    BY <1>7, <1>8, <2>1, MergeInHand DEF MergedKey, ObjectKey
  <2>4. \A s \in Sources(compact.plan) : s.key # k
    BY <1>7, <1>8, <2>1, MergeInHand DEF ObjectKey
  <2> QED
    BY <1>6, <2>2, <2>3, <2>4 DEF MergedAll, OthersKept
<1>15. SameWait(wal.disk, tier, wal'.disk, tier')
  BY <1>1, <1>2, <1>3, EvictedSame DEF Working
<1>16. BodiesInv(tier', wal'.disk, compact, objects')
  BY <1>12, <1>13, <1>14 DEF BodiesInv
<1> QED
  BY <1>1, <1>11, <1>15, <1>16, ContentTier

-------------------------------------------------------------------------------
(* The contents and the flip.                                              *)

\* The appends in progress to tp are at hi or past it.
FlightsPast(prods, tp, hi) ==
    \A p \in Producers : prods[p].pc = "wal" =>
        /\ Head(prods[p].todo).tp \in Partitions /\ Head(prods[p].todo).off \in Nat
        /\ Head(prods[p].todo).tp = tp => hi <= Head(prods[p].todo).off

\* The index after a flip: memory.
LEMMA FlipHot ==
    ASSUME NEW w, WalOK(w), InOrder(w.disk), NEW idx, Exact(idx), NEW new, Exact(new), NEW prods, NEW t, NEW t2,
           HotInv(idx, w.disk, t, prods), t.pc \in {"group"} \cup Working, t2.pc \in {"group"} \cup Working,
           t2.queue = t.queue, NEW s \in DOMAIN w.disk, s = t.queue[1], NEW tp \in Partitions, tp \in TpsOf(w.disk[s]),
           t2.todo = t.todo \ {tp}, tp \in t.todo, GroupFacts(w.disk[s], tp),
           NEW lo, lo = StartIn(w.disk[s], tp), NEW hi, hi = EndIn(w.disk[s], tp), NEW rng,
           Flipped(new, idx, tp, lo, hi, rng), FlightsPast(prods, tp, hi)
    PROVE  HotInv(new, w.disk, t2, prods)
<1>1. lo \in Nat /\ hi \in Nat /\ lo < hi
  BY DEF GroupFacts
<1>2. HotBacked(idx, w.disk, t, prods) /\ HotComplete(idx, w.disk, t, prods) /\ PastCold(idx)
  BY DEF HotInv
<1>3. \A q \in Partitions \ {tp} : new.parts[q] = idx.parts[q]
  BY DEF Flipped, Elsewhere
<1>4. /\ \A o \in DOMAIN new.parts[tp].hot :
            o \in DOMAIN idx.parts[tp].hot /\ new.parts[tp].hot[o] = idx.parts[tp].hot[o] /\ ~ (lo <= o /\ o < hi)
      /\ \A o \in DOMAIN idx.parts[tp].hot : (lo <= o /\ o < hi) \/ o \in DOMAIN new.parts[tp].hot
      /\ idx.parts[tp].next_offset <= new.parts[tp].next_offset /\ hi <= new.parts[tp].next_offset
      /\ Stored(new.parts[tp].cold, idx.parts[tp].cold, lo, rng) /\ rng.end = hi
  BY DEF Flipped
<1>5. \A x, q : Evicted(t2, x, q) <=> Evicted(t, x, q) \/ (x = s /\ q = tp)
  BY DEF Evicted
<1>6. \A i \in 1 .. Len(w.disk[s]) : w.disk[s][i].tp = tp => lo <= w.disk[s][i].off /\ w.disk[s][i].off < hi
  BY DEF GroupFacts
<1>7. HotBacked(new, w.disk, t2, prods)
  <2>1. SUFFICES ASSUME NEW q \in Partitions, NEW o \in DOMAIN new.parts[q].hot
                 PROVE  /\ new.parts[q].hot[o].tp = q /\ new.parts[q].hot[o].off = o /\ o < new.parts[q].next_offset
                        /\ Waiting(new.parts[q].hot[o], w.disk, t2) \/ InFlight(prods, new.parts[q].hot[o])
    BY DEF HotBacked
  <2>2. o \in DOMAIN idx.parts[q].hot /\ new.parts[q].hot[o] = idx.parts[q].hot[o]
        /\ (q = tp => ~ (lo <= o /\ o < hi))
    BY <1>3, <1>4
  <2>3. /\ idx.parts[q].hot[o].tp = q /\ idx.parts[q].hot[o].off = o /\ o < idx.parts[q].next_offset
        /\ Waiting(idx.parts[q].hot[o], w.disk, t) \/ InFlight(prods, idx.parts[q].hot[o])
    BY <1>2, <2>2 DEF HotBacked
  <2>4. o \in Nat /\ idx.parts[q].next_offset \in Nat /\ new.parts[q].next_offset \in Nat
    BY <2>2, IndexNaturals
  <2>5. o < new.parts[q].next_offset
    BY <1>3, <1>4, <2>3, <2>4
  <2>6. ASSUME Waiting(idx.parts[q].hot[o], w.disk, t) PROVE Waiting(idx.parts[q].hot[o], w.disk, t2)
    <3> DEFINE r == idx.parts[q].hot[o]
    <3>1. PICK x \in DOMAIN w.disk : Has(w.disk[x], r) /\ ~ Evicted(t, x, r.tp)
      BY <2>6 DEF Waiting
    <3>2. PICK i \in 1 .. Len(w.disk[x]) : w.disk[x][i] = r
      BY <3>1 DEF Has
    <3>3. ~ (x = s /\ r.tp = tp)
      BY <1>6, <2>2, <2>3, <3>2
    <3>4. ~ Evicted(t2, x, r.tp)
      BY <1>5, <3>1, <3>3
    <3> QED
      BY <3>1, <3>4 DEF Waiting
  <2> QED
    BY <2>2, <2>3, <2>5, <2>6
<1>8. HotComplete(new, w.disk, t2, prods)
  <2>1. ASSUME NEW x \in DOMAIN w.disk, NEW i \in 1 .. Len(w.disk[x]), ~ Evicted(t2, x, w.disk[x][i].tp)
        PROVE  HotAt(new, w.disk[x][i])
    <3> DEFINE r == w.disk[x][i]
    <3>1. ~ Evicted(t, x, r.tp) /\ ~ (x = s /\ r.tp = tp)
      BY <1>5, <2>1
    <3>2. HotAt(idx, r)
      BY <1>2, <3>1 DEF HotComplete
    <3>3. r.tp \in Partitions /\ r.off \in Nat
      BY DiskRecords
    <3>4. r.tp = tp => ~ (lo <= r.off /\ r.off < hi)
      <4>1. SUFFICES ASSUME r.tp = tp PROVE ~ (lo <= r.off /\ r.off < hi)
        OBVIOUS
      <4>2. x # s /\ x \in Nat /\ s \in Nat
        BY <3>1, <4>1, WalFields
      <4>3. CASE s < x
        <5>1. \A j \in 1 .. Len(w.disk[x]) : w.disk[x][j].tp = tp => EndIn(w.disk[s], tp) <= w.disk[x][j].off
          BY ONLY <4>3, GroupsApart, WalOK(w), InOrder(w.disk), s \in DOMAIN w.disk, x \in DOMAIN w.disk, tp \in TpsOf(w.disk[s])
        <5>2. hi <= r.off
          BY <4>1, <5>1
        <5> HIDE DEF r
        <5> QED
          BY <1>1, <3>3, <5>2
      <4>4. CASE x < s
        <5>1. tp \in TpsOf(w.disk[x])
          <6>1. w.disk[x] \in Seq(Record)
            BY WalFields
          <6> QED
            BY <4>1, <6>1 DEF TpsOf, ToSet
        <5>2. EndIn(w.disk[x], tp) <= lo
          BY <4>4, <5>1, GroupsApart
        <5>3. GroupFacts(w.disk[x], tp)
          BY <5>1, SegmentOrdered, GroupRange, WalFields
        <5>4. r.off < EndIn(w.disk[x], tp) /\ EndIn(w.disk[x], tp) \in Nat
          BY <4>1, <5>3 DEF GroupFacts
        <5> HIDE DEF r
        <5> QED
          BY <1>1, <3>3, <5>2, <5>4
      <4> QED
        BY <4>2, <4>3, <4>4
    <3> HIDE DEF r
    <3>5. HotAt(new, r)
      BY <1>3, <1>4, <3>2, <3>3, <3>4 DEF HotAt
    <3> QED
      BY <3>5 DEF r
  <2>2. ASSUME NEW p \in Producers, prods[p].pc = "wal" PROVE HotAt(new, Head(prods[p].todo))
    <3> DEFINE r == Head(prods[p].todo)
    <3>1. HotAt(idx, r)
      BY <1>2, <2>2 DEF HotComplete
    <3>2. r.off \in Nat /\ (r.tp = tp => hi <= r.off) /\ r.tp \in Partitions
      BY <2>2 DEF FlightsPast
    <3> HIDE DEF r
    <3>4. HotAt(new, r)
      BY <1>1, <1>3, <1>4, <3>1, <3>2 DEF HotAt
    <3> QED
      BY <3>4 DEF r
  <2> QED
    BY <2>1, <2>2 DEF HotComplete
<1>9. PastCold(new)
  <2>1. SUFFICES ASSUME NEW q \in Partitions, NEW a \in DOMAIN new.parts[q].cold
                 PROVE  new.parts[q].cold[a].end <= new.parts[q].next_offset
    BY DEF PastCold
  <2>2. CASE q # tp
    BY <1>2, <1>3, <2>2 DEF PastCold
  <2>3. CASE q = tp /\ a = lo
    BY <1>4, <2>3 DEF Stored
  <2>4. CASE q = tp /\ a # lo
    <3>1. a \in DOMAIN idx.parts[tp].cold /\ new.parts[tp].cold[a] = idx.parts[tp].cold[a]
      BY <1>4, <2>4 DEF Stored
    <3>2. idx.parts[tp].cold[a].end <= idx.parts[tp].next_offset
      BY <1>2, <3>1 DEF PastCold
    <3>3. idx.parts[tp].cold[a].end \in Nat /\ idx.parts[tp].next_offset \in Nat /\ new.parts[tp].next_offset \in Nat
      BY <3>1, IndexNaturals
    <3> QED
      BY <1>4, <2>4, <3>1, <3>2, <3>3, AtMost
  <2> QED
    BY <2>2, <2>3, <2>4
<1> QED
  BY <1>7, <1>8, <1>9 DEF HotInv

\* The appends in progress are past every group of the log.
LEMMA FlightsAhead ==
    ASSUME StoreTyped, MergeInv, NEW s \in DOMAIN wal.disk, NEW tp \in Partitions, GroupFacts(wal.disk[s], tp)
    PROVE  FlightsPast(producer, tp, EndIn(wal.disk[s], tp))
<1>1. SUFFICES ASSUME NEW p \in Producers, producer[p].pc = "wal"
               PROVE  /\ Head(producer[p].todo).tp \in Partitions /\ Head(producer[p].todo).off \in Nat
                      /\ Head(producer[p].todo).tp = tp => EndIn(wal.disk[s], tp) <= Head(producer[p].todo).off
  BY DEF FlightsPast
<1> DEFINE r == Head(producer[p].todo)
<1>2. NextRecord(producer[p]) /\ Below(r.tp, r.off, wal.disk, manifest.live)
  BY <1>1, OrderAt DEF MergeInv, Appending
<1>3. r.tp \in Partitions /\ r.off \in Nat
  BY <1>2, RecordFields DEF NextRecord
<1>4. PICK i \in 1 .. Len(wal.disk[s]) : wal.disk[s][i].tp = tp /\ wal.disk[s][i].off + 1 = EndIn(wal.disk[s], tp)
  BY DEF GroupFacts
<1>5. wal.disk[s][i].off \in Nat
  BY MapsTyped, DiskRecords
<1>6. r.tp = tp => wal.disk[s][i].off < r.off
  BY <1>2, <1>4 DEF Below
<1> DEFINE x == wal.disk[s][i].off
           e == EndIn(wal.disk[s], tp)
<1>7. x \in Nat /\ x + 1 = e /\ (r.tp = tp => x < r.off)
  BY <1>4, <1>5, <1>6
<1> HIDE DEF r, x, e
<1>8. r.tp = tp => e <= r.off
  BY <1>3, <1>7
<1> QED
  BY <1>3, <1>8 DEF r, e

LEMMA ArchivedRanges ==
    ASSUME NEW cold, NEW objs, NEW cold2, RangesKept(cold2, cold)
    PROVE  ArchivedStays(cold, objs, cold2, objs)
BY RecordFields DEF ArchivedStays, Archived, RangesKept, Covers

\* TierFlip.
LEMMA ContentTierFlip ==
    ASSUME StoreTyped, StoreTyped', MergeInv, ContentInv, TierFlip
    PROVE  ContentInv'
<1> DEFINE s == tier.queue[1]
           seg == wal.disk[s]
           tp == tier.tp
           lo == WorkStart(tier, wal.disk)
           hi == WorkEnd(tier, wal.disk)
           rng == WorkRange(tier, wal.disk)
<1>1. /\ tier.pc = "flip" /\ WorkGroup /\ tp \in tier.todo
      /\ UNCHANGED <<wal, manifest, objects, producer, compact, acked>>
      /\ Flipped(index', index, tp, lo, hi, rng)
      /\ tier'.pc = "group" /\ tier'.queue = tier.queue /\ tier'.todo = tier.todo \ {tp}
  BY TierFlips
<1>2. s \in DOMAIN wal.disk /\ tp \in Partitions /\ tp \in TpsOf(seg) /\ GroupFacts(seg, tp)
  BY <1>1 DEF WorkGroup
<1>3. lo = StartIn(seg, tp) /\ hi = EndIn(seg, tp)
  BY DEF WorkStart, WorkEnd
<1>4. WalOK(wal) /\ InOrder(wal.disk) /\ Exact(index) /\ Exact(index')
  BY DEF StoreTyped, MergeInv, LogOrder
<1>5. FlightsPast(producer, tp, hi)
  BY <1>2, <1>3, FlightsAhead
<1>6. tier.pc \in {"group"} \cup Working /\ tier'.pc \in {"group"} \cup Working
  BY <1>1 DEF Working
<1>7. HotInv(index, wal.disk, tier, producer) /\ Stocked(tier, wal.disk, objects)
  BY DEF ContentInv, BodiesInv
<1>8. HotInv(index', wal.disk, tier', producer)
  <2> DEFINE new == index'
             t2 == tier'
  <2>1. /\ Flipped(new, index, tp, lo, hi, rng) /\ t2.queue = tier.queue /\ t2.todo = tier.todo \ {tp} /\ Exact(new)
        /\ t2.pc \in {"group"} \cup Working
    BY <1>1, <1>4, <1>6
  <2> HIDE DEF new, t2, lo, hi, rng, tp
  <2>2. HotInv(new, wal.disk, t2, producer)
    BY <1>1, <1>2, <1>3, <1>4, <1>5, <1>6, <1>7, <2>1, FlipHot DEF s
  <2> QED
    BY <2>2 DEF new, t2
<1>9. PresentStays(wal.disk, tier, ColdOf(index), objects, wal'.disk, tier', ColdOf(index'), objects')
  <2>1. SUFFICES ASSUME NEW r \in Record, Present(r, wal.disk, tier, ColdOf(index), objects)
                 PROVE  Present(r, wal.disk, tier', ColdOf(index'), objects)
    BY <1>1 DEF PresentStays
  <2>2. CASE Archived(r, ColdOf(index), objects)
    BY <2>2, FlipRanges, ArchivedRanges DEF ArchivedStays, Present
  <2>3. CASE Waiting(r, wal.disk, tier)
    <3>1. PICK x \in DOMAIN wal.disk : Has(wal.disk[x], r) /\ ~ Evicted(tier, x, r.tp)
      BY <2>3 DEF Waiting
    <3>2. CASE x = s /\ r.tp = tp
      <4>1. PICK i \in 1 .. Len(seg) : seg[i] = r
        BY <3>1, <3>2 DEF Has
      <4>2. lo <= r.off /\ r.off < hi /\ Has(GroupIn(seg, tp), r)
        BY <1>2, <1>3, <3>2, <4>1 DEF GroupFacts
      <4>3. /\ lo \in DOMAIN ColdOf(index')[tp] /\ ColdOf(index')[tp][lo] = rng
        BY FlipRanges
      <4>4. rng.end = hi /\ rng.key = KeyIn(seg, tp)
        BY DEF WorkRange, ObjectRange, WorkEnd
      <4>5. KeyIn(seg, tp) \in DOMAIN objects /\ objects[KeyIn(seg, tp)] = GroupIn(seg, tp)
        BY <1>1, <1>7 DEF Stocked
      <4> HIDE DEF lo, hi, rng, seg, tp
      <4>6. Archived(r, ColdOf(index'), objects)
        BY <3>2, <4>2, <4>3, <4>4, <4>5 DEF Archived, Covers
      <4> QED
        BY <4>6 DEF Present
    <3>3. CASE ~ (x = s /\ r.tp = tp)
      <4>1. ~ Evicted(tier', x, r.tp)
        BY <1>1, <3>1, <3>3, <1>6 DEF Evicted
      <4> QED
        BY <3>1, <4>1 DEF Present, Waiting
    <3> QED
      BY <3>2, <3>3
  <2> QED
    BY <2>1, <2>2, <2>3 DEF Present
<1>10. BodiesInv(tier', wal'.disk, compact', objects')
  BY <1>1 DEF ContentInv, BodiesInv, Stocked
<1> QED
  BY <1>1, <1>8, <1>9, <1>10, ContentStays

-------------------------------------------------------------------------------
(* The contents and the steps of the compaction task.                      *)

\* The merged object has the records of the sources, and no others.
LEMMA MergedHas ==
    ASSUME StoreTyped, NEW plan \in Plans, Mergeable(plan)
    PROVE  /\ \A i \in 1 .. Len(MergedRecords(plan)) : \E s \in Sources(plan) :
                 s.key \in DOMAIN objects /\ \E j \in 1 .. Len(objects[s.key]) : MergedRecords(plan)[i] = objects[s.key][j]
           /\ \A s \in Sources(plan) : s.key \in DOMAIN objects /\ Includes(MergedRecords(plan), objects[s.key])
<1> DEFINE src == plan.sources
           keys == [i \in 1 .. Len(src) |-> src[i].key]
           o == MergedRecords(plan)
<1>1. src \in Seq(Segments)
  BY DEF Plans, Merges
<1>2. Len(src) \in Nat /\ DOMAIN src = 1 .. Len(src)
  BY <1>1
<1>3. objects \in [DOMAIN objects -> Seq(Record)]
  BY MapFields DEF StoreTyped, Archives
<1>4. \A s : s \in Sources(plan) <=> \E i \in 1 .. Len(src) : s = src[i]
  BY <1>2 DEF Sources, ToSet
<1>5. \A i \in 1 .. Len(src) : src[i].key \in DOMAIN objects
  BY <1>4 DEF Mergeable, SourceKeys, Sources
<1>6. keys \in Seq(DOMAIN objects) /\ Len(keys) = Len(src) /\ \A i \in 1 .. Len(src) : keys[i] = src[i].key
  BY <1>2, <1>5
<1>7. o = Joined(objects, keys)
  BY DEF MergedRecords
<1> HIDE DEF keys, o, src
<1>8. HasAll(o, objects, keys, Len(src))
  BY <1>3, <1>6, <1>7, JoinFields
<1>9. \A i \in 1 .. Len(o) : \E s \in Sources(plan) :
         s.key \in DOMAIN objects /\ \E j \in 1 .. Len(objects[s.key]) : o[i] = objects[s.key][j]
  <2>1. SUFFICES ASSUME NEW i \in 1 .. Len(o)
                 PROVE \E s \in Sources(plan) :
                          s.key \in DOMAIN objects /\ \E j \in 1 .. Len(objects[s.key]) : o[i] = objects[s.key][j]
    OBVIOUS
  <2>2. PICK n \in 1 .. Len(src) : \E j \in 1 .. Len(objects[keys[n]]) : o[i] = objects[keys[n]][j]
    BY <1>8 DEF HasAll
  <2>3. src[n] \in Sources(plan) /\ keys[n] = src[n].key /\ src[n].key \in DOMAIN objects
    BY <1>4, <1>5, <1>6
  <2> QED
    BY <2>2, <2>3
<1>10. \A s \in Sources(plan) : s.key \in DOMAIN objects /\ Includes(o, objects[s.key])
  <2>1. SUFFICES ASSUME NEW s \in Sources(plan) PROVE s.key \in DOMAIN objects /\ Includes(o, objects[s.key])
    OBVIOUS
  <2>2. PICK n \in 1 .. Len(src) : s = src[n]
    BY <1>4
  <2>3. keys[n] = s.key /\ s.key \in DOMAIN objects
    BY <1>5, <1>6, <2>2
  <2>a. \A j \in 1 .. Len(objects[keys[n]]) : \E a \in 1 .. Len(o) : o[a] = objects[keys[n]][j]
    BY <1>8 DEF HasAll
  <2>4. \A j \in 1 .. Len(objects[s.key]) : \E a \in 1 .. Len(o) : o[a] = objects[s.key][j]
    BY <2>3, <2>a
  <2> QED
    BY <2>3, <2>4 DEF Includes, Has
<1> QED
  BY <1>9, <1>10 DEF o

\* The merged object is neat.
LEMMA MergedNeat ==
    ASSUME StoreTyped, NEW plan \in Plans, Mergeable(plan), AllNeat(objects), PlanSound(plan),
           NEW maps \in [Partitions -> Colds], Filed(maps, objects), SourcesIn(plan, maps)
    PROVE  Neat(MergedKey(plan), MergedRecords(plan))
<1> DEFINE o == MergedRecords(plan)
           ms == MergedStart(plan)
           me == MergedEnd(plan)
           f == maps[plan.tp]
<1>1. plan.tp \in Partitions /\ ms \in Nat /\ me \in Nat /\ MergedKey(plan) = <<plan.tp, ms, me>>
  <2>1. plan.tp \in Partitions /\ ms \in Offsets /\ me \in Ends
    BY MergeFields DEF StoreTyped, Archives
  <2> QED
    BY <2>1, StoreConstants DEF Offsets, Ends, MergedKey, ObjectKey
<1>2. ASSUME NEW s \in Sources(plan), s.key \in DOMAIN objects, NEW j \in 1 .. Len(objects[s.key])
      PROVE  /\ objects[s.key][j].tp = plan.tp /\ s.start <= objects[s.key][j].off /\ objects[s.key][j].off < s.end
             /\ s.start \in Nat /\ s.end \in Nat /\ ms <= s.start /\ s.end <= me
             /\ s.start \in DOMAIN f /\ f[s.start].end = s.end /\ s.key = <<plan.tp, s.start, s.end>>
             /\ objects[s.key][j].off \in Nat
  <2>1. /\ s.start \in Nat /\ s.end \in Nat /\ ms <= s.start /\ s.end <= me /\ s.key = <<plan.tp, s.start, s.end>>
    BY DEF PlanSound, SourceOK, ObjectKey
  <2>2. s.start \in DOMAIN f /\ f[s.start].end = s.end
    BY DEF SourcesIn
  <2>3. Neat(s.key, objects[s.key])
    BY <1>2 DEF AllNeat
  <2>4. objects[s.key][j] \in Record
    BY <1>2, MapFields DEF StoreTyped, Archives
  <2> QED
    BY <1>2, <2>1, <2>2, <2>3, <2>4, RecordFields DEF Neat
<1>3. \A i \in 1 .. Len(o) : o[i].tp = plan.tp /\ ms <= o[i].off /\ o[i].off < me
  <2>1. SUFFICES ASSUME NEW i \in 1 .. Len(o) PROVE o[i].tp = plan.tp /\ ms <= o[i].off /\ o[i].off < me
    OBVIOUS
  <2>2. PICK s \in Sources(plan) : s.key \in DOMAIN objects /\ \E j \in 1 .. Len(objects[s.key]) : o[i] = objects[s.key][j]
    BY MergedHas
  <2>3. PICK j \in 1 .. Len(objects[s.key]) : o[i] = objects[s.key][j]
    BY <2>2
  <2> DEFINE x == objects[s.key][j]
  <2>4. /\ x.tp = plan.tp /\ s.start <= x.off /\ x.off < s.end /\ x.off \in Nat
        /\ s.start \in Nat /\ s.end \in Nat /\ ms <= s.start /\ s.end <= me
    BY <1>2, <2>2
  <2> HIDE DEF x, ms, me
  <2>5. ms <= x.off /\ x.off < me
    BY <1>1, <2>4
  <2> QED
    BY <2>3, <2>4, <2>5 DEF x
<1>4. \A i, k \in 1 .. Len(o) : o[i].off = o[k].off => o[i] = o[k]
  <2>1. SUFFICES ASSUME NEW i \in 1 .. Len(o), NEW k \in 1 .. Len(o), o[i].off = o[k].off PROVE o[i] = o[k]
    OBVIOUS
  <2>2. PICK s \in Sources(plan) : s.key \in DOMAIN objects /\ \E j \in 1 .. Len(objects[s.key]) : o[i] = objects[s.key][j]
    BY MergedHas
  <2>3. PICK j \in 1 .. Len(objects[s.key]) : o[i] = objects[s.key][j]
    BY <2>2
  <2>4. PICK t \in Sources(plan) : t.key \in DOMAIN objects /\ \E l \in 1 .. Len(objects[t.key]) : o[k] = objects[t.key][l]
    BY MergedHas
  <2>5. PICK l \in 1 .. Len(objects[t.key]) : o[k] = objects[t.key][l]
    BY <2>4
  <2> DEFINE x == objects[s.key][j].off
  <2>6. x = objects[t.key][l].off
    BY <2>1, <2>3, <2>5
  <2>7. /\ s.start <= x /\ x < s.end /\ s.start \in DOMAIN f /\ f[s.start].end = s.end /\ s.key = <<plan.tp, s.start, s.end>>
        /\ s.start \in Nat /\ s.end \in Nat /\ x \in Nat
    BY <1>2, <2>2
  <2>8. /\ t.start <= x /\ x < t.end /\ t.start \in DOMAIN f /\ f[t.start].end = t.end /\ t.key = <<plan.tp, t.start, t.end>>
        /\ t.start \in Nat /\ t.end \in Nat
    BY <1>2, <2>4, <2>6
  <2>9. \A a \in DOMAIN f : \A b \in DOMAIN f : a < b => f[a].end <= b
    BY <1>1 DEF Filed, FiledIn
  <2> HIDE DEF x, f
  <2>10. s.start = t.start
    <3>1. ~ (s.start < t.start)
      BY <2>7, <2>8, <2>9
    <3>2. ~ (t.start < s.start)
      BY <2>7, <2>8, <2>9
    <3> QED
      BY <2>7, <2>8, <3>1, <3>2
  <2>11. s.key = t.key
    BY <2>7, <2>8, <2>10
  <2>12. Neat(s.key, objects[s.key])
    BY <2>2 DEF AllNeat
  <2>13. \A m, n \in 1 .. Len(objects[s.key]) : objects[s.key][m].off = objects[s.key][n].off => objects[s.key][m] = objects[s.key][n]
    BY <2>12 DEF Neat
  <2> QED
    BY <2>3, <2>5, <2>6, <2>11, <2>13 DEF x
<1> HIDE DEF o, ms, me
<1> QED
  BY <1>1, <1>3, <1>4 DEF Neat, o

\* A step of the compaction task that leaves the index alone.
LEMMA ContentCompact ==
    ASSUME StoreTyped, MergeInv, ContentInv, UNCHANGED <<index, wal, tier, producer, acked>>,
           ObjectsKept(objects', objects, ColdOf(index)), BodiesInv(tier, wal.disk, compact', objects')
    PROVE  ContentInv'
<1>1. WaitKept(wal.disk, tier, wal.disk, tier)
  BY DEF WaitKept
<1>2. PresentStays(wal.disk, tier, ColdOf(index), objects, wal.disk, tier, ColdOf(index), objects')
  BY <1>1, ArchivedObjects, WaitingAndArchived
<1>3. HotInv(index, wal.disk, tier, producer)
  BY DEF ContentInv
<1> QED
  BY <1>2, <1>3, ContentStays

\* CompactCycle and CompactRecord.
LEMMA ContentCycle ==
    ASSUME StoreTyped, MergeInv, ContentInv, CompactCycle \/ CompactRecord
    PROVE  ContentInv'
<1>1. UNCHANGED <<index, wal, objects, tier, producer, acked>>
  BY DEF CompactCycle, CompactRecord, storage, history
<1>2. ObjectsKept(objects', objects, ColdOf(index))
  BY <1>1, IndexedObjects
<1>3. CASE CompactCycle
  <2>1. compact'.pc = "execute"
    BY <1>3 DEF CompactCycle
  <2>2. BodiesInv(tier, wal.disk, compact', objects')
    BY <1>1, <2>1 DEF ContentInv, BodiesInv, Combined
  <2> QED
    BY <1>1, <1>2, <2>2, ContentCompact
<1>4. CASE CompactRecord
  <2>1. compact.pc = "record" /\ compact' = [compact EXCEPT !.pc = "replace"]
    BY <1>4 DEF CompactRecord
  <2>2. compact'.plan = compact.plan
    BY <2>1 DEF StoreTyped, CompactOK
  <2>3. BodiesInv(tier, wal.disk, compact', objects')
    BY <1>1, <2>1, <2>2 DEF ContentInv, BodiesInv, Combined
  <2> QED
    BY <1>1, <1>2, <2>3, ContentCompact
<1> QED
  BY <1>3, <1>4

\* No range has the key of a merge whose sources are ranges.
LEMMA MergedUnnamed ==
    ASSUME NEW maps, NEW objs, Filed(maps, objs), NEW plan, PlanSound(plan), SourcesIn(plan, maps)
    PROVE  NoneNamed(maps, {MergedKey(plan)}) /\ MergedStart(plan) \in DOMAIN maps[plan.tp]
<1>1. PICK s \in Sources(plan) : s.start = MergedStart(plan)
  BY DEF PlanSound
<1>2. s.end # MergedEnd(plan)
  BY <1>1 DEF PlanSound, SourceOK
<1>3. MergedStart(plan) \in DOMAIN maps[plan.tp] /\ maps[plan.tp][MergedStart(plan)].end # MergedEnd(plan)
  BY <1>1, <1>2 DEF SourcesIn
<1>4. ASSUME NEW tp \in Partitions, NEW a \in DOMAIN maps[tp], maps[tp][a].key = MergedKey(plan)
      PROVE  FALSE
  <2>1. maps[tp][a].key = <<tp, a, maps[tp][a].end>> /\ MergedKey(plan) = <<plan.tp, MergedStart(plan), MergedEnd(plan)>>
    BY DEF Filed, FiledIn, ObjectKey, MergedKey
  <2> DEFINE e == maps[tp][a].end
             ms == MergedStart(plan)
             me == MergedEnd(plan)
  <2>2. <<tp, a, e>> = <<plan.tp, ms, me>>
    BY <1>4, <2>1
  <2> HIDE DEF e, ms, me
  <2>3. tp = plan.tp /\ a = ms /\ e = me
    BY <2>2
  <2> QED
    BY <1>3, <2>3 DEF e, ms, me
<1> QED
  BY <1>3, <1>4 DEF NoneNamed

\* The group in work is not the merge of a plan, nor one of its sources unless it is registered.
LEMMA GroupNotMerged ==
    ASSUME StoreTyped, MergeInv, NEW plan \in compact.plans, compact.pc = "execute", tier.pc \in Working
    PROVE  KeyIn(wal.disk[tier.queue[1]], tier.tp) # MergedKey(plan)
<1> DEFINE k == KeyIn(wal.disk[tier.queue[1]], tier.tp)
           a == WorkStart(tier, wal.disk)
<1>1. /\ Filed(manifest.live, objects) /\ Merger(compact, manifest.live, ColdOf(index), objects)
      /\ Uploader(tier, wal.disk, manifest.live, ColdOf(index), objects)
  BY DEF MergeInv, ColdInv
<1>2. PlanSound(plan) /\ SourcesIn(plan, manifest.live)
  BY <1>1 DEF Merger
<1>3. NoneNamed(manifest.live, {MergedKey(plan)}) /\ MergedStart(plan) \in DOMAIN manifest.live[plan.tp]
  BY <1>1, <1>2, MergedUnnamed
<1>4. k = <<tier.tp, a, WorkEnd(tier, wal.disk)>> /\ MergedKey(plan) = <<plan.tp, MergedStart(plan), MergedEnd(plan)>>
  BY DEF KeyIn, ObjectKey, WorkStart, WorkEnd, MergedKey
<1>5. CASE tier.pc = "flip"
  <2>1. a \in DOMAIN manifest.live[tier.tp] /\ manifest.live[tier.tp][a].key = k
    BY <1>1, <1>5 DEF Uploader, WorkRange, ObjectRange
  <2>2. tier.tp \in Partitions
    BY MergingGroup DEF WorkGroup
  <2> QED
    BY <1>3, <2>1, <2>2 DEF NoneNamed
<1>6. CASE tier.pc # "flip"
  <2>1. a \notin DOMAIN manifest.live[tier.tp]
    BY <1>6, GroupFresh
  <2> HIDE DEF k, a
  <2> QED
    BY <1>3, <1>4, <2>1 DEF k
<1> QED
  BY <1>5, <1>6

\* CompactUpload.
LEMMA ContentCompactUpload ==
    ASSUME StoreTyped, MergeInv, ContentInv, NEW plan \in compact.plans, CompactUpload(plan)
    PROVE  ContentInv'
<1>1. UNCHANGED <<index, wal, tier, producer, acked>> /\ compact.pc = "execute"
  BY DEF CompactUpload, history
<1>2. plan \in Plans /\ objects \in Maps(Keys, Seq(Record)) /\ ColdOf(index) \in [Partitions -> Colds]
  BY MapsTyped DEF StoreTyped, Archives
<1>3. /\ Filed(ColdOf(index), objects) /\ Merger(compact, manifest.live, ColdOf(index), objects)
  BY DEF MergeInv, ColdInv
<1>4. PlanSound(plan) /\ SourcesIn(plan, ColdOf(index))
  BY <1>1, <1>3 DEF Merger
<1>5. AllNeat(objects) /\ Stocked(tier, wal.disk, objects)
  BY DEF ContentInv, BodiesInv
<1>6. CASE Mergeable(plan)
  <2> DEFINE k == MergedKey(plan)
             o == MergedRecords(plan)
  <2>1. objects' = Put(objects, k, o) /\ compact'.pc = "record" /\ compact'.plan = plan
    BY <1>6 DEF CompactUpload
  <2>2. k \in Keys /\ o \in Seq(Record)
    BY <1>2, <1>6, MergeFields
  <2>3. Stored(objects', objects, k, o)
    BY <1>2, <2>1, <2>2, PutFields
  <2>4. Neat(k, o)
    BY <1>2, <1>3, <1>4, <1>5, <1>6, MergedNeat
  <2>5. \A s \in Sources(plan) : s.key \in DOMAIN objects /\ Includes(o, objects[s.key])
    BY <1>2, <1>6, MergedHas
  <2>6. \A s \in Sources(plan) : s.key # k
    BY <1>4 DEF PlanSound, SourceOK, MergedKey, ObjectKey
  <2>7. tier.pc \in Working => KeyIn(wal.disk[tier.queue[1]], tier.tp) # k
    BY <1>1, GroupNotMerged
  <2>8. NoneNamed(ColdOf(index), {k})
    BY <1>3, <1>4, MergedUnnamed
  <2> HIDE DEF k, o
  <2>9. OthersKept(objects', objects, k) /\ k \in DOMAIN objects' /\ objects'[k] = o
    BY <2>3, StoredOthers
  <2>10. ObjectsKept(objects', objects, ColdOf(index))
    BY <1>3, <2>8, <2>9, UnnamedKept
  <2>11. AllNeat(objects')
    BY <1>5, <2>3, <2>4, AllNeatStored
  <2>12. Stocked(tier, wal.disk, objects')
    BY <1>5, <2>7, <2>9 DEF Stocked, OthersKept, Working
  <2>13. MergedAll(plan, objects')
    BY <2>5, <2>6, <2>9 DEF MergedAll, OthersKept, k
  <2>14. BodiesInv(tier, wal.disk, compact', objects')
    BY <2>1, <2>11, <2>12, <2>13 DEF BodiesInv, Combined
  <2> QED
    BY <1>1, <2>10, <2>14, ContentCompact
<1>7. CASE ~ Mergeable(plan)
  <2>1. objects' = objects /\ compact' = PlanDone(plan)
    BY <1>7 DEF CompactUpload
  <2>2. compact'.pc \in {"idle", "execute"}
    BY <2>1 DEF PlanDone
  <2>3. BodiesInv(tier, wal.disk, compact', objects')
    BY <1>5, <2>1, <2>2 DEF BodiesInv, Combined
  <2>4. ObjectsKept(objects', objects, ColdOf(index))
    BY <2>1, IndexedObjects
  <2> QED
    BY <1>1, <2>3, <2>4, ContentCompact
<1> QED
  BY <1>6, <1>7
\* CompactDelete.
LEMMA ContentCompactDelete ==
    ASSUME StoreTyped, MergeInv, ContentInv, CompactDelete
    PROVE  ContentInv'
<1> DEFINE plan == compact.plan
           K == SourceKeys(plan)
           seg == wal.disk[tier.queue[1]]
<1>1. UNCHANGED <<index, wal, tier, producer, acked>> /\ compact.pc = "delete"
  BY DEF CompactDelete, history
<1>2. objects' = Without(objects, K) /\ compact' = PlanDone(plan)
  BY DEF CompactDelete
<1>3. compact'.pc \in {"idle", "execute"}
  BY <1>2 DEF PlanDone
<1>4. Remains(objects', objects, K)
  BY <1>2, WithoutFields DEF StoreTyped, Archives
<1>5. /\ manifest.live \in [Partitions -> Colds] /\ ColdOf(index) \in [Partitions -> Colds] /\ compact.plans \subseteq Plans
  BY MapsTyped
<1>6. /\ Filed(manifest.live, objects) /\ Filed(ColdOf(index), objects) /\ Merger(compact, manifest.live, ColdOf(index), objects)
      /\ Uploader(tier, wal.disk, manifest.live, ColdOf(index), objects)
  BY DEF MergeInv, ColdInv
<1>7. plan \in Plans /\ PlanSound(plan) /\ MergedIn(plan, compact.size, manifest.live) /\ MergedIn(plan, compact.size, ColdOf(index))
  BY <1>1, <1>5, <1>6 DEF Merger
<1> HIDE DEF K, plan
<1>8. NoneNamed(manifest.live, K) /\ NoneNamed(ColdOf(index), K)
  BY <1>5, <1>6, <1>7, SourceKeysGone DEF K
<1>9. ObjectsKept(objects', objects, ColdOf(index))
  BY <1>4, <1>6, <1>8 DEF ObjectsKept, Remains, NoneNamed, Filed, FiledIn
<1>10. AllNeat(objects')
  BY <1>4, AllNeatRemains DEF ContentInv, BodiesInv
<1>11. tier.pc \in Working => KeyIn(seg, tier.tp) \notin K
  <2>1. SUFFICES ASSUME tier.pc \in Working, KeyIn(seg, tier.tp) \in K PROVE FALSE
    OBVIOUS
  <2>2. WorkGroup
    BY <2>1, MergingGroup
  <2>3. CASE tier.pc = "flip"
    <3>1. WorkStart(tier, wal.disk) \in DOMAIN manifest.live[tier.tp] /\ manifest.live[tier.tp][WorkStart(tier, wal.disk)].key = KeyIn(seg, tier.tp)
      BY <1>6, <2>3 DEF Uploader, WorkRange, ObjectRange
    <3> QED
      BY <1>8, <2>1, <2>2, <3>1 DEF NoneNamed, WorkGroup
  <2>4. CASE tier.pc # "flip"
    <3> DEFINE a == WorkStart(tier, wal.disk)
               e == WorkEnd(tier, wal.disk)
    <3>1. Clear(a, e, manifest.live[tier.tp])
      BY <2>1, <2>4, MergingGroup
    <3>2. a \in Nat /\ e \in Nat /\ a < e
      BY <2>2 DEF WorkGroup, GroupFacts, WorkStart, WorkEnd
    <3>3. KeyIn(seg, tier.tp) = <<tier.tp, a, e>>
      BY DEF KeyIn, ObjectKey, WorkStart, WorkEnd
    <3>4. PICK s \in Sources(plan) : KeyIn(seg, tier.tp) = ObjectKey(plan.tp, s.start, s.end) /\ SourceOK(s, plan)
      BY <1>7, <2>1, SourceKey DEF K
    <3> HIDE DEF a, e
    <3>5. tier.tp = plan.tp /\ a = s.start /\ e = s.end
      BY <3>3, <3>4 DEF ObjectKey
    <3>6. MergedStart(plan) \in DOMAIN manifest.live[plan.tp] /\ manifest.live[plan.tp][MergedStart(plan)].end = MergedEnd(plan)
      BY <1>7 DEF MergedIn, ObjectRange
    <3>7. MergedEnd(plan) <= a \/ e <= MergedStart(plan)
      BY <3>1, <3>5, <3>6 DEF Clear
    <3>8. MergedStart(plan) <= s.start /\ s.start < s.end /\ s.end <= MergedEnd(plan)
      BY <3>4 DEF SourceOK
    <3>9. MergedStart(plan) \in Nat /\ MergedEnd(plan) \in Nat
      <4>1. objects \in Maps(Keys, Seq(Record))
        BY DEF StoreTyped, Archives
      <4>2. MergedStart(plan) \in Offsets /\ MergedEnd(plan) \in Ends
        BY <1>7, <4>1, MergeFields
      <4> QED
        BY <4>2, StoreConstants DEF Offsets, Ends
    <3> QED
      BY <3>2, <3>5, <3>7, <3>8, <3>9
  <2> QED
    BY <2>3, <2>4
<1>12. Stocked(tier, wal.disk, objects')
  <2>1. Stocked(tier, wal.disk, objects)
    BY DEF ContentInv, BodiesInv
  <2> QED
    BY <1>4, <1>11, <2>1 DEF Stocked, Remains, Working
<1>13. BodiesInv(tier, wal.disk, compact', objects')
  BY <1>3, <1>10, <1>12 DEF BodiesInv, Combined
<1> QED
  BY <1>1, <1>9, <1>13, ContentCompact
\* A record of a source is in the merged object.
LEMMA ArchivedInMerge ==
    ASSUME NEW maps \in [Partitions -> Colds], NEW objs, Filed(maps, objs), NEW plan \in Plans, plan.tp \in Partitions,
           PlanSound(plan), SourcesIn(plan, maps), MergedAll(plan, objs), NEW new, NEW size, MergedIn(plan, size, new),
           NEW r \in Record, r.tp = plan.tp, NEW a \in DOMAIN maps[plan.tp], MergedStart(plan) <= a, a < MergedEnd(plan),
           Covers(maps[plan.tp], a, r.off), maps[plan.tp][a].key \in DOMAIN objs, Has(objs[maps[plan.tp][a].key], r)
    PROVE  Archived(r, new, objs)
<1> DEFINE f == maps[plan.tp]
           ms == MergedStart(plan)
           me == MergedEnd(plan)
           k == MergedKey(plan)
           o == r.off
<1>1. Disjoint(f) /\ FiledIn(plan.tp, f, objs)
  BY FiledDisjoint
<1>2. Tiled(f, ms, me)
  BY SourcesTile
<1>3. CoveredBy(plan) /\ \A s \in Sources(plan) : SourceOK(s, plan)
  BY DEF PlanSound
<1>4. \A s \in Sources(plan) : s.start \in DOMAIN f /\ f[s.start].end = s.end
  BY DEF SourcesIn
<1>5. a \in Offsets
  BY DEF Colds, Maps
<1>6. PICK s \in Sources(plan) : s.start <= a /\ a < s.end
  BY <1>3, <1>5 DEF CoveredBy
<1>7. s.start \in DOMAIN f /\ f[s.start].end = s.end /\ s.key = ObjectKey(plan.tp, s.start, s.end)
  BY <1>3, <1>4 DEF SourceOK
<1>8. k \in DOMAIN objs /\ (s.key \in DOMAIN objs => Includes(objs[k], objs[s.key]))
  BY DEF MergedAll
<1>9. ms \in DOMAIN new[plan.tp] /\ new[plan.tp][ms].end = me /\ new[plan.tp][ms].key = k
  BY DEF MergedIn, ObjectRange
<1>10. o \in Nat
  BY RecordFields
<1>11. a <= o /\ o < f[a].end
  BY DEF Covers
<1>12. ms <= a /\ a < me /\ a \in DOMAIN f
  OBVIOUS
<1> HIDE DEF f, ms, me, k, o
<1>13. s.start = a
  BY <1>1, <1>6, <1>7, <1>12 DEF Disjoint, Numbered
<1>14. f[a].key = s.key
  BY <1>1, <1>7, <1>12, <1>13 DEF FiledIn
<1>15. f[a].end <= me
  BY <1>1, <1>2, <1>12, TileEnds
<1>16. ms <= o /\ o < me
  <2>1. a \in Nat /\ f[a].end \in Nat
    BY <1>1, <1>12 DEF Disjoint, Numbered
  <2>2. ms \in Nat /\ me \in Nat
    BY <1>2 DEF Tiled
  <2> QED
    BY <1>10, <1>11, <1>12, <1>15, <2>1, <2>2
<1>17. Has(objs[k], r)
  <2>1. Includes(objs[k], objs[s.key]) /\ Has(objs[s.key], r)
    BY <1>8, <1>14 DEF f
  <2> QED
    BY <2>1 DEF Includes, Has
<1>18. Covers(new[r.tp], ms, r.off) /\ new[r.tp][ms].key = k /\ ms \in DOMAIN new[r.tp]
  BY <1>9, <1>16 DEF Covers, o
<1> QED
  BY <1>8, <1>17, <1>18 DEF Archived

\* The swap keeps what is archived.
LEMMA ArchivedMerged ==
    ASSUME NEW new, NEW maps, NEW objs, NEW plan, NEW size, Merge(new, maps, objs, plan, size), MergedAll(plan, objs)
    PROVE  ArchivedStays(maps, objs, new, objs)
<1> SUFFICES ASSUME NEW r \in Record, Archived(r, maps, objs) PROVE Archived(r, new, objs)
  BY DEF ArchivedStays
<1>1. PICK a \in DOMAIN maps[r.tp] :
         Covers(maps[r.tp], a, r.off) /\ maps[r.tp][a].key \in DOMAIN objs /\ Has(objs[maps[r.tp][a].key], r)
  BY DEF Archived
<1>2. r.tp \in Partitions
  BY RecordFields
<1>3. MergedAt(new, maps, plan, size)
  BY DEF Merge
<1>4. CASE r.tp # plan.tp
  BY <1>1, <1>2, <1>3, <1>4 DEF MergedAt, Archived
<1>5. CASE r.tp = plan.tp /\ ~ (MergedStart(plan) <= a /\ a < MergedEnd(plan))
  <2>1. a \in DOMAIN new[r.tp] /\ new[r.tp][a] = maps[r.tp][a]
    BY <1>1, <1>3, <1>5 DEF MergedAt, MergedMap
  <2> QED
    BY <1>1, <2>1 DEF Archived, Covers
<1>6. CASE r.tp = plan.tp /\ MergedStart(plan) <= a /\ a < MergedEnd(plan)
  <2>1. MergedIn(plan, size, new)
    BY MergeOne
  <2>2. /\ plan \in Plans /\ plan.tp \in Partitions /\ PlanSound(plan) /\ maps \in [Partitions -> Colds] /\ Filed(maps, objs)
        /\ SourcesIn(plan, maps)
    BY DEF Merge
  <2>3. /\ a \in DOMAIN maps[plan.tp] /\ Covers(maps[plan.tp], a, r.off) /\ maps[plan.tp][a].key \in DOMAIN objs
        /\ Has(objs[maps[plan.tp][a].key], r)
    BY <1>1, <1>6
  <2> QED
    BY <1>6, <2>1, <2>2, <2>3, ArchivedInMerge
<1> QED
  BY <1>4, <1>5, <1>6

\* What the index has archived, the manifest has.
LEMMA ArchivedInManifest ==
    ASSUME StoreTyped, MergeInv, ContentInv
    PROVE  \A r \in Record : Archived(r, ColdOf(index), objects) =>
              Archived(r, manifest.live, objects)
<1> SUFFICES ASSUME NEW r \in Record, Archived(r, ColdOf(index), objects) PROVE Archived(r, manifest.live, objects)
  OBVIOUS
<1> DEFINE maps == ColdOf(index)
           live == manifest.live
           plan == compact.plan
<1>1. PICK a \in DOMAIN maps[r.tp] :
         Covers(maps[r.tp], a, r.off) /\ maps[r.tp][a].key \in DOMAIN objects /\ Has(objects[maps[r.tp][a].key], r)
  BY DEF Archived
<1>2. r.tp \in Partitions
  BY RecordFields
<1>3. ColdInv(live, maps, objects, manifest.orphans, tier, wal.disk, compact) /\ Combined(compact, objects)
  BY DEF MergeInv, ContentInv, BodiesInv
<1>4. maps \in [Partitions -> Colds] /\ compact.plans \subseteq Plans
  BY MapsTyped
<1> HIDE DEF maps, live
<1>5. CASE a \in DOMAIN live[r.tp] /\ live[r.tp][a] = maps[r.tp][a]
  <2>1. Covers(live[r.tp], a, r.off)
    BY <1>1, <1>5 DEF Covers
  <2>2. Archived(r, live, objects)
    BY <1>1, <1>5, <2>1 DEF Archived
  <2> QED
    BY <2>2 DEF live
<1>6. CASE Swapping(compact, r.tp, a)
  <2>1. compact.pc = "replace" /\ r.tp = plan.tp /\ MergedStart(plan) <= a /\ a < MergedEnd(plan)
    BY <1>6 DEF Swapping
  <2>2. Merger(compact, live, maps, objects) /\ Filed(maps, objects)
    BY <1>3 DEF ColdInv
  <2>3. plan \in Plans /\ PlanSound(plan) /\ SourcesIn(plan, maps) /\ MergedIn(plan, compact.size, live)
    BY <1>4, <2>1, <2>2 DEF Merger
  <2>4. MergedAll(plan, objects)
    BY <1>3, <2>1 DEF Combined
  <2> HIDE DEF plan
  <2>5. /\ a \in DOMAIN maps[plan.tp] /\ Covers(maps[plan.tp], a, r.off) /\ maps[plan.tp][a].key \in DOMAIN objects
        /\ Has(objects[maps[plan.tp][a].key], r) /\ plan.tp \in Partitions
    BY <1>1, <1>2, <2>1
  <2>6. Archived(r, live, objects)
    BY <1>4, <2>1, <2>2, <2>3, <2>4, <2>5, ArchivedInMerge
  <2> QED
    BY <2>6 DEF live
<1> QED
  BY <1>1, <1>2, <1>3, <1>5, <1>6 DEF ColdInv, Mirrors

\* Memory, when the index has other ranges, that it is past.
LEMMA HotReplaced ==
    ASSUME NEW idx, NEW new, NEW disk, NEW t, NEW prods, Exact(idx), Exact(new), HotInv(idx, disk, t, prods), PastCold(new),
           \A tp \in Partitions : /\ new.parts[tp].hot = idx.parts[tp].hot
                                  /\ idx.parts[tp].next_offset <= new.parts[tp].next_offset,
           \A s \in DOMAIN disk : \A i \in 1 .. Len(disk[s]) : disk[s][i].tp \in Partitions,
           \A p \in Producers : prods[p].pc = "wal" => Head(prods[p].todo).tp \in Partitions
    PROVE  HotInv(new, disk, t, prods)
<1>1. HotBacked(new, disk, t, prods)
  <2>1. SUFFICES ASSUME NEW tp \in Partitions, NEW o \in DOMAIN new.parts[tp].hot
                 PROVE  /\ new.parts[tp].hot[o].tp = tp /\ new.parts[tp].hot[o].off = o /\ o < new.parts[tp].next_offset
                        /\ Waiting(new.parts[tp].hot[o], disk, t) \/ InFlight(prods, new.parts[tp].hot[o])
    BY DEF HotBacked
  <2>2. new.parts[tp].hot = idx.parts[tp].hot /\ idx.parts[tp].next_offset <= new.parts[tp].next_offset
    OBVIOUS
  <2>3. /\ idx.parts[tp].hot[o].tp = tp /\ idx.parts[tp].hot[o].off = o /\ o < idx.parts[tp].next_offset
        /\ Waiting(idx.parts[tp].hot[o], disk, t) \/ InFlight(prods, idx.parts[tp].hot[o])
    BY <2>2 DEF HotInv, HotBacked
  <2>4. o \in Nat /\ idx.parts[tp].next_offset \in Nat /\ new.parts[tp].next_offset \in Nat
    BY <2>2, IndexNaturals
  <2> QED
    BY <2>2, <2>3, <2>4
<1>2. HotComplete(new, disk, t, prods)
  BY DEF HotInv, HotComplete, HotAt
<1> QED
  BY <1>1, <1>2 DEF HotInv
\* What CompactReplace changes of memory.
LEMMA ReplacedMemory ==
    ASSUME StoreTyped, MergeInv, CompactReplace
    PROVE  \A tp \in Partitions :
              /\ index'.parts[tp].hot = index.parts[tp].hot
              /\ index.parts[tp].next_offset <= index'.parts[tp].next_offset
              /\ tp = compact.plan.tp => MergedEnd(compact.plan) <= index'.parts[tp].next_offset
<1> DEFINE plan == compact.plan
           tp == plan.tp
           a == MergedStart(plan)
           b == MergedEnd(plan)
           k == MergedKey(plan)
           n == compact.size
           base == Without(index.parts[tp].cold, KeysIn(index.parts[tp].cold, a, b))
<1>1. plan \in Plans /\ n \in Nat
  BY CompactFields DEF MergeInv, ColdInv, Merger, CompactReplace
<1>2. Exact(index) /\ objects \in Maps(Keys, Seq(Record))
  BY DEF StoreTyped, Archives
<1>3. index' = replace_cold(index, tp, a, b, k, n)
  BY DEF CompactReplace
<1> HIDE DEF plan, n
<1>4. tp \in Partitions /\ a \in Offsets /\ b \in Ends /\ k \in Keys
  BY <1>1, <1>2, MergeFields
<1> HIDE DEF tp, a, b, k
<1>5. HotKept(index', index, tp) /\ ColdSet(index', index, tp, base, a, b, k, n)
  BY <1>1, <1>2, <1>3, <1>4, ReplaceColdExact
<1>6. \A q \in Partitions : index.parts[q].next_offset \in Nat
  BY <1>2, IndexNaturals
<1>7. \A q \in Partitions \ {tp} : index'.parts[q] = index.parts[q]
  BY <1>5 DEF HotKept, Elsewhere
<1>8. /\ index'.parts[tp].hot = index.parts[tp].hot /\ index.parts[tp].next_offset <= index'.parts[tp].next_offset
      /\ b <= index'.parts[tp].next_offset
  <2>1. index'.parts[tp].hot = index.parts[tp].hot
    BY <1>5 DEF HotKept
  <2>2. Raised(index'.parts[tp].next_offset, index.parts[tp].next_offset, b)
    BY <1>5 DEF ColdSet
  <2>3. b \in Nat
    BY <1>4, StoreConstants DEF Ends
  <2>4. index.parts[tp].next_offset \in Nat
    BY <1>4, <1>6
  <2> QED
    BY <2>1, <2>2, <2>3, <2>4 DEF Raised
<1>9. ASSUME NEW q \in Partitions
      PROVE  /\ index'.parts[q].hot = index.parts[q].hot /\ index.parts[q].next_offset <= index'.parts[q].next_offset
             /\ q = tp => b <= index'.parts[q].next_offset
  <2>1. CASE q = tp
    BY <1>8, <2>1
  <2>2. CASE q # tp
    BY <1>6, <1>7, <2>2
  <2> QED
    BY <2>1, <2>2
<1> QED
  BY <1>9 DEF tp, b, plan

\* The appends in progress are of records.
LEMMA FlightRecords ==
    ASSUME StoreTyped, MergeInv, NEW p \in Producers, producer[p].pc = "wal"
    PROVE  Head(producer[p].todo) \in Record /\ Head(producer[p].todo).tp \in Partitions /\ Head(producer[p].todo).off \in Nat
<1>1. producer[p].pc \in Appending
  BY DEF Appending
<1>2. ClientsOrder(producer, hw, wal.disk, manifest.live)
  BY DEF MergeInv
<1>3. NextRecord(producer[p])
  BY <1>1, <1>2, OrderAt
<1> QED
  BY <1>3, RecordFields DEF NextRecord

\* CompactReplace.
LEMMA ContentCompactReplace ==
    ASSUME StoreTyped, StoreTyped', MergeInv, ContentInv, CompactReplace
    PROVE  ContentInv'
<1> DEFINE plan == compact.plan
           cold == ColdOf(index)
           new == ColdOf(index')
<1>1. UNCHANGED <<wal, objects, tier, producer, acked>> /\ compact.pc = "replace" /\ compact' = [compact EXCEPT !.pc = "delete"]
  BY DEF CompactReplace, storage, history
<1>2. compact'.pc = "delete"
  BY <1>1 DEF StoreTyped, CompactOK
<1>3. MergedAt(new, cold, plan, compact.size)
  BY ReplacedMap
<1>4. cold \in [Partitions -> Colds] /\ compact.plans \subseteq Plans
  BY MapsTyped
<1>5. Filed(cold, objects) /\ Merger(compact, manifest.live, cold, objects)
  BY DEF MergeInv, ColdInv
<1>6. plan \in Plans /\ PlanSound(plan) /\ SourcesIn(plan, cold)
  BY <1>1, <1>4, <1>5 DEF Merger
<1>7. plan.tp \in Partitions
  BY <1>6 DEF Plans
<1>8. MergedAll(plan, objects)
  BY <1>1 DEF ContentInv, BodiesInv, Combined
<1>9. \A tp \in Partitions : new[tp] = index'.parts[tp].cold /\ cold[tp] = index.parts[tp].cold
  BY DEF ColdOf
<1>10. \A tp \in Partitions :
          /\ index'.parts[tp].hot = index.parts[tp].hot /\ index.parts[tp].next_offset <= index'.parts[tp].next_offset
          /\ tp = plan.tp => MergedEnd(plan) <= index'.parts[tp].next_offset
  BY ReplacedMemory
<1>11. Exact(index) /\ Exact(index')
  BY DEF StoreTyped
<1> HIDE DEF plan, cold, new
<1>12. Merge(new, cold, objects, plan, compact.size)
  BY <1>3, <1>4, <1>5, <1>6, <1>7 DEF Merge
<1>13. ArchivedStays(cold, objects, new, objects)
  BY <1>8, <1>12, ArchivedMerged
<1>14. WaitKept(wal.disk, tier, wal.disk, tier)
  BY DEF WaitKept
<1>15. PresentStays(wal.disk, tier, cold, objects, wal.disk, tier, new, objects)
  BY <1>13, <1>14, WaitingAndArchived
<1>16. PastCold(index')
  <2>1. SUFFICES ASSUME NEW tp \in Partitions, NEW a \in DOMAIN index'.parts[tp].cold
                 PROVE  index'.parts[tp].cold[a].end <= index'.parts[tp].next_offset
    BY DEF PastCold
  <2>2. CASE tp = plan.tp /\ a = MergedStart(plan)
    <3>1. new[plan.tp][MergedStart(plan)].end = MergedEnd(plan)
      BY <1>3 DEF MergedAt, MergedMap
    <3> QED
      BY <1>9, <1>10, <2>2, <3>1
  <2>3. CASE ~ (tp = plan.tp /\ a = MergedStart(plan))
    <3>1. a \in DOMAIN cold[tp] /\ new[tp][a] = cold[tp][a]
      <4>1. CASE tp # plan.tp
        BY <1>3, <1>9, <2>1, <4>1 DEF MergedAt
      <4>2. CASE tp = plan.tp
        BY <1>3, <1>9, <2>1, <2>3, <4>2 DEF MergedAt, MergedMap
      <4> QED
        BY <4>1, <4>2
    <3>2. index.parts[tp].cold[a].end <= index.parts[tp].next_offset
      BY <1>9, <3>1 DEF ContentInv, HotInv, PastCold
    <3>3. index.parts[tp].cold[a].end \in Nat /\ index.parts[tp].next_offset \in Nat /\ index'.parts[tp].next_offset \in Nat
      BY <1>9, <1>11, <3>1, IndexNaturals
    <3> QED
      BY <1>9, <1>10, <3>1, <3>2, <3>3, AtMost
  <2> QED
    BY <2>2, <2>3
<1>17. HotInv(index', wal.disk, tier, producer)
  <2>1. \A s \in DOMAIN wal.disk : \A i \in 1 .. Len(wal.disk[s]) : wal.disk[s][i].tp \in Partitions
    BY DiskRecords DEF StoreTyped
  <2>2. \A p \in Producers : producer[p].pc = "wal" => Head(producer[p].todo).tp \in Partitions
    BY FlightRecords
  <2>3. HotInv(index, wal.disk, tier, producer)
    BY DEF ContentInv
  <2>4. \A tp \in Partitions : /\ index'.parts[tp].hot = index.parts[tp].hot
                               /\ index.parts[tp].next_offset <= index'.parts[tp].next_offset
    BY <1>10
  <2> QED
    BY ONLY <1>11, <1>16, <2>1, <2>2, <2>3, <2>4, HotReplaced
<1>18. BodiesInv(tier, wal.disk, compact', objects)
  BY <1>2 DEF ContentInv, BodiesInv, Combined
<1> QED
  BY <1>1, <1>15, <1>17, <1>18, ContentStays DEF cold, new
-------------------------------------------------------------------------------
(* The contents and the requests.                                          *)

\* What is acknowledged or appended is still present, where nothing that waits is lost.
LEMMA StillPresent ==
    ASSUME StoreTyped, MergeInv, ContentInv, NEW disk, WaitKept(wal.disk, tier, disk, tier)
    PROVE  /\ RequestsPresent(producer, disk, tier, ColdOf(index), objects)
           /\ AllPresent(acked, disk, tier, ColdOf(index), objects)
<1>1. (\A p \in Producers : ProducerOK(producer[p])) /\ acked \in SUBSET Record
  BY DEF StoreTyped, MergeInv
<1>2. RequestsPresent(producer, wal.disk, tier, ColdOf(index), objects) /\ AllPresent(acked, wal.disk, tier, ColdOf(index), objects)
  BY DEF ContentInv
<1>3. PresentStays(wal.disk, tier, ColdOf(index), objects, disk, tier, ColdOf(index), objects)
  BY ArchivedSame, WaitingAndArchived
<1> QED
  BY ONLY <1>1, <1>2, <1>3, ClientsPresent

\* A step of the request p.
LEMMA ContentRequest ==
    ASSUME StoreTyped, MergeInv, ContentInv, UNCHANGED <<tier, compact, objects>>, ColdOf(index') = ColdOf(index),
           NEW disk, disk = wal'.disk, WaitKept(wal.disk, tier, disk, tier),
           Stocked(tier, disk, objects), HotInv(index', disk, tier, producer'),
           NEW p \in Producers, \A c \in Producers \ {p} : producer'[c] = producer[c],
           Busy(producer'[p]) =>
              \A i \in 1 .. Written(producer'[p]) : Present(producer'[p].recs[i], disk, tier, ColdOf(index), objects),
           \A r \in acked' \ acked : Present(r, disk, tier, ColdOf(index), objects)
    PROVE  ContentInv'
<1>1. /\ RequestsPresent(producer, disk, tier, ColdOf(index), objects)
      /\ AllPresent(acked, disk, tier, ColdOf(index), objects)
  BY StillPresent
<1>2. BodiesInv(tier, disk, compact, objects)
  BY DEF ContentInv, BodiesInv
<1>3. RequestsPresent(producer', disk, tier, ColdOf(index), objects)
  <2>1. SUFFICES ASSUME NEW c \in Producers, Busy(producer'[c]), NEW i \in 1 .. Written(producer'[c])
                 PROVE  Present(producer'[c].recs[i], disk, tier, ColdOf(index), objects)
    BY DEF RequestsPresent
  <2>2. CASE c = p
    BY <2>1, <2>2
  <2>3. CASE c # p
    <3>1. producer'[c] = producer[c]
      BY <2>3
    <3> QED
      BY <1>1, <2>1, <3>1 DEF RequestsPresent
  <2> QED
    BY <2>2, <2>3
<1>4. AllPresent(acked', disk, tier, ColdOf(index), objects)
  BY <1>1 DEF AllPresent
<1>5. ColdOf(index)' = ColdOf(index)
  BY DEF ColdOf
<1> QED
  BY <1>2, <1>3, <1>4, <1>5 DEF ContentInv

\* The same appends are in progress.
SameFlights(prods, new) ==
    \A c \in Producers : (new[c].pc = "wal" <=> prods[c].pc = "wal") /\ (prods[c].pc = "wal" => new[c].todo = prods[c].todo)
LEMMA HotFlights ==
    ASSUME NEW idx, NEW disk, NEW t, NEW prods, NEW new, SameFlights(prods, new), HotInv(idx, disk, t, prods)
    PROVE  HotInv(idx, disk, t, new)
<1>1. \A r : InFlight(prods, r) => InFlight(new, r)
  BY DEF InFlight, SameFlights
<1>2. HotBacked(idx, disk, t, new)
  BY <1>1 DEF HotInv, HotBacked
<1>3. HotComplete(idx, disk, t, new)
  BY DEF HotInv, HotComplete, SameFlights
<1> QED
  BY <1>2, <1>3 DEF HotInv

LEMMA DiskWaits ==
    ASSUME NEW disk, NEW t
    PROVE  WaitKept(disk, t, disk, t)
BY DEF WaitKept

\* ProduceStart.
LEMMA ContentStart ==
    ASSUME Merging, StoreTyped, MergeInv, ContentInv, NEW p \in Producers, NEW tp \in Partitions,
           NEW n \in BatchSizes, NEW acks \in AckLevels, NEW size \in Sizes, ProduceStart(p, tp, n, acks, size)
    PROVE  ContentInv'
<1> DEFINE recs == NewRecords(tp, n, size)
<1>1. UNCHANGED <<index, wal, tier, compact, objects, acked>>
  BY DEF ProduceStart, storage
<1>2. /\ \A c \in Producers \ {p} : producer'[c] = producer[c]
      /\ producer'[p].pc = AppendNext /\ producer'[p].recs = recs /\ producer'[p].todo = recs /\ producer[p].pc = "idle"
  BY StartedFields DEF Merging
<1>3. recs \in Seq(Record) /\ Len(recs) = n /\ n \in Nat
  BY NewRecordsTyped
<1> HIDE DEF recs
<1>4. Written(producer'[p]) = 0
  BY <1>2, <1>3 DEF Written
<1>5. SameFlights(producer, producer')
  BY <1>2 DEF SameFlights, AppendNext
<1>6. HotInv(index, wal.disk, tier, producer')
  BY <1>5, HotFlights DEF ContentInv
<1>7. Stocked(tier, wal.disk, objects)
  BY DEF ContentInv, BodiesInv
<1>8. ColdOf(index') = ColdOf(index)
  BY <1>1
<1>9. \A i \in 1 .. Written(producer'[p]) : FALSE
  BY <1>4
<1> QED
  BY <1>1, <1>2, <1>6, <1>7, <1>8, <1>9, DiskWaits, ContentRequest

\* AwaitCapacity.
LEMMA ContentCapacity ==
    ASSUME StoreTyped, MergeInv, ContentInv, NEW p \in Producers, AwaitCapacity(p)
    PROVE  ContentInv'
<1>1. UNCHANGED <<index, wal, tier, compact, objects, acked>>
  BY DEF AwaitCapacity, storage, history
<1>2. producer[p].pc = "capacity" /\ producer[p].pc \in Appending /\ producer' = [producer EXCEPT ![p].pc = "insert"]
  BY DEF AwaitCapacity, Appending
<1>3. /\ \A c \in Producers \ {p} : producer'[c] = producer[c]
      /\ producer'[p].pc = "insert" /\ SameRequest(producer'[p], producer[p])
  BY <1>2, MovedFields
<1>4. SameFlights(producer, producer')
  BY <1>2, <1>3 DEF SameFlights
<1>5. HotInv(index, wal.disk, tier, producer')
  BY <1>4, HotFlights DEF ContentInv
<1>6. Stocked(tier, wal.disk, objects)
  BY DEF ContentInv, BodiesInv
<1>7. ColdOf(index') = ColdOf(index)
  BY <1>1
<1>8. \A i \in 1 .. Written(producer'[p]) : Present(producer'[p].recs[i], wal.disk, tier, ColdOf(index), objects)
  BY <1>2, <1>3 DEF SameRequest, Written, ContentInv, RequestsPresent, Busy
<1> QED
  BY <1>1, <1>3, <1>5, <1>6, <1>7, <1>8, DiskWaits, ContentRequest

\* ProduceCommit.
LEMMA ContentCommit ==
    ASSUME StoreTyped, MergeInv, ContentInv, NEW p \in Producers, ProduceCommit(p)
    PROVE  ContentInv'
<1> DEFINE q == producer[p]
<1>1. UNCHANGED <<index, wal, tier, compact, objects>>
  BY DEF ProduceCommit, storage
<1>2. q.pc = "commit" /\ producer' = [producer EXCEPT ![p] = IdleProducer] /\ acked' = acked \cup ToSet(q.recs) /\ Busy(q)
  BY DEF ProduceCommit, Busy
<1>3. DOMAIN producer = Producers /\ ProducerOK(q)
  BY DEF StoreTyped
<1>4. producer'[p].pc = "idle" /\ \A c \in Producers \ {p} : producer'[c] = producer[c]
  BY <1>2, <1>3 DEF IdleProducer
<1>5. RequestOrder(p, q, hw, wal.disk, manifest.live)
  BY <1>2 DEF MergeInv, ClientsOrder
<1>6. q.todo = <<>> /\ Len(q.todo) <= Len(q.recs)
  BY <1>2, <1>5 DEF RequestOrder
<1>7. RequestNaturals(q)
  BY <1>2, <1>3, <1>6, RequestCounts
<1>8. q.recs \in Seq(Record) /\ Len(q.recs) \in Nat
  BY <1>7 DEF RequestNaturals
<1>9. Written(q) = Len(q.recs)
  <2>1. Written(q) = Len(q.recs) - 0
    BY <1>6 DEF Written
  <2> QED
    BY <1>8, <2>1
<1>10. \A i \in 1 .. Len(q.recs) : Present(q.recs[i], wal.disk, tier, ColdOf(index), objects)
  BY <1>2, <1>9 DEF ContentInv, RequestsPresent
<1>11. \A r \in acked' \ acked : Present(r, wal.disk, tier, ColdOf(index), objects)
  BY <1>2, <1>8, <1>10, SeqElements
<1>12. SameFlights(producer, producer')
  BY <1>2, <1>4 DEF SameFlights
<1>13. HotInv(index, wal.disk, tier, producer')
  BY <1>12, HotFlights DEF ContentInv
<1>14. Stocked(tier, wal.disk, objects)
  BY DEF ContentInv, BodiesInv
<1>15. ColdOf(index') = ColdOf(index)
  BY <1>1
<1>16. ~ Busy(producer'[p])
  BY <1>4 DEF Busy
<1> QED
  BY <1>1, <1>4, <1>11, <1>13, <1>14, <1>15, <1>16, DiskWaits, ContentRequest
\* InsertHot: memory.
LEMMA InsertedHot ==
    ASSUME NEW idx, NEW new, Exact(idx), Exact(new), NEW w, WalOK(w), NEW t, NEW prods, NEW after, HotInv(idx, w.disk, t, prods),
           NEW rec \in Record, HotInserted(new, idx, rec.tp, rec.off, rec),
           NEW p \in Producers, prods[p].pc # "wal", after[p].pc = "wal", Head(after[p].todo) = rec,
           \A c \in Producers \ {p} : after[c] = prods[c],
           \A s \in DOMAIN w.disk : \A i \in 1 .. Len(w.disk[s]) : w.disk[s][i].tp = rec.tp => w.disk[s][i].off < rec.off,
           \A c \in Producers \ {p} : prods[c].pc = "wal" =>
              Head(prods[c].todo).tp # rec.tp /\ Head(prods[c].todo).tp \in Partitions
    PROVE  HotInv(new, w.disk, t, after)
<1>1. rec.tp \in Partitions /\ rec.off \in Nat
  BY RecordFields
<1>2. HotBacked(idx, w.disk, t, prods) /\ HotComplete(idx, w.disk, t, prods) /\ PastCold(idx)
  BY DEF HotInv
<1>3. \A q \in Partitions \ {rec.tp} : new.parts[q] = idx.parts[q]
  BY DEF HotInserted, Elsewhere
<1>4. Stored(new.parts[rec.tp].hot, idx.parts[rec.tp].hot, rec.off, rec) /\ new.parts[rec.tp].cold = idx.parts[rec.tp].cold
  BY DEF HotInserted
<1>5. \A q \in Partitions : new.parts[q].next_offset \in Nat /\ idx.parts[q].next_offset \in Nat
  BY IndexNaturals
<1>6. /\ idx.parts[rec.tp].next_offset <= new.parts[rec.tp].next_offset /\ rec.off < new.parts[rec.tp].next_offset
  <2>1. Raised(new.parts[rec.tp].next_offset, idx.parts[rec.tp].next_offset, rec.off + 1)
    BY DEF HotInserted
  <2> QED
    BY <1>1, <1>5, <2>1 DEF Raised
<1>7. \A r : InFlight(prods, r) => InFlight(after, r)
  BY DEF InFlight
<1>8. InFlight(after, rec)
  BY DEF InFlight
<1>9. HotBacked(new, w.disk, t, after)
  <2>1. SUFFICES ASSUME NEW q \in Partitions, NEW o \in DOMAIN new.parts[q].hot
                 PROVE  /\ new.parts[q].hot[o].tp = q /\ new.parts[q].hot[o].off = o /\ o < new.parts[q].next_offset
                        /\ Waiting(new.parts[q].hot[o], w.disk, t) \/ InFlight(after, new.parts[q].hot[o])
    BY DEF HotBacked
  <2>2. CASE q = rec.tp /\ o = rec.off
    <3>1. new.parts[q].hot[o] = rec
      BY <1>4, <2>2 DEF Stored
    <3> QED
      BY <1>6, <1>8, <2>2, <3>1
  <2>3. CASE ~ (q = rec.tp /\ o = rec.off)
    <3>1. o \in DOMAIN idx.parts[q].hot /\ new.parts[q].hot[o] = idx.parts[q].hot[o]
      <4>1. CASE q # rec.tp
        BY <1>3, <2>1, <4>1
      <4>2. CASE q = rec.tp
        BY <1>4, <2>1, <2>3, <4>2 DEF Stored
      <4> QED
        BY <4>1, <4>2
    <3>2. /\ idx.parts[q].hot[o].tp = q /\ idx.parts[q].hot[o].off = o /\ o < idx.parts[q].next_offset
          /\ Waiting(idx.parts[q].hot[o], w.disk, t) \/ InFlight(prods, idx.parts[q].hot[o])
      BY <1>2, <3>1 DEF HotBacked
    <3>3. idx.parts[q].next_offset <= new.parts[q].next_offset
      BY <1>3, <1>5, <1>6
    <3>4. o \in Nat
      BY <3>1, IndexNaturals
    <3>5. o < new.parts[q].next_offset
      BY <1>5, <3>2, <3>3, <3>4
    <3> QED
      BY <1>7, <3>1, <3>2, <3>5
  <2> QED
    BY <2>2, <2>3
<1>10. ASSUME NEW r, HotAt(idx, r), r.tp \in Partitions, ~ (r.tp = rec.tp /\ r.off = rec.off) PROVE HotAt(new, r)
  <2>1. CASE r.tp # rec.tp
    BY <1>3, <1>10, <2>1 DEF HotAt
  <2>2. CASE r.tp = rec.tp
    BY <1>4, <1>10, <2>2 DEF HotAt, Stored
  <2> QED
    BY <2>1, <2>2
<1>11. HotComplete(new, w.disk, t, after)
  <2>1. ASSUME NEW s \in DOMAIN w.disk, NEW i \in 1 .. Len(w.disk[s]), ~ Evicted(t, s, w.disk[s][i].tp)
        PROVE  HotAt(new, w.disk[s][i])
    <3>1. HotAt(idx, w.disk[s][i])
      BY <1>2, <2>1 DEF HotComplete
    <3>2. w.disk[s][i].tp \in Partitions /\ w.disk[s][i].off \in Nat
      BY DiskRecords
    <3>3. ~ (w.disk[s][i].tp = rec.tp /\ w.disk[s][i].off = rec.off)
      BY <1>1, <3>2
    <3> QED
      BY <1>10, <3>1, <3>2, <3>3
  <2>2. ASSUME NEW c \in Producers, after[c].pc = "wal" PROVE HotAt(new, Head(after[c].todo))
    <3>1. CASE c = p
      <4>1. HotAt(new, rec)
        BY <1>4 DEF HotAt, Stored
      <4> QED
        BY <3>1, <4>1
    <3>2. CASE c # p
      <4>1. after[c] = prods[c] /\ Head(prods[c].todo).tp # rec.tp /\ Head(prods[c].todo).tp \in Partitions
        BY <2>2, <3>2
      <4>2. HotAt(idx, Head(prods[c].todo))
        BY <1>2, <2>2, <4>1 DEF HotComplete
      <4> QED
        BY <1>10, <4>1, <4>2
    <3> QED
      BY <3>1, <3>2
  <2> QED
    BY <2>1, <2>2 DEF HotComplete
<1>12. PastCold(new)
  <2>1. SUFFICES ASSUME NEW q \in Partitions, NEW a \in DOMAIN new.parts[q].cold
                 PROVE  new.parts[q].cold[a].end <= new.parts[q].next_offset
    BY DEF PastCold
  <2>2. new.parts[q].cold = idx.parts[q].cold /\ idx.parts[q].next_offset <= new.parts[q].next_offset
    BY <1>3, <1>4, <1>5, <1>6
  <2>3. idx.parts[q].cold[a].end <= idx.parts[q].next_offset
    BY <1>2, <2>1, <2>2 DEF PastCold
  <2>4. idx.parts[q].cold[a].end \in Nat
    BY <2>1, <2>2, IndexNaturals
  <2> QED
    BY <1>5, <2>2, <2>3, <2>4, AtMost
<1> QED
  BY <1>9, <1>11, <1>12 DEF HotInv

\* InsertHot.
LEMMA ContentInsert ==
    ASSUME Merging, StoreTyped, MergeInv, ContentInv, NEW p \in Producers, InsertHot(p)
    PROVE  ContentInv'
<1> DEFINE rec == Head(producer[p].todo)
<1>1. UNCHANGED <<wal, tier, compact, objects, acked>>
  BY DEF InsertHot, storage, history
<1>2. producer[p].pc = "insert" /\ producer[p].pc \in Appending /\ producer' = [producer EXCEPT ![p].pc = "wal"]
  BY DEF InsertHot, Appending
<1>3. /\ \A c \in Producers \ {p} : producer'[c] = producer[c]
      /\ producer'[p].pc = "wal" /\ SameRequest(producer'[p], producer[p])
  BY <1>2, MovedFields
<1>4. StoreTyped' /\ HotInserted(index', index, rec.tp, rec.off, rec) /\ rec \in Record
  BY TypedInsertHot
<1>5. ClientsOrder(producer, hw, wal.disk, manifest.live)
  BY DEF MergeInv
<1>6. RequestOrder(p, producer[p], hw, wal.disk, manifest.live) /\ NextRecord(producer[p]) /\ Below(rec.tp, rec.off, wal.disk, manifest.live)
  BY <1>2, <1>5, OrderAt
<1>7. rec.tp \in Targets[p]
  BY <1>6 DEF RequestOrder, NextRecord
<1>8. ASSUME NEW c \in Producers \ {p}, producer[c].pc = "wal"
      PROVE  Head(producer[c].todo).tp # rec.tp /\ Head(producer[c].todo).tp \in Partitions
  <2>1. producer[c].tp # rec.tp
    BY <1>5, <1>7, <1>8, OrderApart DEF Merging, Busy
  <2>2. NextRecord(producer[c])
    BY <1>5, <1>8, OrderAt DEF Appending
  <2> QED
    BY <2>1, <2>2 DEF NextRecord
<1>9. \A s \in DOMAIN wal.disk : \A i \in 1 .. Len(wal.disk[s]) : wal.disk[s][i].tp = rec.tp => wal.disk[s][i].off < rec.off
  BY <1>6 DEF Below
<1>10. ColdOf(index') = ColdOf(index)
  <2>1. \A tp \in Partitions : index'.parts[tp].cold = index.parts[tp].cold
    BY <1>4 DEF HotInserted, Elsewhere
  <2> QED
    BY <2>1, SameCold
<1>11. Exact(index) /\ Exact(index') /\ WalOK(wal)
  BY <1>4 DEF StoreTyped
<1>12. HotInv(index, wal.disk, tier, producer) /\ Stocked(tier, wal.disk, objects)
  BY DEF ContentInv, BodiesInv
<1>13. Head(producer'[p].todo) = rec /\ producer[p].pc # "wal"
  BY <1>2, <1>3 DEF SameRequest
<1> DEFINE after == producer'
           new == index'
<1>14. \A c \in Producers \ {p} : after[c] = producer[c]
  BY <1>3
<1>15. after[p].pc = "wal" /\ Head(after[p].todo) = rec /\ Exact(new) /\ HotInserted(new, index, rec.tp, rec.off, rec)
  BY <1>3, <1>4, <1>11, <1>13
<1> HIDE DEF rec, after, new
<1>16. HotInv(new, wal.disk, tier, after)
  BY ONLY <1>4, <1>8, <1>9, <1>11, <1>12, <1>13, <1>14, <1>15, InsertedHot, p \in Producers
<1>17. HotInv(index', wal.disk, tier, producer')
  BY <1>16 DEF new, after
<1>18. \A i \in 1 .. Written(producer'[p]) : Present(producer'[p].recs[i], wal.disk, tier, ColdOf(index), objects)
  BY <1>2, <1>3 DEF SameRequest, Written, ContentInv, RequestsPresent, Busy
<1> QED
  BY <1>1, <1>3, <1>10, <1>12, <1>17, <1>18, DiskWaits, ContentRequest

\* WalAppend: memory.
OthersSame(after, prods, p) == \A c \in Producers \ {p} : after[c] = prods[c]
LEMMA AppendedHot ==
    ASSUME NEW idx, NEW v, NEW w, NEW t, NEW prods, NEW after, HotInv(idx, w.disk, t, prods), NEW rec,
           OneMore(v, w, rec), Len(w.disk[w.active]) \in Nat, WaitKept(w.disk, t, v.disk, t), Waiting(rec, v.disk, t),
           NEW p \in Producers, prods[p].pc = "wal", Head(prods[p].todo) = rec, after[p].pc # "wal",
           OthersSame(after, prods, p)
    PROVE  HotInv(idx, v.disk, t, after)
<1>1. HotBacked(idx, w.disk, t, prods) /\ HotComplete(idx, w.disk, t, prods) /\ PastCold(idx)
  BY DEF HotInv
<1>2. \A r : Waiting(r, w.disk, t) => Waiting(r, v.disk, t)
  BY WaitingStays
<1>3. \A r : InFlight(prods, r) => Waiting(r, v.disk, t) \/ InFlight(after, r)
  BY DEF InFlight, OthersSame
<1>4. HotBacked(idx, v.disk, t, after)
  BY <1>1, <1>2, <1>3 DEF HotBacked
<1>5. HotAt(idx, rec)
  BY <1>1 DEF HotComplete
<1>6. ASSUME NEW s \in DOMAIN v.disk, NEW i \in 1 .. Len(v.disk[s]) PROVE Evicted(t, s, v.disk[s][i].tp) \/ HotAt(idx, v.disk[s][i])
  <2>1. s \in DOMAIN w.disk
    BY DEF OneMore
  <2>2. CASE i \in 1 .. Len(w.disk[s])
    <3>1. v.disk[s][i] = w.disk[s][i]
      BY <2>1, <2>2 DEF OneMore
    <3> QED
      BY <1>1, <2>1, <2>2, <3>1 DEF HotComplete
  <2>3. CASE i \notin 1 .. Len(w.disk[s])
    <3>1. s = w.active
      BY <2>1, <2>3 DEF OneMore
    <3>2. i = Len(w.disk[w.active]) + 1
      BY <1>6, <2>3, <3>1 DEF OneMore
    <3>3. v.disk[s][i] = rec
      BY <3>1, <3>2 DEF OneMore
    <3> QED
      BY <1>5, <3>3
  <2> QED
    BY <2>2, <2>3
<1>7. \A c \in Producers : after[c].pc = "wal" => HotAt(idx, Head(after[c].todo))
  BY <1>1 DEF HotComplete, OthersSame
<1> QED
  BY <1>1, <1>4, <1>6, <1>7 DEF HotInv, HotComplete

\* WalAppend.
LEMMA ContentAppend ==
    ASSUME Merging, StoreTyped, MergeInv, ContentInv, NEW p \in Producers, WalAppend(p)
    PROVE  ContentInv'
<1> DEFINE q == producer[p]
           rec == Head(q.todo)
<1>1. UNCHANGED <<index, tier, compact, objects, acked>> /\ q.pc = "wal" /\ q.pc \in Appending
  BY DEF WalAppend, history, Appending
<1>2. /\ RequestOK(q) /\ \A c \in Producers \ {p} : producer'[c] = producer[c]
      /\ producer'[p].pc = IF Len(q.todo) > 1 THEN AppendNext ELSE "commit"
      /\ producer'[p].recs = q.recs /\ producer'[p].todo = Tail(q.todo)
  BY RequestAppended
<1>3. ClientsOrder(producer, hw, wal.disk, manifest.live) /\ wal.tail = <<>> /\ Disciplined
  BY DEF MergeInv, Merging, Calm
<1>4. rec \in Record /\ OneMore(wal', wal, rec)
  BY <1>3, OrderWalAppend
<1>5. NextRecord(q)
  BY <1>1, <1>3, OrderAt
<1>6. WalOK(wal) /\ wal.active \in Nat /\ wal.active \in DOMAIN wal.disk /\ Len(wal.disk[wal.active]) \in Nat
  <2>1. WalOK(wal)
    BY DEF StoreTyped
  <2>2. wal.active \in Nat /\ wal.active \in DOMAIN wal.disk /\ wal.disk[wal.active] \in Seq(Record)
    BY <1>4, <2>1, WalFields DEF OneMore
  <2> QED
    BY <2>1, <2>2
<1>7. tier.pc \in {"group"} \cup Working => tier.queue[1] # wal.active /\ wal'.disk[tier.queue[1]] = wal.disk[tier.queue[1]]
  <2> HAVE tier.pc \in {"group"} \cup Working
  <2>1. tier.pc \notin {"idle", "dead"}
    BY DEF Working
  <2>2. tier.queue[1] < wal.active /\ tier.queue[1] \in DOMAIN wal.disk /\ tier.queue[1] \in Nat
    BY <2>1, TierQueue
  <2>3. tier.queue[1] # wal.active
    BY <1>6, <2>2
  <2> QED
    BY <1>4, <2>2, <2>3 DEF OneMore
<1>8. WaitKept(wal.disk, tier, wal'.disk, tier)
  BY <1>4 DEF WaitKept, OneMore
<1>9. Waiting(rec, wal'.disk, tier)
  <2>1. \A tp : ~ Evicted(tier, wal.active, tp)
    BY <1>7 DEF Evicted
  <2>2. wal.active \in DOMAIN wal'.disk /\ Has(wal'.disk[wal.active], rec)
    BY <1>4, <1>6 DEF OneMore, Has
  <2> QED
    BY <2>1, <2>2 DEF Waiting
<1>10. producer'[p].pc # "wal"
  BY <1>2 DEF AppendNext
<1>11. Stocked(tier, wal'.disk, objects)
  <2>1. Stocked(tier, wal.disk, objects)
    BY DEF ContentInv, BodiesInv
  <2> QED
    BY <1>7, <2>1 DEF Stocked, Working
<1>12. HotInv(index, wal'.disk, tier, producer')
  <2>1. HotInv(index, wal.disk, tier, producer)
    BY DEF ContentInv
  <2> DEFINE v == wal'
             after == producer'
  <2>2. OneMore(v, wal, rec) /\ WaitKept(wal.disk, tier, v.disk, tier) /\ Waiting(rec, v.disk, tier) /\ after[p].pc # "wal"
    BY <1>4, <1>8, <1>9, <1>10
  <2>a. OthersSame(after, producer, p)
    BY <1>2 DEF OthersSame
  <2>3. producer[p].pc = "wal" /\ Head(producer[p].todo) = rec
    BY <1>1
  <2> HIDE DEF v, after, rec
  <2>4. HotInv(index, v.disk, tier, after)
    BY ONLY <1>6, <2>1, <2>2, <2>3, <2>a, AppendedHot, p \in Producers
  <2> QED
    BY <2>4 DEF v, after
<1>13. \A i \in 1 .. Written(producer'[p]) : Present(producer'[p].recs[i], wal'.disk, tier, ColdOf(index), objects)
  <2>1. RequestsPresent(producer, wal'.disk, tier, ColdOf(index), objects)
    BY <1>8, StillPresent
  <2>2. q.recs \in Seq(Record) /\ q.todo \in Seq(Record)
    BY <1>2 DEF RequestOK, Requests
  <2>3. Len(Tail(q.todo)) = Len(q.todo) - 1
    BY <1>5, <2>2 DEF NextRecord
  <2>4. Len(q.todo) \in Nat /\ Len(q.recs) \in Nat /\ rec = q.recs[Written(q) + 1] /\ Written(q) \in Nat
    BY <1>5 DEF NextRecord
  <2>5. Written(producer'[p]) = Written(q) + 1
    <3> DEFINE a == Len(q.recs)
               b == Len(q.todo)
               c == Len(Tail(q.todo))
               old == Written(q)
               new == Written(producer'[p])
    <3>1. old = a - b /\ new = a - c
      BY <1>2 DEF Written
    <3>2. a \in Nat /\ b \in Nat /\ c = b - 1
      BY <2>3, <2>4
    <3> HIDE DEF a, b, c, old, new
    <3>3. new = old + 1
      BY <3>1, <3>2
    <3> QED
      BY <3>3 DEF old, new
  <2>6. \A i \in 1 .. Written(q) : Present(q.recs[i], wal'.disk, tier, ColdOf(index), objects)
    BY <1>1, <2>1 DEF RequestsPresent, Busy
  <2>7. Present(rec, wal'.disk, tier, ColdOf(index), objects)
    BY <1>9 DEF Present
  <2>8. ASSUME NEW i \in 1 .. Written(producer'[p]) PROVE Present(producer'[p].recs[i], wal'.disk, tier, ColdOf(index), objects)
    <3>1. i \in 1 .. Written(q) \/ i = Written(q) + 1
      BY <2>4, <2>5, <2>8
    <3> QED
      BY <1>2, <2>4, <2>6, <2>7, <3>1
  <2> QED
    BY <2>8
<1>14. ColdOf(index') = ColdOf(index)
  BY <1>1
<1>15. HotInv(index', wal'.disk, tier, producer') /\ acked' = acked
  BY <1>1, <1>12
<1> QED
  BY <1>1, <1>2, <1>8, <1>11, <1>13, <1>14, <1>15, ContentRequest
-------------------------------------------------------------------------------
(* The contents, reads, crashes.                                           *)

\* Reading changes readers only.
LEMMA ContentReading ==
    ASSUME ContentInv, Reading
    PROVE  ContentInv'
<1>1. UNCHANGED <<index, wal, objects, tier, compact, producer, acked>>
  BY DEF Reading, ReadStart, ReadDownload, ReadRetry, storage, history
<1> QED
  BY <1>1 DEF ContentInv, ColdOf

\* Recovered memory is what waits in the log.
LEMMA RecoveredHot ==
    ASSUME NEW idx, NEW m, NEW w, WalOK(w), InOrder(w.disk), w.disk[w.active] = <<>>, Recovered(idx, m, w),
           NEW t, t.pc = "idle", NEW prods, \A p \in Producers : prods[p].pc = "idle"
    PROVE  HotInv(idx, w.disk, t, prods)
<1>1. \A s, tp : ~ Evicted(t, s, tp)
  BY DEF Evicted, Working
<1>2. ASSUME NEW tp \in Partitions, NEW o \in DOMAIN idx.parts[tp].hot
      PROVE  /\ idx.parts[tp].hot[o].tp = tp /\ idx.parts[tp].hot[o].off = o /\ o < idx.parts[tp].next_offset
             /\ Held(w.disk, idx.parts[tp].hot[o])
  BY DEF Recovered, Held, Has
<1>3. HotBacked(idx, w.disk, t, prods)
  BY <1>1, <1>2 DEF HotBacked, Waiting, Held
<1>4. ASSUME NEW s \in DOMAIN w.disk, NEW i \in 1 .. Len(w.disk[s]) PROVE HotAt(idx, w.disk[s][i])
  <2> DEFINE r == w.disk[s][i]
  <2>1. w.active \in Nat /\ s \in Nat /\ s <= w.active /\ r.tp \in Partitions /\ r \in Record
    BY DiskRecords
  <2>2. s # w.active
    OBVIOUS
  <2>3. s < w.active
    BY <2>1, <2>2
  <2>4. r.off \in DOMAIN idx.parts[r.tp].hot
    BY <2>3 DEF Recovered
  <2> DEFINE x == idx.parts[r.tp].hot[r.off]
  <2>5. x.tp = r.tp /\ x.off = r.off /\ Held(w.disk, x)
    BY <1>2, <2>1, <2>4
  <2>6. Held(w.disk, r)
    BY DEF Held, Has
  <2>7. x \in Record
    BY <2>1, <2>4, IndexNaturals DEF Recovered
  <2> HIDE DEF r, x
  <2>8. x = r
    BY <2>1, <2>5, <2>6, <2>7, OneInLog
  <2> QED
    BY <2>4, <2>8 DEF HotAt, x, r
<1>5. HotComplete(idx, w.disk, t, prods)
  BY <1>4 DEF HotComplete
<1>6. PastCold(idx)
  BY DEF Recovered, PastCold
<1> QED
  BY <1>3, <1>5, <1>6 DEF HotInv

\* CrashRestart.
LEMMA ContentCrash ==
    ASSUME Merging, StoreTyped, MergeInv, MergeInv', ContentInv, CrashRestart
    PROVE  ContentInv'
<1> DEFINE live == manifest.live
           cold == ColdOf(index)
           new == ColdOf(index')
<1>1. Recovered(index', manifest', wal') /\ manifest'.live = live
  BY TypedCrash
<1>2. SameRecords(wal', wal) /\ WalOK(wal') /\ wal'.disk[wal'.active] = <<>>
  BY CrashLog
<1>3. /\ tier.pc = "idle" /\ tier'.pc = "idle" /\ compact' = IdleCompact /\ acked' = acked
      /\ \A p \in Producers : producer'[p].pc = "idle"
  BY DEF CrashRestart, Merging, IdleTier, IdleProducer, history
<1>4. InOrder(wal'.disk)
  BY DEF MergeInv, LogOrder
<1>5. HotInv(index', wal'.disk, tier', producer')
  BY <1>1, <1>2, <1>3, <1>4, RecoveredHot
<1>6. live \in [Partitions -> Colds] /\ manifest \in Manifests
  BY MapsTyped DEF StoreTyped
<1>7. manifest'.orphans = manifest.orphans
  BY <1>6 DEF CrashRestart, load, Manifests
<1>8. Filed(live, objects) /\ Buried(manifest.orphans, live)
  BY DEF MergeInv, ColdInv
<1>9. objects' = objects \/ Remains(objects', objects, manifest.orphans)
  BY <1>7, ObjectsDeleted DEF CrashRestart
<1>10. NoneNamed(live, manifest.orphans)
  BY <1>6, <1>8, BuriedNotNamed
<1> HIDE DEF live
<1>11. ObjectsKept(objects', objects, live)
  BY <1>8, <1>9, <1>10 DEF ObjectsKept, Remains, NoneNamed, Filed, FiledIn
<1>12. AllNeat(objects')
  BY <1>9, AllNeatRemains DEF ContentInv, BodiesInv
<1>13. BodiesInv(tier', wal'.disk, compact', objects')
  BY <1>3, <1>12 DEF BodiesInv, Stocked, Combined, IdleCompact
<1>14. \A tp \in Partitions : new[tp] = live[tp]
  BY <1>1 DEF Recovered, ColdOf
<1>15. ArchivedStays(cold, objects, new, objects')
  <2>1. SUFFICES ASSUME NEW r \in Record, Archived(r, cold, objects) PROVE Archived(r, new, objects')
    BY DEF ArchivedStays
  <2>2. Archived(r, live, objects)
    BY <2>1, ArchivedInManifest DEF live
  <2>3. Archived(r, live, objects')
    BY <1>11, <2>2, ArchivedObjects DEF ArchivedStays
  <2>4. new[r.tp] = live[r.tp]
    BY <1>14, RecordFields
  <2> QED
    BY <2>3, <2>4 DEF Archived
<1>16. WaitKept(wal.disk, tier, wal'.disk, tier')
  BY <1>2, <1>3 DEF WaitKept, SameRecords, Evicted, Working
<1>17. PresentStays(wal.disk, tier, cold, objects, wal'.disk, tier', new, objects')
  BY <1>15, <1>16, WaitingAndArchived
<1>18. AllPresent(acked', wal'.disk, tier', new, objects')
  <2>1. acked \in SUBSET Record
    BY DEF MergeInv
  <2>2. AllPresent(acked, wal.disk, tier, cold, objects)
    BY DEF ContentInv
  <2> HIDE DEF new, cold
  <2> QED
    BY <1>3, <1>17, <2>1, <2>2 DEF AllPresent, PresentStays
<1>19. RequestsPresent(producer', wal'.disk, tier', new, objects')
  BY <1>3 DEF RequestsPresent, Busy
<1>20. ColdOf(index)' = new
  BY DEF ColdOf
<1> QED
  BY <1>5, <1>13, <1>18, <1>19, <1>20 DEF ContentInv

\* Every step keeps the invariant.
LEMMA ContentNext ==
    ASSUME Merging, StoreTyped, StoreTyped', MergeInv, MergeInv', ContentInv, [Next]_vars
    PROVE  ContentInv'
<1>1. /\ ~ TierFail /\ ~ TierTear /\ ~ CompactTear /\ ~ \E plan \in compact.plans : CompactFail(plan)
      /\ ~ \E tp \in Partitions : LoseLeadership(tp) \/ GainLeadership(tp)
  BY MergeNotTaken
<1>2. CASE Produce
  <2>1. ASSUME NEW p \in Producers, WalAppendErr(p) \/ AppendRollback(p) PROVE FALSE
    <3>1. CASE WalAppendErr(p)
      BY <3>1 DEF WalAppendErr, Fault, MergeInv, Calm
    <3>2. CASE AppendRollback(p)
      BY <3>2 DEF AppendRollback, MergeInv, ClientsOrder, RequestOrder, Busy
    <3> QED
      BY <2>1, <3>1, <3>2
  <2>2. ~ FlushTick
    BY DEF FlushTick, Merging, Disciplined
  <2>3. ASSUME NEW p \in Producers, NEW tp \in Partitions, NEW n \in BatchSizes, NEW a \in AckLevels, NEW s \in Sizes,
               ProduceStart(p, tp, n, a, s)
        PROVE  ContentInv'
    BY <2>3, ContentStart
  <2>4. ASSUME NEW p \in Producers, AwaitCapacity(p) PROVE ContentInv'
    BY <2>4, ContentCapacity
  <2>5. ASSUME NEW p \in Producers, InsertHot(p) PROVE ContentInv'
    BY <2>5, ContentInsert
  <2>6. ASSUME NEW p \in Producers, WalAppend(p) PROVE ContentInv'
    BY <2>6, ContentAppend
  <2>7. ASSUME NEW p \in Producers, ProduceCommit(p) PROVE ContentInv'
    BY <2>7, ContentCommit
  <2> QED
    BY <1>2, <2>1, <2>2, <2>3, <2>4, <2>5, <2>6, <2>7 DEF Produce
<1>3. CASE Tiering
  <2>1. ASSUME TierOnce PROVE ContentInv'
    BY <2>1, ContentTierOnce
  <2>2. ASSUME TierReadSegment \/ TierReclaim PROVE ContentInv'
    BY <2>2, ContentSegment
  <2>3. ASSUME TierPostCheck \/ TierRegister \/ \E tp \in Partitions : TierPreCheck(tp) PROVE ContentInv'
    BY <2>3, ContentChecks
  <2>4. ASSUME TierUpload PROVE ContentInv'
    BY <2>4, ContentTierUpload
  <2>5. ASSUME TierFlip PROVE ContentInv'
    BY <2>5, ContentTierFlip
  <2> QED
    BY <1>3, <2>1, <2>2, <2>3, <2>4, <2>5 DEF Tiering
<1>4. CASE Compacting
  <2>1. ASSUME CompactCycle \/ CompactRecord PROVE ContentInv'
    BY <2>1, ContentCycle
  <2>2. ASSUME NEW plan \in compact.plans, CompactUpload(plan) PROVE ContentInv'
    BY <2>2, ContentCompactUpload
  <2>3. ASSUME CompactReplace PROVE ContentInv'
    BY <2>3, ContentCompactReplace
  <2>4. ASSUME CompactDelete PROVE ContentInv'
    BY <2>4, ContentCompactDelete
  <2> QED
    BY <1>4, <2>1, <2>2, <2>3, <2>4 DEF Compacting
<1>5. CASE Reading
  BY <1>5, ContentReading
<1>6. CASE CrashRestart
  BY <1>6, ContentCrash
<1>7. CASE UNCHANGED vars
  <2>1. UNCHANGED <<index, wal, objects, tier, compact, producer, acked>>
    BY <1>7 DEF vars, storage, tasks, history
  <2> QED
    BY <2>1 DEF ContentInv, ColdOf
<1> QED
  BY <1>1, <1>2, <1>3, <1>4, <1>5, <1>6, <1>7 DEF Next

\* The contents of an empty store.
LEMMA ContentInit ==
    ASSUME Init
    PROVE  ContentInv
<1>1. wal = wal_new(<<>>)
  BY DEF Init
<1>2. DOMAIN wal.disk = {0} /\ wal.disk[0] = <<>>
  BY <1>1 DEF wal_new, open_new_segment
<1>3. Len(wal.disk[0]) = 0 /\ (1 .. Len(wal.disk[0])) = {}
  BY <1>2
<1>4. \A tp \in Partitions : DOMAIN index.parts[tp].hot = {} /\ DOMAIN index.parts[tp].cold = {}
  BY DEF Init, EmptyIndex, EmptyEntries
<1>5. /\ tier.pc = "idle" /\ compact.pc = "idle" /\ acked = {} /\ DOMAIN objects = {}
      /\ \A p \in Producers : producer[p].pc = "idle"
  BY DEF Init, IdleTier, IdleCompact, IdleProducer
<1>6. BodiesInv(tier, wal.disk, compact, objects)
  BY <1>5 DEF BodiesInv, AllNeat, Stocked, Combined
<1>7. HotInv(index, wal.disk, tier, producer)
  BY <1>2, <1>3, <1>4, <1>5 DEF HotInv, HotBacked, HotComplete, PastCold
<1> QED
  BY <1>5, <1>6, <1>7 DEF ContentInv, RequestsPresent, AllPresent, Busy

\* The contents, always.
LEMMA AlwaysContent ==
    ASSUME Merging
    PROVE  Spec => []ContentInv
<1>1. Init => ContentInv
  BY ContentInit
<1>2. StoreTyped /\ StoreTyped' /\ MergeInv /\ MergeInv' /\ ContentInv /\ [Next]_vars => ContentInv'
  BY ContentNext
<1> QED
  BY <1>1, <1>2, AlwaysTyped, AlwaysMerge, PTL DEF Spec
-------------------------------------------------------------------------------
(* What the contents give.                                                 *)

\* The ranges of the manifest do not overlap, and neither do those of the index.
LEMMA MapsApart ==
    ASSUME StoreTyped, MergeInv, NEW tp \in Partitions
    PROVE  Apart(manifest.live[tp]) /\ Apart(ColdOf(index)[tp])
<1>1. manifest.live \in [Partitions -> Colds] /\ ColdOf(index) \in [Partitions -> Colds]
  BY MapsTyped
<1>2. Filed(manifest.live, objects) /\ Filed(ColdOf(index), objects)
  BY DEF MergeInv, ColdInv
<1>3. Numbered(manifest.live[tp]) /\ Numbered(ColdOf(index)[tp])
  BY <1>1, ColdNumbers
<1>4. FiledIn(tp, manifest.live[tp], objects) /\ FiledIn(tp, ColdOf(index)[tp], objects)
  BY <1>2 DEF Filed
<1> QED
  BY <1>3, <1>4 DEF Apart, Numbered, FiledIn

\* Two ranges of a map that cover an offset are one.
LEMMA OneRange ==
    ASSUME NEW f, Apart(f), NEW o \in Nat, NEW a \in DOMAIN f, NEW b \in DOMAIN f, Covers(f, a, o), Covers(f, b, o)
    PROVE  a = b
<1>1. Max({s \in DOMAIN f : s <= o}) = a
  BY FloorFinds
<1>2. Max({s \in DOMAIN f : s <= o}) = b
  BY FloorFinds
<1> QED
  BY <1>1, <1>2

\* The records of an append in progress are past every range.
LEMMA FlightNotCold ==
    ASSUME StoreTyped, MergeInv, NEW x, InFlight(producer, x), NEW a \in DOMAIN manifest.live[x.tp]
    PROVE  manifest.live[x.tp][a].end <= x.off
<1>1. PICK p \in Producers : producer[p].pc = "wal" /\ Head(producer[p].todo) = x
  BY DEF InFlight
<1>2. ClientsOrder(producer, hw, wal.disk, manifest.live)
  BY DEF MergeInv
<1>3. Below(x.tp, x.off, wal.disk, manifest.live)
  BY <1>1, <1>2, OrderAt DEF Appending
<1> QED
  BY <1>3 DEF Below

\* A record that waits in the log is not in the range of an archived one.
LEMMA WaitingNotCold ==
    ASSUME StoreTyped, MergeInv, NEW x \in Record, Waiting(x, wal.disk, tier),
           NEW b \in DOMAIN manifest.live[x.tp], Covers(manifest.live[x.tp], b, x.off),
           NEW a \in DOMAIN ColdOf(index)[x.tp], Covers(ColdOf(index)[x.tp], a, x.off)
    PROVE  FALSE
<1>1. PICK s \in DOMAIN wal.disk : Has(wal.disk[s], x) /\ ~ Evicted(tier, s, x.tp)
  BY DEF Waiting
<1>2. PICK i \in 1 .. Len(wal.disk[s]) : wal.disk[s][i] = x
  BY <1>1 DEF Has
<1>3. WalOK(wal) /\ LogOrder(wal, tier, manifest.live)
  BY MapsTyped DEF MergeInv
<1>4. wal.disk[s] \in Seq(Record) /\ wal.active \in Nat /\ s \in Nat /\ s <= wal.active
  BY <1>3, WalFields DEF WalOK
<1>5. x.tp \in Partitions /\ x.off \in Nat
  BY RecordFields
<1>6. Apart(manifest.live[x.tp]) /\ Apart(ColdOf(index)[x.tp])
  BY <1>5, MapsApart
<1> DEFINE lo == StartIn(wal.disk[s], x.tp)
           hi == EndIn(wal.disk[s], x.tp)
           be == manifest.live[x.tp][b].end
           ae == ColdOf(index)[x.tp][a].end
<1>7. /\ b \in Nat /\ be \in Nat /\ b <= x.off /\ x.off < be
      /\ a \in Nat /\ ae \in Nat /\ a <= x.off /\ x.off < ae
  BY <1>6 DEF Apart, Covers
<1>8. x.tp \in TpsOf(wal.disk[s])
  BY <1>2, <1>4 DEF TpsOf, ToSet
<1>9. OrderedSeq(wal.disk[s])
  BY <1>3, SegmentOrdered DEF LogOrder
<1>10. GroupFacts(wal.disk[s], x.tp)
  BY <1>4, <1>8, <1>9, GroupRange
<1>11. lo <= x.off /\ x.off < hi /\ lo \in Nat /\ hi \in Nat
  BY <1>2, <1>10 DEF GroupFacts
<1>12. CASE s = wal.active
  <2>1. be <= x.off
    BY <1>2, <1>3, <1>12 DEF LogOrder, ActiveAbove
  <2> HIDE DEF be
  <2> QED
    BY <1>5, <1>7, <2>1
<1>13. CASE s < wal.active
  <2>1. Handled(tier, s, x.tp) \/ Clear(lo, hi, manifest.live[x.tp])
    BY <1>3, <1>8, <1>13 DEF LogOrder, SealedClear
  <2>2. CASE Clear(lo, hi, manifest.live[x.tp])
    <3>1. be <= lo \/ hi <= b
      BY <2>2 DEF Clear
    <3> HIDE DEF be, lo, hi
    <3> QED
      BY <1>5, <1>7, <1>11, <3>1
  <2>3. CASE Handled(tier, s, x.tp)
    <3>1. tier.pc = "flip" /\ x.tp = tier.tp /\ s = tier.queue[1]
      BY <1>1, <2>3 DEF Handled, Evicted
    <3>2. Uploader(tier, wal.disk, manifest.live, ColdOf(index), objects)
      BY DEF MergeInv, ColdInv
    <3>3. Clear(lo, hi, ColdOf(index)[x.tp])
      BY <3>1, <3>2 DEF Uploader, WorkStart, WorkEnd
    <3>4. ae <= lo \/ hi <= a
      BY <3>3 DEF Clear
    <3> HIDE DEF ae, lo, hi
    <3> QED
      BY <1>5, <1>7, <1>11, <3>4
  <2> QED
    BY <2>1, <2>2, <2>3
<1> QED
  BY <1>4, <1>12, <1>13

\* The offset of an archived record is not hot.
LEMMA ArchivedNotHot ==
    ASSUME StoreTyped, MergeInv, ContentInv, NEW r \in Record, Archived(r, ColdOf(index), objects)
    PROVE  r.off \notin DOMAIN index.parts[r.tp].hot
<1> SUFFICES ASSUME r.off \in DOMAIN index.parts[r.tp].hot
             PROVE  FALSE
  OBVIOUS
<1>1. r.tp \in Partitions /\ r.off \in Nat
  BY RecordFields
<1>2. Archived(r, manifest.live, objects)
  BY ArchivedInManifest
<1>3. PICK a \in DOMAIN ColdOf(index)[r.tp] : Covers(ColdOf(index)[r.tp], a, r.off)
  BY DEF Archived
<1>4. PICK b \in DOMAIN manifest.live[r.tp] : Covers(manifest.live[r.tp], b, r.off)
  BY <1>2 DEF Archived
<1> DEFINE x == index.parts[r.tp].hot[r.off]
<1>5. x.tp = r.tp /\ x.off = r.off /\ (Waiting(x, wal.disk, tier) \/ InFlight(producer, x))
  BY <1>1 DEF ContentInv, HotInv, HotBacked
<1>6. x \in Record
  BY <1>1, IndexNaturals DEF StoreTyped
<1> HIDE DEF x
<1>7. CASE Waiting(x, wal.disk, tier)
  BY <1>3, <1>4, <1>5, <1>6, <1>7, WaitingNotCold
<1>8. CASE InFlight(producer, x)
  <2> DEFINE e == manifest.live[r.tp][b].end
  <2>1. e <= r.off
    BY <1>4, <1>5, <1>8, FlightNotCold
  <2>2. r.off < e /\ e \in Nat
    BY <1>1, <1>4, MapsApart DEF Covers, Apart
  <2> HIDE DEF e
  <2> QED
    BY <1>1, <2>1, <2>2
<1> QED
  BY <1>5, <1>7, <1>8

\* A record that waits in the log is the hot one at its offset.
LEMMA WaitingHot ==
    ASSUME ContentInv, NEW r, Waiting(r, wal.disk, tier)
    PROVE  HotAt(index, r)
BY DEF ContentInv, HotInv, HotComplete, Waiting, Has

\* An archived record is the only one at its offset in its object.
LEMMA ArchivedOnly ==
    ASSUME ContentInv, NEW r, NEW a \in DOMAIN ColdOf(index)[r.tp], ColdOf(index)[r.tp][a].key \in DOMAIN objects,
           Has(objects[ColdOf(index)[r.tp][a].key], r), NEW x, Has(objects[ColdOf(index)[r.tp][a].key], x), x.off = r.off
    PROVE  x = r
<1> DEFINE k == ColdOf(index)[r.tp][a].key
<1>1. Neat(k, objects[k])
  BY DEF ContentInv, BodiesInv, AllNeat
<1> HIDE DEF k
<1>2. \A i, j \in 1 .. Len(objects[k]) : objects[k][i].off = objects[k][j].off => objects[k][i] = objects[k][j]
  BY <1>1 DEF Neat
<1> QED
  BY <1>2 DEF Has, k

\* Two records that are present at one offset are one.
LEMMA PresentOnce ==
    ASSUME StoreTyped, MergeInv, ContentInv, NEW r \in Record, NEW x \in Record,
           Present(r, wal.disk, tier, ColdOf(index), objects), Present(x, wal.disk, tier, ColdOf(index), objects),
           r.tp = x.tp, r.off = x.off
    PROVE  r = x
<1>1. r.tp \in Partitions /\ r.off \in Nat
  BY RecordFields
<1>2. ASSUME NEW y, Waiting(y, wal.disk, tier), y.tp = r.tp, y.off = r.off
      PROVE  r.off \in DOMAIN index.parts[r.tp].hot /\ y = index.parts[r.tp].hot[r.off]
  BY <1>2, WaitingHot DEF HotAt
<1>3. CASE Waiting(r, wal.disk, tier)
  <2>1. Waiting(x, wal.disk, tier)
    BY <1>2, <1>3, ArchivedNotHot DEF Present
  <2> QED
    BY <1>2, <1>3, <2>1
<1>4. CASE Archived(r, ColdOf(index), objects)
  <2>1. Archived(x, ColdOf(index), objects)
    BY <1>2, <1>4, ArchivedNotHot DEF Present
  <2>2. PICK a \in DOMAIN ColdOf(index)[r.tp] :
           /\ Covers(ColdOf(index)[r.tp], a, r.off) /\ ColdOf(index)[r.tp][a].key \in DOMAIN objects
           /\ Has(objects[ColdOf(index)[r.tp][a].key], r)
    BY <1>4 DEF Archived
  <2>3. PICK b \in DOMAIN ColdOf(index)[r.tp] :
           Covers(ColdOf(index)[r.tp], b, r.off) /\ Has(objects[ColdOf(index)[r.tp][b].key], x)
    BY <2>1 DEF Archived
  <2>4. a = b
    BY <1>1, <2>2, <2>3, MapsApart, OneRange
  <2> QED
    BY <2>2, <2>3, <2>4, ArchivedOnly
<1> QED
  BY <1>3, <1>4 DEF Present

\* A read of the offset of a record that is present returns the record.
LEMMA ServedPresent ==
    ASSUME StoreTyped, MergeInv, ContentInv, NEW r \in Record, Present(r, wal.disk, tier, ColdOf(index), objects)
    PROVE  Served(r.tp, r.off) = {r}
<1> DEFINE e == index.parts[r.tp]
           plan == read_plan(index, r.tp, r.off)
           n == e.next_offset
<1>1. r.tp \in Partitions /\ r.off \in Nat
  BY RecordFields
<1>2. n \in Nat
  BY <1>1, IndexNaturals DEF StoreTyped
<1>3. CASE Waiting(r, wal.disk, tier)
  <2> DEFINE run == {o \in DOMAIN e.hot : o >= r.off /\ (r.off .. o) \subseteq DOMAIN e.hot}
  <2>1. r.off \in DOMAIN e.hot /\ e.hot[r.off] = r
    BY <1>3, WaitingHot DEF HotAt
  <2>2. /\ \A o \in DOMAIN e.hot : e.hot[o].off = o
        /\ r.off < n
    BY <1>1, <2>1 DEF ContentInv, HotInv, HotBacked
  <2>3. ~ (r.off >= n)
    <3> HIDE DEF n
    <3> QED
      BY <1>1, <1>2, <2>2
  <2>4. plan = [plan |-> "Hot", records |-> {e.hot[o] : o \in run}]
    <3>1. ~ (r.off >= e.next_offset) /\ r.off < e.next_offset
      BY <2>2, <2>3
    <3> QED
      BY <2>1, <3>1 DEF read_plan
  <2>5. r.off \in run
    BY <1>1, <2>1
  <2>6. Served(r.tp, r.off) = {x \in {e.hot[o] : o \in run} : x.off = r.off}
    <3> HIDE DEF run, e
    <3>1. plan.plan = "Hot" /\ plan.records = {e.hot[o] : o \in run}
      BY <2>4
    <3> HIDE DEF plan
    <3> QED
      BY <3>1 DEF Served, plan
  <2>7. run \subseteq DOMAIN e.hot
    OBVIOUS
  <2> HIDE DEF run, e, plan
  <2> QED
    BY <2>1, <2>2, <2>5, <2>6, <2>7
<1>4. CASE Archived(r, ColdOf(index), objects)
  <2>0. ColdOf(index)[r.tp] = e.cold
    BY <1>1, MapsTyped
  <2>1. r.off \notin DOMAIN e.hot
    BY <1>4, ArchivedNotHot
  <2>2. PICK a \in DOMAIN ColdOf(index)[r.tp] :
           /\ Covers(ColdOf(index)[r.tp], a, r.off) /\ ColdOf(index)[r.tp][a].key \in DOMAIN objects
           /\ Has(objects[ColdOf(index)[r.tp][a].key], r)
    BY <1>4 DEF Archived
  <2> DEFINE floor == {s \in DOMAIN e.cold : s <= r.off}
             k == e.cold[a].key
             ae == e.cold[a].end
  <2>3. Apart(e.cold) /\ a \in DOMAIN e.cold /\ Covers(e.cold, a, r.off)
    BY <1>1, <2>0, <2>2, MapsApart
  <2>4. floor # {} /\ Max(floor) = a
    <3> HIDE DEF e
    <3> QED
      BY <1>1, <2>3, FloorFinds
  <2>5. r.off < ae /\ ae \in Nat /\ ae <= n
    BY <1>1, <2>3 DEF Covers, Apart, ContentInv, HotInv, PastCold
  <2>6. ~ (r.off >= n) /\ r.off < n
    <3> HIDE DEF n, ae
    <3> QED
      BY <1>1, <1>2, <2>5
  <2>7. plan = [plan |-> "Cold", key |-> e.cold[Max(floor)].key]
    <3>1. ~ (r.off >= e.next_offset) /\ r.off < e.next_offset /\ r.off < e.cold[Max(floor)].end
      BY <2>4, <2>5, <2>6
    <3> QED
      BY <2>1, <2>4, <3>1 DEF read_plan
  <2>8. k \in DOMAIN objects /\ Has(objects[k], r)
    BY <2>0, <2>2
  <2>9. \A x : Has(objects[k], x) /\ x.off = r.off => x = r
    BY <2>0, <2>2, ArchivedOnly
  <2>10. plan.plan = "Cold" /\ plan.key = k
    <3> HIDE DEF plan, floor, e
    <3>1. plan = [plan |-> "Cold", key |-> k]
      BY <2>4, <2>7
    <3> HIDE DEF k
    <3> QED
      BY <3>1
  <2>11. Served(r.tp, r.off) = {x \in ToSet(objects[k]) : x.off = r.off}
    <3> HIDE DEF k, floor, e, plan
    <3> QED
      BY <2>8, <2>10 DEF Served, plan
  <2>12. objects[k] \in Seq(Record)
    BY <2>8, MapFields DEF StoreTyped, Archives
  <2>13. \A x : x \in ToSet(objects[k]) <=> Has(objects[k], x)
    <3> HIDE DEF k
    <3> QED
      BY <2>12 DEF ToSet, Has
  <2> HIDE DEF k, floor, e, plan
  <2> QED
    BY <2>8, <2>9, <2>11, <2>13
<1> QED
  BY <1>3, <1>4 DEF Present

-------------------------------------------------------------------------------
(* The theorems about the contents.                                        *)

\* Acknowledged records are present.
LEMMA AckedPresent ==
    ASSUME MergeInv, ContentInv, NEW r \in acked
    PROVE  r \in Record /\ Present(r, wal.disk, tier, ColdOf(index), objects)
BY DEF MergeInv, ContentInv, AllPresent

\* Memory never holds a record that no segment backs and no append is about to write, with
\* the compaction task swapping ranges of the index (replace_cold) under the appends too.
THEOREM NothingStrandedMerging ==
    ASSUME Merging
    PROVE  Spec => []NoStrandedHot
<1>1. ContentInv => NoStrandedHot
  BY DEF ContentInv, HotInv, HotBacked, InFlight, Waiting, Has, NoStrandedHot, Contains
<1> QED
  BY <1>1, AlwaysContent, PTL

\* The disk alone restores every acknowledged record, at every moment of execute_plan
\* (upload of the merged object, manifest append, index swap, deletion of the sources) and of
\* tier_segment: it is in a segment, or in the object of the manifest range that recovery
\* would resolve its offset to, which the recovery's garbage collection leaves alone.
THEOREM DurableMerging ==
    ASSUME Merging
    PROVE  Spec => []AckedDurable
<1>1. ASSUME StoreTyped, MergeInv, ContentInv PROVE AckedDurable
  <2> SUFFICES ASSUME NEW r \in acked
               PROVE  \/ \E s \in DOMAIN wal.disk : Contains(wal.disk[s], r)
                      \/ LET live == manifest.live[r.tp]
                             floor == {s \in DOMAIN live : s <= r.off}
                         IN  /\ floor # {} /\ r.off < live[Max(floor)].end
                             /\ live[Max(floor)].key \in DOMAIN objects \ manifest.orphans
                             /\ Contains(objects[live[Max(floor)].key], r)
    BY DEF AckedDurable
  <2>1. r \in Record /\ Present(r, wal.disk, tier, ColdOf(index), objects)
    BY <1>1, AckedPresent
  <2>2. r.tp \in Partitions /\ r.off \in Nat
    BY <2>1, RecordFields
  <2>3. CASE Waiting(r, wal.disk, tier)
    BY <2>3 DEF Waiting, Has, Contains
  <2>4. CASE Archived(r, ColdOf(index), objects)
    <3>1. Archived(r, manifest.live, objects)
      BY <1>1, <2>1, <2>4, ArchivedInManifest
    <3> DEFINE live == manifest.live[r.tp]
               floor == {s \in DOMAIN live : s <= r.off}
    <3>2. PICK a \in DOMAIN live : Covers(live, a, r.off) /\ live[a].key \in DOMAIN objects /\ Has(objects[live[a].key], r)
      BY <3>1 DEF Archived
    <3>3. floor # {} /\ Max(floor) = a
      BY <1>1, <2>2, <3>2, MapsApart, FloorFinds
    <3>4. NoneNamed(manifest.live, manifest.orphans)
      BY <1>1, MapsTyped, BuriedNotNamed DEF MergeInv, ColdInv
    <3>5. live[a].key \notin manifest.orphans
      BY <2>2, <3>2, <3>4 DEF NoneNamed
    <3>6. r.off < live[a].end
      BY <3>2 DEF Covers
    <3> HIDE DEF live, floor
    <3>7. /\ floor # {} /\ r.off < live[Max(floor)].end
          /\ live[Max(floor)].key \in DOMAIN objects \ manifest.orphans
          /\ Contains(objects[live[Max(floor)].key], r)
      BY <3>2, <3>3, <3>5, <3>6 DEF Has, Contains
    <3> QED
      BY <3>7 DEF live, floor
  <2> QED
    BY <2>1, <2>3, <2>4 DEF Present
<1> QED
  BY <1>1, AlwaysTyped, AlwaysMerge, AlwaysContent, PTL

\* Every acknowledged record is what PartitionStore::read returns at its offset, while its
\* segment is tiered and its object is merged into another and deleted by execute_plan.
THEOREM ReadableMerging ==
    ASSUME Merging
    PROVE  Spec => []AckedReadable
<1>1. ASSUME StoreTyped, MergeInv, ContentInv PROVE AckedReadable
  BY <1>1, AckedPresent, ServedPresent DEF AckedReadable
<1> QED
  BY <1>1, AlwaysTyped, AlwaysMerge, AlwaysContent, PTL

\* With one request at a time per partition, append_records acknowledges no offset for two
\* records, with compaction and restarts: the merged ranges keep next_offset where it was.
THEOREM OffsetsFreshMerging ==
    ASSUME Merging
    PROVE  Spec => []OffsetsNotReused
<1>1. ASSUME StoreTyped, MergeInv, ContentInv PROVE OffsetsNotReused
  BY <1>1, AckedPresent, PresentOnce DEF OffsetsNotReused
<1> QED
  BY <1>1, AlwaysTyped, AlwaysMerge, AlwaysContent, PTL

\* A record that is present is below the next offset.
LEMMA PresentBelow ==
    ASSUME StoreTyped, ContentInv, NEW r \in Record, Present(r, wal.disk, tier, ColdOf(index), objects)
    PROVE  r.off < index.parts[r.tp].next_offset
<1> DEFINE n == index.parts[r.tp].next_offset
<1>1. r.tp \in Partitions /\ r.off \in Nat
  BY RecordFields
<1>2. n \in Nat
  BY <1>1, IndexNaturals DEF StoreTyped
<1>3. HotBacked(index, wal.disk, tier, producer) /\ PastCold(index)
  BY DEF ContentInv, HotInv
<1>4. CASE Waiting(r, wal.disk, tier)
  BY <1>1, <1>3, <1>4, WaitingHot DEF HotAt, HotBacked
<1>5. CASE Archived(r, ColdOf(index), objects)
  <2>1. PICK a \in DOMAIN ColdOf(index)[r.tp] : Covers(ColdOf(index)[r.tp], a, r.off)
    BY <1>5 DEF Archived
  <2> DEFINE e == index.parts[r.tp].cold[a].end
  <2>2. ColdOf(index)[r.tp] = index.parts[r.tp].cold /\ Numbered(ColdOf(index)[r.tp])
    BY <1>1, MapsTyped, ColdNumbers
  <2>3. e \in Nat /\ r.off < e /\ e <= n
    BY <1>1, <1>3, <2>1, <2>2 DEF Numbered, Covers, PastCold
  <2> HIDE DEF e, n
  <2>4. r.off < n
    BY <1>1, <1>2, <2>3
  <2> QED
    BY <2>4 DEF n
<1> QED
  BY <1>4, <1>5 DEF Present

\* The store with compaction implements the partition log: reads of acknowledged offsets
\* return what was acknowledged there while execute_plan uploads, records, swaps and deletes
\* between the steps of appends, of tier_segment and of recovery.
THEOREM MergingImplementsPartitionLog ==
    ASSUME Merging
    PROVE  Spec => StoreIsPartitionLog
<1>1. ASSUME StoreTyped, MergeInv, ContentInv PROVE LogReads
  <2>1. acked \in SUBSET Record /\ OnePerOffset(acked)
    BY <1>1, AckedPresent, PresentOnce DEF OnePerOffset
  <2>2. \A r \in acked : Served(r.tp, r.off) = {r} /\ r.off < index.parts[r.tp].next_offset
    BY <1>1, AckedPresent, ServedPresent, PresentBelow
  <2>3. \A p \in Producers : Busy(producer[p]) => RequestPlaced(producer[p])
    BY <1>1 DEF MergeInv, ClientsOrder, RequestOrder, RequestPlaced
  <2>4. faults["wal"] = 0
    BY <1>1 DEF MergeInv, Calm
  <2> QED
    BY <2>1, <2>2, <2>3, <2>4 DEF LogReads
<1>2. Disciplined
  BY DEF Merging
<1> QED
  BY <1>1, <1>2, AlwaysTyped, AlwaysMerge, AlwaysContent, LogRefines, PTL

-------------------------------------------------------------------------------
(* Offsets stay mapped.                                                    *)

\* Every offset that a range of maps covers, a range of new covers.
Covered(f, o) == \E a \in DOMAIN f : Covers(f, a, o)
CoverKept(new, maps) == \A tp \in Partitions : \A o \in Offsets : Covered(maps[tp], o) => Covered(new[tp], o)

\* Ranges that stay cover what they covered.
LEMMA KeptCover ==
    ASSUME NEW new, NEW maps, RangesKept(new, maps)
    PROVE  CoverKept(new, maps)
BY DEF RangesKept, CoverKept, Covered, Covers

\* The offsets of a source are those of the merged range.
LEMMA CoverInMerge ==
    ASSUME NEW maps \in [Partitions -> Colds], NEW objs, Filed(maps, objs), NEW plan \in Plans, plan.tp \in Partitions,
           PlanSound(plan), SourcesIn(plan, maps), NEW new, NEW size, MergedIn(plan, size, new),
           NEW a \in DOMAIN maps[plan.tp], MergedStart(plan) <= a, a < MergedEnd(plan),
           NEW o \in Offsets, Covers(maps[plan.tp], a, o)
    PROVE  Covered(new[plan.tp], o)
<1> DEFINE f == maps[plan.tp]
           ms == MergedStart(plan)
           me == MergedEnd(plan)
<1>1. Disjoint(f) /\ Tiled(f, ms, me)
  BY FiledDisjoint, SourcesTile
<1>2. ms \in DOMAIN new[plan.tp] /\ new[plan.tp][ms].end = me
  BY DEF MergedIn, ObjectRange
<1>3. a \in DOMAIN f /\ ms <= a /\ a < me /\ a <= o /\ o < f[a].end
  BY DEF Covers
<1>4. o \in Nat
  BY StoreConstants DEF Offsets
<1> HIDE DEF f, ms, me
<1>5. f[a].end <= me
  BY <1>1, <1>3, TileEnds
<1>6. a \in Nat /\ f[a].end \in Nat /\ ms \in Nat /\ me \in Nat
  BY <1>1, <1>3 DEF Disjoint, Numbered, Tiled
<1>7. ms <= o /\ o < me
  BY <1>3, <1>4, <1>5, <1>6
<1> QED
  BY <1>2, <1>7 DEF Covered, Covers

\* The index swap of a compaction covers what the sources covered.
LEMMA CoverReplaced ==
    ASSUME StoreTyped, MergeInv, CompactReplace
    PROVE  CoverKept(ColdOf(index'), ColdOf(index))
<1> DEFINE new == ColdOf(index')
           maps == ColdOf(index)
           plan == compact.plan
<1>1. MergedAt(new, maps, plan, compact.size)
  BY ReplacedMap
<1>2. compact.pc = "replace"
  BY DEF CompactReplace
<1>3. Merger(compact, manifest.live, maps, objects) /\ Filed(maps, objects)
  BY DEF MergeInv, ColdInv
<1>4. maps \in [Partitions -> Colds] /\ compact.plans \subseteq Plans
  BY MapsTyped
<1>5. plan \in Plans /\ PlanSound(plan) /\ SourcesIn(plan, maps)
  BY <1>2, <1>3, <1>4 DEF Merger
<1> HIDE DEF new, maps, plan
<1>6. MergedIn(plan, compact.size, new)
  BY <1>1 DEF MergedAt, MergedMap, MergedIn
<1>7. SUFFICES ASSUME NEW tp \in Partitions, NEW o \in Offsets, NEW a \in DOMAIN maps[tp], Covers(maps[tp], a, o)
               PROVE  Covered(new[tp], o)
  BY DEF CoverKept, Covered, new, maps
<1>8. CASE tp # plan.tp
  BY <1>1, <1>7, <1>8 DEF MergedAt, Covered
<1>9. CASE tp = plan.tp /\ ~ (MergedStart(plan) <= a /\ a < MergedEnd(plan))
  <2>1. a \in DOMAIN new[tp] /\ new[tp][a] = maps[tp][a]
    BY <1>1, <1>7, <1>9 DEF MergedAt, MergedMap
  <2> QED
    BY <1>7, <2>1 DEF Covered, Covers
<1>10. CASE tp = plan.tp /\ MergedStart(plan) <= a /\ a < MergedEnd(plan)
  BY <1>3, <1>4, <1>5, <1>6, <1>7, <1>10, CoverInMerge
<1> QED
  BY <1>8, <1>9, <1>10

\* The manifest covers what the index covers.
LEMMA CoverInManifest ==
    ASSUME StoreTyped, MergeInv
    PROVE  CoverKept(manifest.live, ColdOf(index))
<1> DEFINE live == manifest.live
           maps == ColdOf(index)
           plan == compact.plan
<1>1. /\ Merger(compact, live, maps, objects) /\ Filed(maps, objects)
      /\ Mirrors(live, maps, tier, wal.disk, compact)
  BY DEF MergeInv, ColdInv
<1>2. maps \in [Partitions -> Colds] /\ compact.plans \subseteq Plans
  BY MapsTyped
<1> HIDE DEF live, maps
<1>3. SUFFICES ASSUME NEW tp \in Partitions, NEW o \in Offsets, NEW a \in DOMAIN maps[tp], Covers(maps[tp], a, o)
               PROVE  Covered(live[tp], o)
  BY DEF CoverKept, Covered, live, maps
<1>4. CASE a \in DOMAIN live[tp] /\ live[tp][a] = maps[tp][a]
  BY <1>3, <1>4 DEF Covered, Covers
<1>5. CASE Swapping(compact, tp, a)
  <2>1. compact.pc = "replace" /\ tp = plan.tp /\ MergedStart(plan) <= a /\ a < MergedEnd(plan)
    BY <1>5 DEF Swapping
  <2>2. plan \in Plans /\ PlanSound(plan) /\ SourcesIn(plan, maps) /\ MergedIn(plan, compact.size, live)
    BY <1>1, <1>2, <2>1 DEF Merger
  <2> HIDE DEF plan
  <2> QED
    BY <1>1, <1>2, <1>3, <2>1, <2>2, CoverInMerge
<1> QED
  BY <1>1, <1>3, <1>4, <1>5 DEF Mirrors

\* Every step keeps covered offsets covered.
LEMMA CoverNext ==
    ASSUME Merging, StoreTyped, MergeInv, [Next]_vars
    PROVE  CoverKept(ColdOf(index'), ColdOf(index))
<1>1. /\ ~ TierFail /\ ~ TierTear /\ ~ CompactTear /\ ~ \E plan \in compact.plans : CompactFail(plan)
      /\ ~ \E tp \in Partitions : LoseLeadership(tp) \/ GainLeadership(tp)
  BY MergeNotTaken
<1>2. CASE ColdOf(index') = ColdOf(index)
  BY <1>2 DEF CoverKept
<1>3. CASE Produce
  <2>1. ASSUME NEW p \in Producers, InsertHot(p) PROVE ColdOf(index') = ColdOf(index)
    <3> DEFINE rec == Head(producer[p].todo)
    <3>1. HotInserted(index', index, rec.tp, rec.off, rec)
      BY <2>1, TypedInsertHot
    <3>2. \A tp \in Partitions : index'.parts[tp].cold = index.parts[tp].cold
      BY <3>1 DEF HotInserted, Elsewhere
    <3> QED
      BY <3>2, SameCold
  <2>2. ASSUME NEW p \in Producers, AppendRollback(p) PROVE FALSE
    BY <2>2 DEF AppendRollback, MergeInv, ClientsOrder, RequestOrder, Busy
  <2>3. (\E p \in Producers : InsertHot(p)) \/ index' = index
    <3>1. ASSUME NEW p \in Producers, NEW tp \in Partitions, NEW n \in BatchSizes, NEW a \in AckLevels, NEW s \in Sizes,
                 ProduceStart(p, tp, n, a, s)
          PROVE  index' = index
      BY <3>1 DEF ProduceStart
    <3>2. ASSUME NEW p \in Producers, AwaitCapacity(p) \/ WalAppend(p) \/ WalAppendErr(p) \/ ProduceCommit(p)
          PROVE  index' = index
      BY <3>2 DEF AwaitCapacity, WalAppend, WalAppendErr, ProduceCommit
    <3>3. FlushTick => index' = index
      BY DEF FlushTick
    <3> QED
      BY <1>3, <2>2, <3>1, <3>2, <3>3 DEF Produce
  <2> QED
    BY <1>2, <2>1, <2>3
<1>4. CASE TierFlip
  BY <1>4, FlipRanges, KeptCover
<1>5. CASE CompactReplace
  BY <1>5, CoverReplaced
<1>6. CASE CrashRestart
  <2>1. Recovered(index', manifest', wal') /\ manifest'.live = manifest.live
    BY <1>6, TypedCrash
  <2>2. \A tp \in Partitions : ColdOf(index')[tp] = manifest.live[tp]
    BY <2>1 DEF Recovered, ColdOf
  <2> QED
    BY <2>2, CoverInManifest DEF CoverKept
<1>7. Tiering => TierFlip \/ index' = index
  BY DEF Tiering, TierOnce, TierReadSegment, TierPreCheck, TierUpload, TierPostCheck, TierRegister, TierReclaim
<1>8. Compacting => CompactReplace \/ index' = index
  BY DEF Compacting, CompactCycle, CompactUpload, CompactRecord, CompactDelete
<1>9. Reading \/ UNCHANGED vars => index' = index
  BY DEF Reading, ReadStart, ReadDownload, ReadRetry, vars
<1> QED
  BY <1>1, <1>2, <1>3, <1>4, <1>5, <1>6, <1>7, <1>8, <1>9 DEF Next

\* An offset resolves to a range exactly when one covers it.
LEMMA ResolvesCovered ==
    ASSUME StoreTyped, MergeInv, NEW tp \in Partitions, NEW o \in Offsets
    PROVE  ColdResolves(tp, o) <=> Covered(ColdOf(index)[tp], o)
<1>1. Apart(ColdOf(index)[tp]) /\ o \in Nat /\ ColdOf(index)[tp] = index.parts[tp].cold
  BY MapsApart, MapsTyped, StoreConstants DEF Offsets
<1> DEFINE f == index.parts[tp].cold
<1>2. ASSUME NEW a \in DOMAIN f, Covers(f, a, o) PROVE ColdResolves(tp, o)
  <2>1. \A t \in DOMAIN f : t <= o => t <= a
    <3>1. Apart(f)
      BY <1>1
    <3> HIDE DEF f
    <3> QED
      BY <1>1, <1>2, <3>1, FloorFinds
  <2> QED
    BY <1>2, <2>1 DEF ColdResolves, Covers
<1> QED
  BY <1>1, <1>2 DEF ColdResolves, Covered, Covers

\* An offset that resolves to a cold object keeps resolving to one: replace_cold puts the
\* merged range where its sources were, and recovery inserts the range that a compaction
\* recorded even if the crash came before the index swap.
THEOREM NeverUnmappedMerging ==
    ASSUME Merging
    PROVE  Spec => ColdNeverUnmapped
<1>1. ASSUME StoreTyped, StoreTyped', MergeInv, MergeInv', [Next]_vars
      PROVE  [\A tp \in Partitions, o \in Offsets : ColdResolves(tp, o) => ColdResolves(tp, o)']_vars
  <2> SUFFICES ASSUME NEW tp \in Partitions, NEW o \in Offsets, ColdResolves(tp, o)
               PROVE  ColdResolves(tp, o)'
    OBVIOUS
  <2>1. Covered(ColdOf(index)[tp], o)
    BY <1>1, ResolvesCovered
  <2>2. Covered(ColdOf(index')[tp], o)
    BY <1>1, <2>1, CoverNext DEF CoverKept
  <2>3. (StoreTyped /\ MergeInv => (ColdResolves(tp, o) <=> Covered(ColdOf(index)[tp], o)))'
    BY ResolvesCovered, PTL
  <2>4. (ColdOf(index)[tp])' = ColdOf(index')[tp]
    BY DEF ColdOf
  <2>5. Covered(ColdOf(index)[tp], o)'
    BY <2>2, <2>4 DEF Covered, Covers
  <2> QED
    BY <1>1, <2>3, <2>5
<1> QED
  BY <1>1, AlwaysTyped, AlwaysMerge, PTL DEF Spec, ColdNeverUnmapped

===============================================================================
