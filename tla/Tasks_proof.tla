----------------------------- MODULE Tasks_proof -----------------------------
(***************************************************************************)
(* The components around the broker whose tasks and threads share a queue: *)
(* a shard of the read cache, producers and a consumer of the SDK, for any *)
(* number of threads, producers, messages and failures.                    *)
(***************************************************************************)
EXTENDS LruCacheShard, SdkProducer, SdkConsumer, SharedLemmas, SequenceTheorems

-------------------------------------------------------------------------------
(* The read cache.                                                         *)

CacheSections == {"none", "get", "evict", "insert", "remove", "clear"}
CacheLocks == {"entries", "order", "size"}

\* An operation under way.
CacheOperation == [section : CacheSections, key : CacheKeys \cup {Nobody}, size : EntrySizes \cup {0},
                   locks : Seq(CacheLocks)]

CacheTypeOK ==
    /\ entries \in [DOMAIN entries -> Nat] /\ DOMAIN entries \subseteq CacheKeys
    /\ IsFiniteSet(DOMAIN entries)
    /\ lruOrder \in Seq(CacheKeys \cup {Nobody}) /\ shardSize \in Nat /\ overlap \in BOOLEAN
    /\ doing \in [Threads -> CacheOperation]
    /\ \A t \in Threads : doing[t].section \in {"get", "evict", "insert", "remove"} => doing[t].key \in CacheKeys
    /\ \A t \in Threads : doing[t].section = "insert" => doing[t].size \in EntrySizes
    /\ \A t \in Threads : doing[t].section = "evict" => doing[t].size \in EntrySizes

\* The count is that of the entries, and the queue has all of them.
CacheCounted == shardSize = Bytes(entries) /\ DOMAIN entries \subseteq ToSet(lruOrder)

\* Every value fits into an empty shard.
ValuesFit == \A n \in EntrySizes : n <= ShardBytes

\* Without an overlap one put at most is between its sections, and there is room for it.
RoomKept ==
    ~overlap =>
        /\ shardSize <= ShardBytes
        /\ \A t \in Threads : doing[t].section = "insert" => shardSize + doing[t].size <= ShardBytes
        /\ \A t, u \in Threads : doing[t].section = "insert" /\ doing[u].section = "insert" => t = u

CacheInv == CacheTypeOK /\ CacheCounted /\ (ValuesFit => RoomKept)

-------------------------------------------------------------------------------
(* The counter.                                                            *)

\* The bytes of the entries are their sum in the sense of SharedLemmas.
LEMMA BytesIsTotal ==
    ASSUME NEW es PROVE Bytes(es) = Total(es, DOMAIN es)
BY DEF Bytes, Total

\* The entries without some keys.
IsWithout(left, es, keys) == left = [k \in DOMAIN es \ keys |-> es[k]]

\* Taking keys away takes away their bytes, and no more than there are.
LEMMA BytesWithout ==
    ASSUME NEW es, IsFiniteSet(DOMAIN es), es \in [DOMAIN es -> Nat], NEW keys,
           NEW left, IsWithout(left, es, keys)
    PROVE  /\ Bytes(es) \in Nat /\ Bytes(left) \in Nat /\ Bytes(left) <= Bytes(es)
           /\ \A k \in DOMAIN es : keys = {k} => Bytes(es) = es[k] + Bytes(left)
<1> DEFINE D == DOMAIN es
           T == D \cap keys
<1>1. IsFiniteSet(D) /\ NatValued(es, D) /\ T \in SUBSET D /\ D \ T = D \ keys
  BY DEF NatValued
<1>2. DOMAIN left = D \ T /\ IsFiniteSet(D \ T) /\ NatValued(es, D \ T)
  BY <1>1, FS_Subset DEF NatValued, IsWithout
<1>3. \A k \in D \ T : left[k] = es[k]
  BY <1>1 DEF IsWithout
<1> HIDE DEF D, T
<1>4. Total(left, D \ T) = Total(es, D \ T)
  BY <1>2, <1>3, TotalAgrees
<1>5. /\ Total(es, D) \in Nat /\ Total(es, T) \in Nat /\ Total(es, D \ T) \in Nat
      /\ Total(es, D) = Total(es, T) + Total(es, D \ T)
  BY <1>1, TotalSplit
<1>6. Bytes(es) = Total(es, D) /\ Bytes(left) = Total(es, D \ T)
  BY <1>2, <1>4, BytesIsTotal DEF D
<1>7. ASSUME NEW k \in DOMAIN es, keys = {k} PROVE Bytes(es) = es[k] + Bytes(left)
  <2>1. D \ T = D \ {k} /\ k \in D
    BY <1>7 DEF D, T
  <2>2. Total(es, D) = es[k] + Total(es, D \ {k})
    BY <1>1, <2>1, TotalLaws
  <2> QED
    BY <1>6, <2>1, <2>2
<1>8. Bytes(es) \in Nat /\ Bytes(left) \in Nat /\ Bytes(left) <= Bytes(es)
  BY <1>5, <1>6
<1> QED
  BY <1>7, <1>8

\* The entries with the value of a key.
IsWith(more, es, k, n) == more = [x \in DOMAIN es \cup {k} |-> IF x = k THEN n ELSE es[x]]

\* The bytes of the entries when the n bytes of k replace what k had.
Replaces(more, es, k, n) ==
    /\ Bytes(es) \in Nat /\ Bytes(more) \in Nat
    /\ k \in DOMAIN es => es[k] <= Bytes(es) /\ Bytes(more) = Bytes(es) - es[k] + n
    /\ k \notin DOMAIN es => Bytes(more) = Bytes(es) + n

\* Storing a value replaces the bytes of the key.
LEMMA BytesWith ==
    ASSUME NEW es, IsFiniteSet(DOMAIN es), es \in [DOMAIN es -> Nat], NEW k, NEW n \in Nat,
           NEW more, IsWith(more, es, k, n)
    PROVE  Replaces(more, es, k, n)
<1> DEFINE D == DOMAIN es
           E == D \cup {k}
<1>1. DOMAIN more = E /\ NatValued(more, E) /\ IsFiniteSet(E)
  BY FS_AddElement DEF NatValued, IsWith
<1>2. IsFiniteSet(E \ {k}) /\ NatValued(es, E \ {k}) /\ \A x \in E \ {k} : more[x] = es[x]
  BY <1>1, FS_Subset DEF NatValued, IsWith
<1>3. k \in E /\ more[k] = n /\ IsFiniteSet(D) /\ NatValued(es, D)
  BY DEF NatValued, IsWith
<1>4. E \ {k} = D \ {k} /\ (k \notin D => D \ {k} = D)
  OBVIOUS
<1> HIDE DEF D, E
<1>5. Total(more, E) \in Nat /\ Total(more, E) = n + Total(more, E \ {k})
  BY <1>1, <1>3, TotalLaws
<1>6. Total(more, E \ {k}) = Total(es, E \ {k})
  BY <1>2, TotalAgrees
<1>7. Total(es, D) \in Nat /\ Total(es, E \ {k}) \in Nat
  BY <1>2, <1>3, TotalLaws
<1>8. k \in D => Total(es, D) = es[k] + Total(es, D \ {k})
  BY <1>3, TotalLaws
<1>9. Bytes(es) = Total(es, D) /\ Bytes(more) = Total(more, E)
  BY <1>1, BytesIsTotal DEF D
<1>10. k \in D => es[k] \in Nat
  BY <1>3 DEF NatValued
<1>11. k \in D => es[k] <= Bytes(es) /\ Bytes(more) = Bytes(es) - es[k] + n
  BY <1>4, <1>5, <1>6, <1>7, <1>8, <1>9, <1>10
<1>12. k \notin D => Bytes(more) = Bytes(es) + n
  <2> SUFFICES ASSUME k \notin D PROVE Bytes(more) = Bytes(es) + n
    OBVIOUS
  <2>1. E \ {k} = D
    BY <1>4
  <2>2. Total(more, E) = n + Total(es, D)
    BY <1>5, <1>6, <2>1
  <2> QED
    BY <1>7, <1>9, <2>2
<1> QED
  BY <1>5, <1>7, <1>9, <1>11, <1>12 DEF D, Replaces

-------------------------------------------------------------------------------
(* The queue.                                                              *)

\* A key that moves to the back stays in the queue, with the others.
LEMMA MovedToBack ==
    ASSUME NEW K, NEW s \in Seq(K), NEW k \in K
    PROVE  /\ Append(RemoveFirst(s, k), k) \in Seq(K)
           /\ ToSet(s) \subseteq ToSet(Append(RemoveFirst(s, k), k))
<1>1. CASE ~ \E i \in 1 .. Len(s) : s[i] = k
  BY <1>1 DEF RemoveFirst, ToSet
<1>2. CASE \E i \in 1 .. Len(s) : s[i] = k
  <2> DEFINE I == {i \in 1 .. Len(s) : s[i] = k}
             j == Min(I)
             u == SubSeq(s, 1, j - 1)
             v == SubSeq(s, j + 1, Len(s))
  <2>1. RemoveFirst(s, k) = u \o v
    BY <1>2 DEF RemoveFirst, RemoveAt, SelectInSeq
  <2>2. j \in I
    <3>1. I \subseteq Nat /\ I # {}
      BY <1>2
    <3> HIDE DEF I
    <3> QED
      BY <3>1, MinOfNaturals
  <2>3. j \in 1 .. Len(s) /\ s[j] = k
    BY <2>2
  <2> HIDE DEF I, j
  <2>4. /\ u \in Seq(K) /\ v \in Seq(K) /\ Len(u) = j - 1 /\ Len(v) = Len(s) - j
        /\ \A i \in 1 .. j - 1 : u[i] = s[i]
        /\ \A i \in 1 .. Len(s) - j : v[i] = s[j + i]
    BY <2>3
  <2> HIDE DEF u, v
  <2>5. /\ u \o v \in Seq(K) /\ Len(u \o v) = Len(s) - 1
        /\ \A i \in 1 .. j - 1 : (u \o v)[i] = s[i]
        /\ \A i \in j .. Len(s) - 1 : (u \o v)[i] = s[i + 1]
    <3>1. /\ u \o v \in Seq(K) /\ Len(u \o v) = Len(s) - 1
          /\ \A i \in 1 .. j - 1 : (u \o v)[i] = s[i]
      BY <2>3, <2>4
    <3>2. ASSUME NEW i \in j .. Len(s) - 1 PROVE (u \o v)[i] = s[i + 1]
      <4>1. i - (j - 1) \in 1 .. Len(s) - j /\ j + (i - (j - 1)) = i + 1 /\ i \in 1 .. Len(u) + Len(v) /\ i > Len(u)
        BY <2>3, <2>4
      <4>2. (u \o v)[i] = v[i - Len(u)]
        BY <2>4, <4>1
      <4> QED
        BY <2>4, <4>1, <4>2
    <3> QED
      BY <3>1, <3>2
  <2> DEFINE w == u \o v
  <2>6. /\ Append(w, k) \in Seq(K) /\ Len(Append(w, k)) = Len(s) /\ Append(w, k)[Len(s)] = k
        /\ \A i \in 1 .. Len(s) - 1 : Append(w, k)[i] = w[i]
    BY <2>3, <2>5
  <2> HIDE DEF w
  <2>7. ASSUME NEW i \in 1 .. Len(s) PROVE \E m \in 1 .. Len(s) : Append(w, k)[m] = s[i]
    <3>1. CASE i < j
      BY <2>3, <2>5, <2>6, <3>1 DEF w
    <3>2. CASE i = j
      BY <2>3, <2>6, <3>2
    <3>3. CASE i > j
      <4>1. i - 1 \in j .. Len(s) - 1 /\ i - 1 \in 1 .. Len(s) - 1 /\ (i - 1) + 1 = i /\ i - 1 \in 1 .. Len(s)
        BY <2>3, <3>3
      <4>2. Append(w, k)[i - 1] = s[i]
        BY <2>5, <2>6, <4>1 DEF w
      <4> QED
        BY <4>1, <4>2
    <3>4. i < j \/ i = j \/ i > j
      BY <2>3
    <3> QED
      BY <3>1, <3>2, <3>3, <3>4
  <2>8. DOMAIN Append(w, k) = 1 .. Len(s) /\ DOMAIN s = 1 .. Len(s)
    BY <2>6
  <2>9. ToSet(s) \subseteq ToSet(Append(w, k))
    BY <2>7, <2>8 DEF ToSet
  <2> QED
    BY <2>1, <2>6, <2>9 DEF w
<1> QED
  BY <1>1, <1>2

\* What is not popped is left.
LEMMA QueueSplit ==
    ASSUME NEW K, NEW s \in Seq(K), NEW n \in 0 .. Len(s)
    PROVE  /\ SubSeq(s, n + 1, Len(s)) \in Seq(K)
           /\ ToSet(s) \subseteq ToSet(SubSeq(s, 1, n)) \cup ToSet(SubSeq(s, n + 1, Len(s)))
           /\ n = Len(s) => ToSet(SubSeq(s, 1, n)) = ToSet(s)
<1> DEFINE u == SubSeq(s, 1, n)
           v == SubSeq(s, n + 1, Len(s))
<1>1. /\ u \in Seq(K) /\ v \in Seq(K) /\ Len(u) = n /\ Len(v) = Len(s) - n
      /\ \A i \in 1 .. n : u[i] = s[i]
      /\ \A i \in 1 .. Len(s) - n : v[i] = s[n + i]
  OBVIOUS
<1>2. DOMAIN u = 1 .. n /\ DOMAIN v = 1 .. Len(s) - n /\ DOMAIN s = 1 .. Len(s)
  BY <1>1
<1> HIDE DEF u, v
<1>3. ASSUME NEW i \in 1 .. Len(s)
      PROVE  (\E j \in 1 .. n : u[j] = s[i]) \/ (\E j \in 1 .. Len(s) - n : v[j] = s[i])
  <2>1. CASE i <= n
    <3>1. i \in 1 .. n
      BY <2>1
    <3>2. u[i] = s[i]
      BY <1>1, <3>1
    <3> QED
      BY <3>1, <3>2, Zenon
  <2>2. CASE i > n
    <3>1. i - n \in 1 .. Len(s) - n /\ n + (i - n) = i
      BY <2>2
    <3>2. v[i - n] = s[n + (i - n)]
      BY <1>1, <3>1, Zenon
    <3>3. v[i - n] = s[i]
      BY <3>1, <3>2, Zenon
    <3> QED
      BY <3>1, <3>3, Zenon
  <2> QED
    BY <2>1, <2>2
<1>4. ToSet(s) \subseteq ToSet(u) \cup ToSet(v)
  BY <1>2, <1>3 DEF ToSet
<1>5. n = Len(s) => ToSet(u) = ToSet(s)
  BY <1>1, <1>2 DEF ToSet
<1> QED
  BY <1>1, <1>4, <1>5 DEF u, v

-------------------------------------------------------------------------------
(* The steps.                                                              *)

\* An operation in a section of the code is of the right shape.
LEMMA SectionTyped ==
    ASSUME NEW s \in CacheSections \ {"none"}, NEW k \in CacheKeys \cup {Nobody}, NEW n \in EntrySizes \cup {0}
    PROVE  /\ Section(s, k, n) \in CacheOperation
           /\ Section(s, k, n).section = s /\ Section(s, k, n).key = k /\ Section(s, k, n).size = n
<1>1. LocksOf[s] \in Seq(CacheLocks)
  <2>1. /\ <<"entries", "order">> \in Seq(CacheLocks) /\ <<"entries", "size">> \in Seq(CacheLocks)
        /\ <<"size", "entries", "order">> \in Seq(CacheLocks)
        /\ <<"entries", "order", "size">> \in Seq(CacheLocks)
        /\ <<"entries", "size", "order">> \in Seq(CacheLocks)
    BY DEF CacheLocks
  <2>2. /\ LocksOf["get"] = <<"entries", "order">> /\ LocksOf["evict"] = <<"size", "entries", "order">>
        /\ LocksOf["insert"] = <<"entries", "order", "size">> /\ LocksOf["remove"] = <<"entries", "size">>
        /\ LocksOf["clear"] = <<"entries", "size", "order">>
    BY DEF LocksOf
  <2>3. s \in {"get", "evict", "insert", "remove", "clear"}
    BY DEF CacheSections
  <2>4. CASE s = "get"
    BY <2>1, <2>2, <2>4
  <2>5. CASE s = "evict"
    BY <2>1, <2>2, <2>5
  <2>6. CASE s = "insert"
    BY <2>1, <2>2, <2>6
  <2>7. CASE s = "remove"
    BY <2>1, <2>2, <2>7
  <2>8. CASE s = "clear"
    BY <2>1, <2>2, <2>8
  <2> QED
    BY <2>3, <2>4, <2>5, <2>6, <2>7, <2>8
<1> QED
  BY <1>1 DEF Section, CacheOperation

\* A thread without an operation is in no section.
LEMMA NoOpTyped == NoOp \in CacheOperation /\ NoOp.section = "none"
BY DEF NoOp, CacheOperation, CacheSections

\* Replacing one operation by one in order keeps what holds of each.
LEMMA DoingTyped ==
    ASSUME CacheTypeOK, NEW t \in Threads, NEW next \in CacheOperation,
           next.section \in {"get", "evict", "insert", "remove"} => next.key \in CacheKeys,
           next.section \in {"insert", "evict"} => next.size \in EntrySizes,
           doing' = [doing EXCEPT ![t] = next]
    PROVE  /\ doing' \in [Threads -> CacheOperation]
           /\ doing'[t] = next /\ \A u \in Threads \ {t} : doing'[u] = doing[u]
           /\ \A u \in Threads : doing'[u].section \in {"get", "evict", "insert", "remove"} => doing'[u].key \in CacheKeys
           /\ \A u \in Threads : doing'[u].section = "insert" => doing'[u].size \in EntrySizes
           /\ \A u \in Threads : doing'[u].section = "evict" => doing'[u].size \in EntrySizes
BY DEF CacheTypeOK

\* A new shard is empty and its count zero.
LEMMA CacheInitOK == CacheInit => CacheInv
<1> SUFFICES ASSUME CacheInit PROVE CacheInv
  OBVIOUS
<1> USE CacheConstants
<1>1. DOMAIN entries = {} /\ IsFiniteSet(DOMAIN entries) /\ entries \in [DOMAIN entries -> Nat]
  BY FS_EmptySet DEF CacheInit
<1>2. Bytes(entries) = 0
  <2>1. Bytes(entries) = Total(entries, {})
    BY <1>1, BytesIsTotal
  <2>2. NatValued(entries, {}) /\ IsFiniteSet({})
    BY FS_EmptySet DEF NatValued
  <2> QED
    BY <2>1, <2>2, TotalLaws
<1>3. \A t \in Threads : doing[t] = NoOp
  BY DEF CacheInit
<1>4. CacheTypeOK
  <2>a. overlap = FALSE /\ lruOrder = <<>> /\ shardSize = 0
    BY DEF CacheInit
  <2>b. overlap \in BOOLEAN
    BY <2>a, Zenon
  <2>1. lruOrder \in Seq(CacheKeys \cup {Nobody}) /\ shardSize \in Nat /\ overlap \in BOOLEAN
    BY <2>a, <2>b
  <2>2. doing = [t \in Threads |-> NoOp]
    BY DEF CacheInit
  <2>3. doing \in [Threads -> CacheOperation]
    BY <2>2, NoOpTyped
  <2> QED
    BY <1>1, <1>3, <2>1, <2>3, NoOpTyped DEF CacheTypeOK
<1>5. CacheCounted
  BY <1>1, <1>2 DEF CacheInit, CacheCounted
<1>6. RoomKept
  BY <1>3, NoOpTyped DEF CacheInit, RoomKept
<1> QED
  BY <1>4, <1>5, <1>6 DEF CacheInv

\* What a step does to the map, the queue and the counter, with the operations typed,
\* is all the invariant needs.
LEMMA StartOpKeeps ==
    ASSUME CacheInv, NEW t \in Threads, NEW s \in {"get", "evict", "remove", "clear"},
           NEW k, s = "clear" => k = Nobody, s # "clear" => k \in CacheKeys,
           NEW n, s = "evict" => n \in EntrySizes, s # "evict" => n = 0, StartOp(t, s, k, n)
    PROVE  CacheInv'
<1> USE CacheConstants
<1>1. s \in CacheSections \ {"none"} /\ k \in CacheKeys \cup {Nobody} /\ n \in EntrySizes \cup {0}
  BY DEF CacheSections
<1>2. /\ Section(s, k, n) \in CacheOperation
      /\ Section(s, k, n).section = s /\ Section(s, k, n).key = k /\ Section(s, k, n).size = n
  BY <1>1, SectionTyped
<1>3. doing' = [doing EXCEPT ![t] = Section(s, k, n)]
  BY DEF StartOp
<1> DEFINE next == Section(s, k, n)
<1> HIDE DEF next
<1>4. CacheTypeOK
  BY DEF CacheInv
<1>a. next \in CacheOperation /\ next.section = s /\ next.key = k /\ next.size = n /\ doing' = [doing EXCEPT ![t] = next]
  BY <1>2, <1>3 DEF next
<1>5. /\ doing' \in [Threads -> CacheOperation]
      /\ doing'[t] = next /\ \A u \in Threads \ {t} : doing'[u] = doing[u]
      /\ \A u \in Threads : doing'[u].section \in {"get", "evict", "insert", "remove"} => doing'[u].key \in CacheKeys
      /\ \A u \in Threads : doing'[u].section = "insert" => doing'[u].size \in EntrySizes
      /\ \A u \in Threads : doing'[u].section = "evict" => doing'[u].size \in EntrySizes
  BY <1>4, <1>a, DoingTyped
<1>6. UNCHANGED <<entries, lruOrder, shardSize, overlap>>
  BY DEF StartOp
<1>7. CacheTypeOK'
  BY <1>4, <1>5, <1>6 DEF CacheTypeOK
<1>8. CacheCounted'
  BY <1>6 DEF CacheInv, CacheCounted
<1>9. ASSUME RoomKept PROVE RoomKept'
  BY <1>5, <1>6, <1>a, <1>9 DEF RoomKept
<1> QED
  BY <1>7, <1>8, <1>9 DEF CacheInv, ValuesFit

\* Taking a lock changes neither the entries nor the count.
LEMMA TakeLockKeeps ==
    ASSUME CacheInv, NEW t \in Threads, TakeLock(t)
    PROVE  CacheInv'
<1> USE CacheConstants
<1> DEFINE next == [doing[t] EXCEPT !.locks = Tail(@)]
<1>4. CacheTypeOK
  BY DEF CacheInv
<1>1. doing[t] \in CacheOperation /\ doing[t].locks # <<>>
  BY <1>4 DEF CacheTypeOK, TakeLock
<1>2. Tail(doing[t].locks) \in Seq(CacheLocks)
  BY <1>1 DEF CacheOperation
<1>a. /\ next \in CacheOperation /\ next.section = doing[t].section /\ next.key = doing[t].key
      /\ next.size = doing[t].size /\ doing' = [doing EXCEPT ![t] = next]
  BY <1>1, <1>2 DEF TakeLock, CacheOperation
<1> HIDE DEF next
<1>b. /\ next.section \in {"get", "evict", "insert", "remove"} => next.key \in CacheKeys
      /\ next.section \in {"insert", "evict"} => next.size \in EntrySizes
  BY <1>4, <1>a DEF CacheTypeOK
<1>5. /\ doing' \in [Threads -> CacheOperation]
      /\ doing'[t] = next /\ \A u \in Threads \ {t} : doing'[u] = doing[u]
      /\ \A u \in Threads : doing'[u].section \in {"get", "evict", "insert", "remove"} => doing'[u].key \in CacheKeys
      /\ \A u \in Threads : doing'[u].section = "insert" => doing'[u].size \in EntrySizes
      /\ \A u \in Threads : doing'[u].section = "evict" => doing'[u].size \in EntrySizes
  BY <1>4, <1>a, <1>b, DoingTyped
<1>6. UNCHANGED <<entries, lruOrder, shardSize, overlap>>
  BY DEF TakeLock
<1>7. CacheTypeOK'
  BY <1>4, <1>5, <1>6 DEF CacheTypeOK
<1>8. CacheCounted'
  BY <1>6 DEF CacheInv, CacheCounted
<1>9. ASSUME RoomKept PROVE RoomKept'
  <2>1. \A u \in Threads : doing'[u].section = doing[u].section /\ doing'[u].size = doing[u].size
    BY <1>5, <1>a
  <2> QED
    BY <1>6, <1>9, <2>1 DEF RoomKept
<1> QED
  BY <1>7, <1>8, <1>9 DEF CacheInv, ValuesFit

\* A section that ends without asking for room keeps the room when the counter does not grow.
LEMMA RoomKeptBy ==
    ASSUME CacheTypeOK, RoomKept, NEW t \in Threads, doing' = [doing EXCEPT ![t] = NoOp],
           UNCHANGED overlap, shardSize' \in Nat, shardSize' <= shardSize
    PROVE  RoomKept'
<1>1. doing'[t].section = "none" /\ \A u \in Threads \ {t} : doing'[u] = doing[u]
  BY NoOpTyped DEF CacheTypeOK
<1>2. shardSize \in Nat /\ ShardBytes \in Nat /\ \A u \in Threads : doing[u].section = "insert" => doing[u].size \in Nat
  BY CacheConstants DEF CacheTypeOK
<1>3. ASSUME ~ overlap PROVE shardSize' <= ShardBytes
  BY <1>2, <1>3 DEF RoomKept
<1>4. ASSUME ~ overlap, NEW u \in Threads, doing'[u].section = "insert"
      PROVE  shardSize' + doing'[u].size <= ShardBytes
  <2>1. u # t /\ doing'[u] = doing[u]
    BY <1>1, <1>4
  <2>2. shardSize + doing[u].size <= ShardBytes
    BY <1>4, <2>1 DEF RoomKept
  <2> QED
    BY <1>2, <1>4, <2>1, <2>2
<1>5. ASSUME ~ overlap, NEW u \in Threads, NEW w \in Threads, doing'[u].section = "insert", doing'[w].section = "insert"
      PROVE  u = w
  BY <1>1, <1>5 DEF RoomKept
<1> QED
  BY <1>3, <1>4, <1>5 DEF RoomKept

\* get moves a key to the end of the queue and leaves the count alone.
LEMMA RunGetKeeps ==
    ASSUME CacheInv, NEW t \in Threads, RunGet(t)
    PROVE  CacheInv'
<1> USE CacheConstants
<1>1. CacheTypeOK /\ doing' = [doing EXCEPT ![t] = NoOp] /\ doing[t].section = "get"
  BY DEF CacheInv, RunGet, Runs
<1>2. doing[t].key \in CacheKeys
  BY <1>1 DEF CacheTypeOK
<1>3. UNCHANGED <<entries, shardSize, overlap>>
  BY DEF RunGet
<1>4. lruOrder' \in Seq(CacheKeys \cup {Nobody}) /\ ToSet(lruOrder) \subseteq ToSet(lruOrder')
  <2> DEFINE K == CacheKeys \cup {Nobody}
             k == doing[t].key
  <2>1. lruOrder \in Seq(K) /\ k \in K
    BY <1>1, <1>2 DEF CacheTypeOK
  <2>2. lruOrder' = IF k \in DOMAIN entries THEN Append(RemoveFirst(lruOrder, k), k) ELSE lruOrder
    BY DEF RunGet
  <2> HIDE DEF K, k
  <2>3. /\ Append(RemoveFirst(lruOrder, k), k) \in Seq(K)
        /\ ToSet(lruOrder) \subseteq ToSet(Append(RemoveFirst(lruOrder, k), k))
    BY <2>1, MovedToBack
  <2>4. lruOrder' \in Seq(K) /\ ToSet(lruOrder) \subseteq ToSet(lruOrder')
    BY <2>1, <2>2, <2>3
  <2> QED
    BY <2>4 DEF K
<1>5. /\ doing' \in [Threads -> CacheOperation]
      /\ \A u \in Threads : doing'[u].section \in {"get", "evict", "insert", "remove"} => doing'[u].key \in CacheKeys
      /\ \A u \in Threads : doing'[u].section = "insert" => doing'[u].size \in EntrySizes
      /\ \A u \in Threads : doing'[u].section = "evict" => doing'[u].size \in EntrySizes
  BY <1>1, NoOpTyped, DoingTyped
<1>6. CacheTypeOK'
  BY <1>1, <1>3, <1>4, <1>5 DEF CacheTypeOK
<1>7. CacheCounted'
  BY <1>3, <1>4 DEF CacheInv, CacheCounted
<1>8. ASSUME RoomKept PROVE RoomKept'
  <2>1. shardSize' \in Nat /\ shardSize' <= shardSize
    BY <1>1, <1>3 DEF CacheTypeOK
  <2> QED
    BY <1>1, <1>3, <1>8, <2>1, RoomKeptBy
<1> QED
  BY <1>6, <1>7, <1>8 DEF CacheInv, ValuesFit

\* remove takes the bytes of the entry it takes out.
LEMMA RunRemoveKeeps ==
    ASSUME CacheInv, NEW t \in Threads, RunRemove(t)
    PROVE  CacheInv'
<1> USE CacheConstants
<1> DEFINE k == doing[t].key
<1>1. CacheTypeOK /\ CacheCounted /\ doing' = [doing EXCEPT ![t] = NoOp]
  BY DEF CacheInv, RunRemove, Runs
<1>2. /\ UNCHANGED <<lruOrder, overlap>> /\ entries' = [x \in DOMAIN entries \ {k} |-> entries[x]]
      /\ shardSize' = shardSize - (IF k \in DOMAIN entries THEN entries[k] ELSE 0)
  BY DEF RunRemove, WithoutKeys
<1> HIDE DEF k
<1>3. /\ DOMAIN entries' = DOMAIN entries \ {k} /\ IsFiniteSet(DOMAIN entries')
      /\ entries' \in [DOMAIN entries' -> Nat] /\ DOMAIN entries' \subseteq CacheKeys
  BY <1>1, <1>2, FS_Subset DEF CacheTypeOK
<1>4. /\ Bytes(entries) \in Nat /\ Bytes(entries') \in Nat /\ Bytes(entries') <= Bytes(entries)
      /\ k \in DOMAIN entries => Bytes(entries) = entries[k] + Bytes(entries')
  <2>1. IsFiniteSet(DOMAIN entries) /\ entries \in [DOMAIN entries -> Nat]
    BY <1>1 DEF CacheTypeOK
  <2>2. IsWithout(entries', entries, {k})
    BY <1>2 DEF IsWithout
  <2> QED
    BY <2>1, <2>2, BytesWithout
<1>5. k \notin DOMAIN entries => entries' = entries
  <2> SUFFICES ASSUME k \notin DOMAIN entries PROVE entries' = entries
    OBVIOUS
  <2>1. DOMAIN entries \ {k} = DOMAIN entries /\ entries = [x \in DOMAIN entries |-> entries[x]]
    BY <1>1 DEF CacheTypeOK
  <2> QED
    BY <1>2, <2>1
<1>6. shardSize' = Bytes(entries')
  <2>0. shardSize = Bytes(entries)
    BY <1>1 DEF CacheCounted
  <2>1. CASE k \in DOMAIN entries
    <3>1. entries[k] \in Nat
      BY <1>1, <2>1 DEF CacheTypeOK
    <3> QED
      BY <1>2, <1>4, <2>0, <2>1, <3>1
  <2>2. CASE k \notin DOMAIN entries
    BY <1>2, <1>4, <1>5, <2>0, <2>2
  <2> QED
    BY <2>1, <2>2
<1>7. CacheCounted'
  BY <1>1, <1>2, <1>3, <1>6 DEF CacheCounted
<1>8. /\ doing' \in [Threads -> CacheOperation]
      /\ \A u \in Threads : doing'[u].section \in {"get", "evict", "insert", "remove"} => doing'[u].key \in CacheKeys
      /\ \A u \in Threads : doing'[u].section = "insert" => doing'[u].size \in EntrySizes
      /\ \A u \in Threads : doing'[u].section = "evict" => doing'[u].size \in EntrySizes
  BY <1>1, NoOpTyped, DoingTyped
<1>9. CacheTypeOK'
  BY <1>1, <1>2, <1>3, <1>4, <1>6, <1>8 DEF CacheTypeOK
<1>10. ASSUME RoomKept PROVE RoomKept'
  <2>1. shardSize' \in Nat /\ shardSize' <= shardSize
    BY <1>1, <1>4, <1>6 DEF CacheCounted
  <2> QED
    BY <1>1, <1>2, <1>10, <2>1, RoomKeptBy
<1> QED
  BY <1>7, <1>9, <1>10 DEF CacheInv, ValuesFit

\* clear empties entries, queue and count together.
LEMMA RunClearKeeps ==
    ASSUME CacheInv, NEW t \in Threads, RunClear(t)
    PROVE  CacheInv'
<1> USE CacheConstants
<1>1. CacheTypeOK /\ CacheCounted /\ doing' = [doing EXCEPT ![t] = NoOp]
  BY DEF CacheInv, RunClear, Runs
<1>2. entries' = <<>> /\ lruOrder' = <<>> /\ shardSize' = 0 /\ UNCHANGED overlap
  BY DEF RunClear
<1>3. DOMAIN entries' = {} /\ IsFiniteSet(DOMAIN entries') /\ entries' \in [DOMAIN entries' -> Nat]
  BY <1>2, FS_EmptySet
<1>4. Bytes(entries') = 0
  <2>1. Bytes(entries') = Total(entries', {})
    BY <1>3, BytesIsTotal
  <2>2. NatValued(entries', {}) /\ IsFiniteSet({})
    BY FS_EmptySet DEF NatValued
  <2> QED
    BY <2>1, <2>2, TotalLaws
<1>5. CacheCounted'
  BY <1>2, <1>3, <1>4 DEF CacheCounted
<1>6. /\ doing' \in [Threads -> CacheOperation]
      /\ \A u \in Threads : doing'[u].section \in {"get", "evict", "insert", "remove"} => doing'[u].key \in CacheKeys
      /\ \A u \in Threads : doing'[u].section = "insert" => doing'[u].size \in EntrySizes
      /\ \A u \in Threads : doing'[u].section = "evict" => doing'[u].size \in EntrySizes
  BY <1>1, NoOpTyped, DoingTyped
<1>7. CacheTypeOK'
  <2>1. lruOrder' \in Seq(CacheKeys \cup {Nobody}) /\ shardSize' \in Nat
    BY <1>2
  <2>2. overlap' \in BOOLEAN
    BY <1>1, <1>2 DEF CacheTypeOK
  <2> QED
    BY <1>3, <1>6, <2>1, <2>2 DEF CacheTypeOK
<1>8. ASSUME RoomKept PROVE RoomKept'
  <2>1. shardSize' \in Nat /\ shardSize' <= shardSize
    BY <1>1, <1>2 DEF CacheTypeOK
  <2> QED
    BY <1>1, <1>2, <1>8, <2>1, RoomKeptBy
<1> QED
  BY <1>5, <1>7, <1>8 DEF CacheInv, ValuesFit

\* put counts what it inserts, less what it replaces.
LEMMA RunInsertKeeps ==
    ASSUME CacheInv, NEW t \in Threads, RunInsert(t)
    PROVE  CacheInv'
<1> USE CacheConstants
<1> DEFINE k == doing[t].key
           n == doing[t].size
           old == IF k \in DOMAIN entries THEN entries[k] ELSE 0
<1>1. CacheTypeOK /\ CacheCounted /\ doing' = [doing EXCEPT ![t] = NoOp] /\ doing[t].section = "insert"
  BY DEF CacheInv, RunInsert, Runs
<1>2. k \in CacheKeys /\ n \in EntrySizes /\ n \in Nat
  BY <1>1 DEF CacheTypeOK
<1>3. /\ lruOrder' = IF k \in DOMAIN entries THEN lruOrder ELSE Append(lruOrder, k)
      /\ shardSize' = shardSize - old + n
      /\ entries' = [x \in DOMAIN entries \cup {k} |-> IF x = k THEN n ELSE entries[x]]
      /\ UNCHANGED overlap
  BY DEF RunInsert
<1>a. doing[t].size = n
  OBVIOUS
<1> HIDE DEF k, n
<1>4. IsFiniteSet(DOMAIN entries) /\ entries \in [DOMAIN entries -> Nat]
  BY <1>1 DEF CacheTypeOK
<1>5. /\ DOMAIN entries' = DOMAIN entries \cup {k} /\ IsFiniteSet(DOMAIN entries')
      /\ entries' \in [DOMAIN entries' -> Nat] /\ DOMAIN entries' \subseteq CacheKeys
  BY <1>1, <1>2, <1>3, <1>4, FS_AddElement DEF CacheTypeOK
<1>6. /\ Bytes(entries) \in Nat /\ Bytes(entries') \in Nat
      /\ k \in DOMAIN entries => entries[k] <= Bytes(entries) /\ Bytes(entries') = Bytes(entries) - entries[k] + n
      /\ k \notin DOMAIN entries => Bytes(entries') = Bytes(entries) + n
  <2>1. IsWith(entries', entries, k, n)
    BY <1>3 DEF IsWith
  <2>2. n \in Nat
    BY <1>2
  <2>3. Replaces(entries', entries, k, n)
    BY <1>4, <2>1, <2>2, BytesWith
  <2> QED
    BY <2>3 DEF Replaces
<1>7. shardSize = Bytes(entries) /\ DOMAIN entries \subseteq ToSet(lruOrder)
  BY <1>1 DEF CacheCounted
<1>8. shardSize' = Bytes(entries') /\ shardSize' <= shardSize + n
  <2>1. CASE k \in DOMAIN entries
    <3>1. entries[k] \in Nat /\ old = entries[k]
      BY <1>4, <2>1
    <3> HIDE DEF old
    <3> QED
      BY <1>2, <1>3, <1>6, <1>7, <2>1, <3>1
  <2>2. CASE k \notin DOMAIN entries
    <3>1. old = 0
      BY <2>2
    <3> HIDE DEF old
    <3> QED
      BY <1>2, <1>3, <1>6, <1>7, <2>2, <3>1
  <2> QED
    BY <2>1, <2>2
<1>9. lruOrder' \in Seq(CacheKeys \cup {Nobody}) /\ DOMAIN entries' \subseteq ToSet(lruOrder')
  <2> DEFINE K == CacheKeys \cup {Nobody}
  <2>1. lruOrder \in Seq(K) /\ k \in K
    BY <1>1, <1>2 DEF CacheTypeOK
  <2> HIDE DEF K
  <2>2. CASE k \in DOMAIN entries
    <3>1. lruOrder' = lruOrder /\ DOMAIN entries' = DOMAIN entries
      BY <1>3, <1>5, <2>2
    <3> QED
      BY <1>7, <2>1, <3>1 DEF K
  <2>3. CASE k \notin DOMAIN entries
    <3>1. lruOrder' = Append(lruOrder, k)
      BY <1>3, <2>3
    <3>2. /\ lruOrder' \in Seq(K) /\ DOMAIN lruOrder' = 1 .. Len(lruOrder) + 1 /\ lruOrder'[Len(lruOrder) + 1] = k
          /\ \A i \in 1 .. Len(lruOrder) : lruOrder'[i] = lruOrder[i]
          /\ DOMAIN lruOrder = 1 .. Len(lruOrder) /\ Len(lruOrder) \in Nat
      BY <2>1, <3>1
    <3>3. ToSet(lruOrder) \subseteq ToSet(lruOrder') /\ k \in ToSet(lruOrder')
      BY <3>2 DEF ToSet
    <3> QED
      BY <1>5, <1>7, <3>2, <3>3 DEF K
  <2> QED
    BY <2>2, <2>3
<1>10. CacheCounted'
  BY <1>8, <1>9 DEF CacheCounted
<1>11. /\ doing' \in [Threads -> CacheOperation]
       /\ \A u \in Threads : doing'[u].section \in {"get", "evict", "insert", "remove"} => doing'[u].key \in CacheKeys
       /\ \A u \in Threads : doing'[u].section = "insert" => doing'[u].size \in EntrySizes
       /\ \A u \in Threads : doing'[u].section = "evict" => doing'[u].size \in EntrySizes
       /\ doing'[t] = NoOp /\ \A u \in Threads \ {t} : doing'[u] = doing[u]
  BY <1>1, NoOpTyped, DoingTyped
<1>12. CacheTypeOK'
  <2>1. overlap' \in BOOLEAN
    BY <1>1, <1>3 DEF CacheTypeOK
  <2> QED
    BY <1>5, <1>6, <1>8, <1>9, <1>11, <2>1 DEF CacheTypeOK
<1>13. ASSUME RoomKept PROVE RoomKept'
  <2> SUFFICES ASSUME ~ overlap
               PROVE  shardSize' <= ShardBytes /\ \A u \in Threads : doing'[u].section # "insert"
    BY <1>3 DEF RoomKept
  <2>1. shardSize + n <= ShardBytes /\ \A u \in Threads : doing[u].section = "insert" => u = t
    BY <1>1, <1>13, <1>a DEF RoomKept
  <2>2. shardSize' <= ShardBytes
    BY <1>2, <1>6, <1>7, <1>8, <2>1
  <2> QED
    BY <1>11, <2>1, <2>2, NoOpTyped
<1> QED
  BY <1>10, <1>12, <1>13 DEF CacheInv, ValuesFit

\* The number of keys to pop exists: the first with which the value fits, or all.
LEMMA PoppedExists ==
    ASSUME NEW n \in Nat, NEW fits
    PROVE  \E m \in 0 .. n : (m \in fits \/ m = n) /\ \A i \in 0 .. m - 1 : i \notin fits
<1> DEFINE S == {m \in 0 .. n : m \in fits \/ m = n}
<1>1. S \subseteq Nat /\ n \in S
  OBVIOUS
<1>2. Min(S) \in S /\ \A x \in S : Min(S) <= x
  <2> HIDE DEF S
  <2> QED
    BY <1>1, MinOfNaturals
<1>3. PICK m \in S : \A x \in S : m <= x
  BY <1>2
<1>4. m \in 0 .. n /\ (m \in fits \/ m = n)
  OBVIOUS
<1>5. ASSUME NEW i \in 0 .. m - 1 PROVE i \notin fits
  <2>1. i \in 0 .. n /\ ~ (m <= i)
    BY <1>4
  <2>2. i \notin S
    BY <1>3, <2>1
  <2> QED
    BY <2>1, <2>2
<1> QED
  BY <1>4, <1>5

\* evict_if_needed takes keys from the queue with their bytes until there is room.
LEMMA RunEvictKeeps ==
    ASSUME CacheInv, NEW t \in Threads, RunEvict(t)
    PROVE  CacheInv'
<1> USE CacheConstants
<1> DEFINE K == CacheKeys \cup {Nobody}
           n == doing[t].size
           After(m) == WithoutKeys(ToSet(SubSeq(lruOrder, 1, m)))
           Fits(m) == shardSize - (Bytes(entries) - Bytes(After(m))) + n <= ShardBytes
           popped == CHOOSE m \in 0 .. Len(lruOrder) :
                        /\ Fits(m) \/ m = Len(lruOrder)
                        /\ \A i \in 0 .. m - 1 : ~ Fits(i)
           next == Section("insert", doing[t].key, doing[t].size)
<1>1. CacheTypeOK /\ CacheCounted /\ doing[t].section = "evict"
  BY DEF CacheInv, RunEvict, Runs
<1>2. /\ doing' = [doing EXCEPT ![t] = next]
      /\ entries' = After(popped) /\ lruOrder' = SubSeq(lruOrder, popped + 1, Len(lruOrder))
      /\ shardSize' = shardSize - (Bytes(entries) - Bytes(entries'))
      /\ overlap' = (overlap \/ \E u \in Threads \ {t} : doing[u].section = "insert")
  BY DEF RunEvict, Runs
<1>3. doing[t].key \in CacheKeys /\ n \in EntrySizes /\ n \in Nat
  BY <1>1 DEF CacheTypeOK
<1>4. lruOrder \in Seq(K) /\ Len(lruOrder) \in Nat
  BY <1>1 DEF CacheTypeOK
<1>5. popped \in 0 .. Len(lruOrder) /\ (Fits(popped) \/ popped = Len(lruOrder))
  <2> DEFINE fits == {m \in 0 .. Len(lruOrder) : Fits(m)}
  <2>1. \E m \in 0 .. Len(lruOrder) : (m \in fits \/ m = Len(lruOrder)) /\ \A i \in 0 .. m - 1 : i \notin fits
    <3> HIDE DEF fits
    <3> QED
      BY <1>4, PoppedExists
  <2>2. \E m \in 0 .. Len(lruOrder) : (Fits(m) \/ m = Len(lruOrder)) /\ \A i \in 0 .. m - 1 : ~ Fits(i)
    <3> HIDE DEF Fits
    <3>1. PICK m \in 0 .. Len(lruOrder) : (m \in fits \/ m = Len(lruOrder)) /\ \A i \in 0 .. m - 1 : i \notin fits
      BY <2>1
    <3>2. \A i \in 0 .. m - 1 : i \in 0 .. Len(lruOrder)
      BY <1>4
    <3> QED
      BY <3>1, <3>2
  <2> HIDE DEF Fits
  <2> QED
    BY <2>2, Zenon
<1>6. IsFiniteSet(DOMAIN entries) /\ entries \in [DOMAIN entries -> Nat]
  BY <1>1 DEF CacheTypeOK
<1>7. /\ Bytes(entries) \in Nat /\ Bytes(entries') \in Nat /\ Bytes(entries') <= Bytes(entries)
  <2> DEFINE keys == ToSet(SubSeq(lruOrder, 1, popped))
  <2>1. IsWithout(entries', entries, keys)
    <3> HIDE DEF popped
    <3> QED
      BY <1>2 DEF IsWithout, WithoutKeys
  <2> HIDE DEF keys
  <2> QED
    BY <1>6, <2>1, BytesWithout
<1>8. shardSize = Bytes(entries) /\ DOMAIN entries \subseteq ToSet(lruOrder)
  BY <1>1 DEF CacheCounted
<1>9. shardSize' = Bytes(entries')
  <2> HIDE DEF popped, After
  <2> QED
    BY <1>2, <1>7, <1>8
<1>10. PICK p \in 0 .. Len(lruOrder) :
          /\ p = popped /\ (Fits(p) \/ p = Len(lruOrder))
          /\ entries' = [k \in DOMAIN entries \ ToSet(SubSeq(lruOrder, 1, p)) |-> entries[k]]
          /\ lruOrder' = SubSeq(lruOrder, p + 1, Len(lruOrder))
  <2>1. entries' = [k \in DOMAIN entries \ ToSet(SubSeq(lruOrder, 1, popped)) |-> entries[k]]
    <3> HIDE DEF popped
    <3> QED
      BY <1>2 DEF WithoutKeys
  <2>2. lruOrder' = SubSeq(lruOrder, popped + 1, Len(lruOrder))
    BY <1>2
  <2> HIDE DEF popped, Fits
  <2> QED
    BY <1>5, <2>1, <2>2
<1>11. /\ lruOrder' \in Seq(K)
       /\ ToSet(lruOrder) \subseteq ToSet(SubSeq(lruOrder, 1, p)) \cup ToSet(lruOrder')
       /\ p = Len(lruOrder) => ToSet(SubSeq(lruOrder, 1, p)) = ToSet(lruOrder)
  <2> HIDE DEF K
  <2> QED
    BY <1>4, <1>10, QueueSplit
<1> DEFINE gone == ToSet(SubSeq(lruOrder, 1, p))
<1>a. entries' = [k \in DOMAIN entries \ gone |-> entries[k]]
  BY <1>10
<1>b. ToSet(lruOrder) \subseteq gone \cup ToSet(lruOrder') /\ (p = Len(lruOrder) => gone = ToSet(lruOrder))
  BY <1>11
<1> HIDE DEF gone, popped, After, Fits
<1>12. /\ DOMAIN entries' = DOMAIN entries \ gone
       /\ IsFiniteSet(DOMAIN entries') /\ entries' \in [DOMAIN entries' -> Nat] /\ DOMAIN entries' \subseteq CacheKeys
  BY <1>1, <1>6, <1>a, FS_Subset DEF CacheTypeOK
<1>13. CacheCounted'
  BY <1>8, <1>9, <1>b, <1>12 DEF CacheCounted
<1>14. /\ next \in CacheOperation /\ next.section = "insert" /\ next.key = doing[t].key /\ next.size = n
  BY <1>3, SectionTyped DEF CacheSections
<1> HIDE DEF next
<1>15. /\ doing' \in [Threads -> CacheOperation]
       /\ doing'[t] = next /\ \A u \in Threads \ {t} : doing'[u] = doing[u]
       /\ \A u \in Threads : doing'[u].section \in {"get", "evict", "insert", "remove"} => doing'[u].key \in CacheKeys
       /\ \A u \in Threads : doing'[u].section = "insert" => doing'[u].size \in EntrySizes
       /\ \A u \in Threads : doing'[u].section = "evict" => doing'[u].size \in EntrySizes
  BY <1>1, <1>2, <1>3, <1>14, DoingTyped
<1>16. CacheTypeOK'
  <2>1. overlap' \in BOOLEAN
    BY <1>1, <1>2, Zenon DEF CacheTypeOK
  <2> QED
    BY <1>7, <1>9, <1>11, <1>12, <1>15, <2>1 DEF CacheTypeOK, K
<1>17. ASSUME RoomKept, ValuesFit PROVE RoomKept'
  <2> SUFFICES ASSUME ~ overlap'
               PROVE  /\ shardSize' <= ShardBytes
                      /\ \A u \in Threads : doing'[u].section = "insert" => shardSize' + doing'[u].size <= ShardBytes
                      /\ \A u, w \in Threads : doing'[u].section = "insert" /\ doing'[w].section = "insert" => u = w
    BY DEF RoomKept
  <2>1. \A u \in Threads \ {t} : doing[u].section # "insert"
    BY <1>2
  <2>2. \A u \in Threads : doing'[u].section = "insert" => u = t
    BY <1>15, <2>1
  <2>3. shardSize' + n <= ShardBytes
    <3>1. CASE Fits(p)
      <4>1. shardSize - (Bytes(entries) - Bytes(entries')) + n <= ShardBytes
        BY <1>2, <1>10, <3>1 DEF Fits
      <4> QED
        BY <1>7, <1>8, <1>9, <4>1
    <3>2. CASE p = Len(lruOrder)
      <4>1. DOMAIN entries' = {}
        BY <1>8, <1>b, <1>12, <3>2
      <4>2. Bytes(entries') = 0
        <5>1. Bytes(entries') = Total(entries', {})
          BY <4>1, BytesIsTotal
        <5>2. NatValued(entries', {}) /\ IsFiniteSet({})
          BY FS_EmptySet DEF NatValued
        <5> QED
          BY <5>1, <5>2, TotalLaws
      <4>3. n <= ShardBytes
        BY <1>3, <1>17 DEF ValuesFit
      <4> QED
        BY <1>3, <1>9, <4>2, <4>3
    <3> QED
      BY <1>10, <3>1, <3>2
  <2>4. shardSize' <= ShardBytes
    BY <1>3, <1>7, <1>9, <2>3
  <2>5. doing'[t].size = n
    BY <1>14, <1>15
  <2> QED
    BY <2>2, <2>3, <2>4, <2>5
<1> QED
  BY <1>13, <1>16, <1>17 DEF CacheInv, ValuesFit

\* Every section of every thread keeps the invariant of the shard.
LEMMA CacheStep == CacheInv /\ [CacheNext]_cacheVars => CacheInv'
<1> SUFFICES ASSUME CacheInv, [CacheNext]_cacheVars PROVE CacheInv'
  OBVIOUS
<1>1. CASE UNCHANGED cacheVars
  BY <1>1 DEF cacheVars, CacheInv, CacheTypeOK, CacheCounted, RoomKept, ValuesFit
<1>2. CASE CacheNext
  <2>1. PICK t \in Threads :
           \/ \E k \in CacheKeys : StartOp(t, "get", k, 0) \/ StartOp(t, "remove", k, 0)
           \/ \E k \in CacheKeys, n \in EntrySizes : StartOp(t, "evict", k, n)
           \/ StartOp(t, "clear", Nobody, 0)
           \/ TakeLock(t) \/ RunOp(t)
    BY <1>2 DEF CacheNext
  <2>2. ASSUME NEW k \in CacheKeys, StartOp(t, "get", k, 0) \/ StartOp(t, "remove", k, 0) PROVE CacheInv'
    BY <2>2, StartOpKeeps
  <2>3. ASSUME NEW k \in CacheKeys, NEW n \in EntrySizes, StartOp(t, "evict", k, n) PROVE CacheInv'
    BY <2>3, StartOpKeeps
  <2>4. CASE StartOp(t, "clear", Nobody, 0)
    BY <2>4, StartOpKeeps
  <2>5. CASE TakeLock(t)
    BY <2>5, TakeLockKeeps
  <2>6. CASE RunOp(t)
    BY <2>6, RunGetKeeps, RunEvictKeeps, RunInsertKeeps, RunRemoveKeeps, RunClearKeeps DEF RunOp
  <2> QED
    BY <2>1, <2>2, <2>3, <2>4, <2>5, <2>6
<1> QED
  BY <1>1, <1>2

\* For any number of threads, keys and operations, and values that fit into a shard: the
\* byte count of a shard is that of its entries, each of which can be evicted, and the
\* shard stays within its size unless two puts have overlapped (LruCache::put,
\* evict_if_needed, get, remove, clear).
THEOREM CacheAccounted ==
    ASSUME ValuesFit
    PROVE  CacheSpec => []CacheAccounting
<1>1. CacheInv => CacheAccounting
  BY DEF CacheInv, CacheCounted, RoomKept, CacheAccounting
<1> QED
  BY <1>1, CacheInitOK, CacheStep, PTL DEF CacheSpec

-------------------------------------------------------------------------------
(* The producers.                                                          *)

Commands == [kind : {"Message", "Flush"}, id : Nat]
Requests ==
    [client : Clients, number : Nat \ {0}, ids : Seq(Sends), done : Nat, pc : {"read", "append", "store"},
     base : Nat, first : Nat]
Answers == {NotAnswered, SendFailed} \cup [status : {"sent"}, offset : Nat, by : Nat]

ProducerTypeOK ==
    /\ queue \in [Clients -> Seq(Commands)] /\ batch \in [Clients -> Seq(Sends)]
    /\ flushes \in [Clients -> SUBSET Nat] /\ awaiting \in [Clients -> Nat]
    /\ serving \subseteq Requests /\ watermark \in Nat
    /\ answer \in [Sends -> Answers] /\ flushed \subseteq Nat
    /\ sent \in 0 .. MaxSends /\ sentBefore \in Seq(SUBSET Sends) /\ senders \in [1 .. sent -> Clients]
    /\ requests \in Nat

\* Message m of producer p is in the channel at position i.
Queued(p, i, m) == queue[p][i].kind = "Message" /\ queue[p][i].id = m

\* The channel of a producer has messages that it sent, and its flush calls.
QueueOwned ==
    \A p \in Clients : \A i \in 1 .. Len(queue[p]) :
        LET c == queue[p][i]
        IN  /\ c.kind = "Message" => c.id \in 1 .. sent
            /\ c.kind = "Flush" => c.id \in 1 .. Len(sentBefore) /\ \A m \in sentBefore[c.id] : senders[m] = p

\* A flush covers messages that have been sent, and waits for a batch as its producer's.
FlushesOwned ==
    /\ \A f \in 1 .. Len(sentBefore) : sentBefore[f] \subseteq 1 .. sent
    /\ flushed \subseteq 1 .. Len(sentBefore)
    /\ \A p \in Clients : \A f \in flushes[p] :
          f \in 1 .. Len(sentBefore) /\ \A m \in sentBefore[f] : senders[m] = p

\* A message without an answer is in its producer's batch or channel.
SendsTracked ==
    \A m \in 1 .. sent :
        \/ answer[m] # NotAnswered
        \/ \E i \in 1 .. Len(batch[senders[m]]) : batch[senders[m]][i] = m
        \/ \E i \in 1 .. Len(queue[senders[m]]) : Queued(senders[m], i, m)

\* The messages a flush covers are ahead of it in the channel.
FlushBehind ==
    \A p \in Clients : \A i, j \in 1 .. Len(queue[p]) :
        queue[p][i].kind = "Flush" =>
            \A m \in sentBefore[queue[p][i].id] : Queued(p, j, m) => j < i

\* A flush that waits for the batch has none of its messages in the channel.
FlushWaits ==
    \A p \in Clients : \A f \in flushes[p] : \A m \in sentBefore[f] :
        \A i \in 1 .. Len(queue[p]) : ~ Queued(p, i, m)

FlushInv ==
    QueueOwned /\ FlushesOwned /\ SendsTracked /\ FlushBehind /\ FlushWaits /\ FlushCoversSends

\* A request has its number, and the one that is awaited has the messages of the batch.
ServingInv ==
    /\ \A r \in serving : r.number <= requests
    /\ \A r \in serving : Awaited(r) => r.ids = batch[r.client]

\* The log has message m at offset o.
Holds(o, m) == o \in DOMAIN topicLog /\ topicLog[o] = m

\* Nothing will be written at offset o any more: the watermark is beyond it, and so is
\* the offset of every record on its way to the log.
Below(o) == o < watermark /\ \A s \in serving : s.pc # "read" => o < s.base

\* A request has records left until it has read its last watermark.
Shaped(r) == r.done <= Len(r.ids) /\ (r.pc # "read" => r.done < Len(r.ids))

\* Between its records, a request that has not raced owns the watermark, or has taken it.
Positioned(r) ==
    /\ r.pc = "read" => watermark = r.first + r.done
    /\ r.pc # "read" => r.base = r.first + r.done
    /\ r.pc = "store" => Holds(r.base, r.ids[r.done + 1])

\* The records of a request that has not raced lie next to each other, and are out of
\* everybody's reach when it has finished.
Placed(r) ==
    r.number \notin racedRequests =>
        /\ \A j \in 1 .. r.done : Holds(r.first + j - 1, r.ids[j])
        /\ Appending(r) => Positioned(r)
        /\ Finished(r) => \A j \in 1 .. r.done : Below(r.first + j - 1)

\* Of two requests that are appending, both have raced.
RaceSeen == \A r, s \in serving : r # s /\ Appending(r) /\ Appending(s) => r.number \in racedRequests

\* Answer a to message m tells the offset of m, which nobody will write again.
AnswerPlaced(a, m) ==
    a.status = "sent" /\ a.by \notin racedRequests => Holds(a.offset, m) /\ Below(a.offset)

LogInv ==
    /\ \A r \in serving : Shaped(r) /\ Placed(r)
    /\ RaceSeen
    /\ \A m \in Sends : AnswerPlaced(answer[m], m)

ProducerInv == ProducerTypeOK /\ FlushInv /\ ServingInv /\ LogInv

flushVars == <<queue, batch, flushes, answer, flushed, sent, sentBefore, senders>>

\* A producer starts with nothing sent, queued or under way.
LEMMA ProducerInitOK == ProducerInit => ProducerInv
<1> SUFFICES ASSUME ProducerInit PROVE ProducerInv
  OBVIOUS
<1> USE ProducerConstants DEF ProducerInit
<1>2. ProducerTypeOK
  <2>1. NotAnswered \in Answers
    BY DEF Answers
  <2>2. senders \in [1 .. sent -> Clients]
    OBVIOUS
  <2>3. watermark \in Nat /\ sentBefore \in Seq(SUBSET Sends) /\ sent \in 0 .. MaxSends /\ requests \in Nat
    OBVIOUS
  <2>4. queue \in [Clients -> Seq(Commands)] /\ batch \in [Clients -> Seq(Sends)]
    OBVIOUS
  <2>5. flushes \in [Clients -> SUBSET Nat] /\ awaiting \in [Clients -> Nat] /\ serving \subseteq Requests /\ flushed \subseteq Nat
    OBVIOUS
  <2>6. answer \in [Sends -> Answers]
    BY <2>1
  <2> QED
    BY <2>2, <2>3, <2>4, <2>5, <2>6 DEF ProducerTypeOK
<1>3. Len(sentBefore) = 0 /\ sent = 0 /\ flushed = {} /\ \A p \in Clients : Len(queue[p]) = 0 /\ flushes[p] = {}
  OBVIOUS
<1>4. FlushInv
  BY <1>3 DEF FlushInv, QueueOwned, FlushesOwned, SendsTracked, FlushBehind, FlushWaits, FlushCoversSends
<1>5. ServingInv
  BY DEF ServingInv
<1>6. LogInv
  BY DEF LogInv, RaceSeen, AnswerPlaced, NotAnswered
<1> QED
  BY <1>2, <1>4, <1>5, <1>6 DEF ProducerInv

-------------------------------------------------------------------------------
(* The flush calls.                                                        *)

\* What flushes wait for depends on queue, batch and answers alone.
LEMMA FlushUnchanged ==
    ASSUME FlushInv, UNCHANGED flushVars
    PROVE  FlushInv'
<1>1. UNCHANGED <<queue, batch, flushes, answer, flushed, sent, sentBefore, senders>>
  BY DEF flushVars
<1>2. QueueOwned' /\ FlushesOwned' /\ FlushCoversSends'
  BY <1>1 DEF FlushInv, QueueOwned, FlushesOwned, FlushCoversSends
<1>3. SendsTracked'
  BY <1>1 DEF FlushInv, SendsTracked, Queued
<1>4. FlushBehind' /\ FlushWaits'
  BY <1>1 DEF FlushInv, FlushBehind, FlushWaits, Queued
<1> QED
  BY <1>2, <1>3, <1>4 DEF FlushInv

\* A command that joins a channel is its last; the others stay where they are.
LEMMA Enqueued ==
    ASSUME ProducerTypeOK, NEW p \in Clients, NEW c, queue' = [queue EXCEPT ![p] = Append(queue[p], c)]
    PROVE  /\ \A q \in Clients : \A i \in 1 .. Len(queue[q]) : i \in 1 .. Len(queue'[q]) /\ queue'[q][i] = queue[q][i]
           /\ Len(queue[p]) + 1 \in 1 .. Len(queue'[p]) /\ queue'[p][Len(queue[p]) + 1] = c
           /\ \A i \in 1 .. Len(queue[p]) : i < Len(queue[p]) + 1
           /\ \A q \in Clients : \A i \in 1 .. Len(queue'[q]) :
                 \/ i \in 1 .. Len(queue[q]) /\ queue'[q][i] = queue[q][i]
                 \/ q = p /\ i = Len(queue[p]) + 1 /\ queue'[q][i] = c
<1>4. /\ \A q \in Clients : queue[q] \in Seq(Commands) /\ Len(queue[q]) \in Nat
      /\ \A q \in Clients \ {p} : queue'[q] = queue[q]
      /\ queue'[p] = Append(queue[p], c)
  BY DEF ProducerTypeOK
<1>5. /\ Len(queue'[p]) = Len(queue[p]) + 1 /\ queue'[p][Len(queue[p]) + 1] = c
      /\ \A i \in 1 .. Len(queue[p]) : queue'[p][i] = queue[p][i]
  BY <1>4
<1>7. \A q \in Clients : \A i \in 1 .. Len(queue'[q]) :
          \/ i \in 1 .. Len(queue[q]) /\ queue'[q][i] = queue[q][i]
          \/ q = p /\ i = Len(queue[p]) + 1 /\ queue'[q][i] = c
  <2> SUFFICES ASSUME NEW q \in Clients, NEW i \in 1 .. Len(queue'[q])
               PROVE  (i \in 1 .. Len(queue[q]) /\ queue'[q][i] = queue[q][i]) \/ (q = p /\ i = Len(queue[p]) + 1 /\ queue'[q][i] = c)
    OBVIOUS
  <2>1. CASE q # p
    <3>1. queue'[q] = queue[q]
      BY <1>4, <2>1
    <3> QED
      BY <3>1
  <2>2. CASE q = p
    <3>1. i \in 1 .. Len(queue[p]) + 1 /\ Len(queue[p]) \in Nat
      BY <1>4, <1>5, <2>2
    <3>2. i \in 1 .. Len(queue[p]) \/ i = Len(queue[p]) + 1
      BY <3>1
    <3>3. CASE i \in 1 .. Len(queue[p])
      <4>1. queue'[p][i] = queue[p][i]
        BY <1>5, <3>3
      <4> QED
        BY <2>2, <3>3, <4>1
    <3>4. CASE i = Len(queue[p]) + 1
      <4>1. queue'[p][i] = c
        BY <1>5, <3>4
      <4> QED
        BY <2>2, <3>4, <4>1
    <3> QED
      BY <3>2, <3>3, <3>4
  <2> QED
    BY <2>1, <2>2
<1>8. \A q \in Clients : \A i \in 1 .. Len(queue[q]) : i \in 1 .. Len(queue'[q]) /\ queue'[q][i] = queue[q][i]
  <2> SUFFICES ASSUME NEW q \in Clients, NEW i \in 1 .. Len(queue[q])
               PROVE  i \in 1 .. Len(queue'[q]) /\ queue'[q][i] = queue[q][i]
    OBVIOUS
  <2>1. CASE q # p
    BY <1>4, <2>1
  <2>2. CASE q = p
    <3>1. i \in 1 .. Len(queue'[p]) /\ queue'[p][i] = queue[p][i]
      BY <1>4, <1>5, <2>2
    <3> QED
      BY <2>2, <3>1
  <2> QED
    BY <2>1, <2>2
<1>9. Len(queue[p]) + 1 \in 1 .. Len(queue'[p]) /\ \A i \in 1 .. Len(queue[p]) : i < Len(queue[p]) + 1
  BY <1>4, <1>5
<1> QED
  BY <1>5, <1>7, <1>8, <1>9

\* send puts its message behind every flush already queued.
LEMMA SendFlush ==
    ASSUME ProducerTypeOK, FlushInv, NEW p \in Clients, Send(p)
    PROVE  FlushInv'
<1> USE ProducerConstants
<1> DEFINE c == [kind |-> "Message", id |-> sent + 1]
<1>1. /\ sent' = sent + 1 /\ sent' \in Nat /\ sent \in Nat
      /\ queue' = [queue EXCEPT ![p] = Append(queue[p], c)] /\ senders' = Append(senders, p)
      /\ UNCHANGED <<batch, flushes, answer, flushed, sentBefore>>
  BY DEF Send, ProducerTypeOK
<1>2. senders \in Seq(Clients) /\ Len(senders) = sent
  BY <1>1 DEF ProducerTypeOK
<1>3. senders'[sent + 1] = p /\ \A m \in 1 .. sent : senders'[m] = senders[m]
  BY <1>1, <1>2
<1>4. /\ \A q \in Clients : \A i \in 1 .. Len(queue[q]) : i \in 1 .. Len(queue'[q]) /\ queue'[q][i] = queue[q][i]
      /\ Len(queue[p]) + 1 \in 1 .. Len(queue'[p]) /\ queue'[p][Len(queue[p]) + 1] = c
  <2> HIDE DEF c
  <2> QED
    BY <1>1, Enqueued
<1>6. c.kind = "Message" /\ c.id = sent + 1
  OBVIOUS
<1> HIDE DEF c
<1>7. \A q \in Clients : \A i \in 1 .. Len(queue'[q]) :
          \/ i \in 1 .. Len(queue[q]) /\ queue'[q][i] = queue[q][i]
          \/ q = p /\ i = Len(queue[p]) + 1 /\ queue'[q][i] = c
  BY <1>1, Enqueued
<1>8. \A f \in 1 .. Len(sentBefore) : \A m \in sentBefore[f] : m \in 1 .. sent /\ m # sent + 1
  BY <1>1 DEF FlushInv, FlushesOwned
<1>9. QueueOwned'
  <2> SUFFICES ASSUME NEW q \in Clients, NEW i \in 1 .. Len(queue'[q])
               PROVE  /\ queue'[q][i].kind = "Message" => queue'[q][i].id \in 1 .. sent'
                      /\ queue'[q][i].kind = "Flush" => queue'[q][i].id \in 1 .. Len(sentBefore) /\ \A m \in sentBefore[queue'[q][i].id] : senders'[m] = q
    BY <1>1 DEF QueueOwned
  <2>1. CASE i \in 1 .. Len(queue[q]) /\ queue'[q][i] = queue[q][i]
    <3>1. /\ queue[q][i].kind = "Message" => queue[q][i].id \in 1 .. sent
          /\ queue[q][i].kind = "Flush" => queue[q][i].id \in 1 .. Len(sentBefore) /\ \A m \in sentBefore[queue[q][i].id] : senders[m] = q
      BY <2>1 DEF FlushInv, QueueOwned
    <3>2. queue[q][i].kind = "Message" => queue[q][i].id \in 1 .. sent'
      BY <1>1, <3>1
    <3>3. queue[q][i].kind = "Flush" => \A m \in sentBefore[queue[q][i].id] : senders'[m] = q
      <4> SUFFICES ASSUME queue[q][i].kind = "Flush", NEW m \in sentBefore[queue[q][i].id] PROVE senders'[m] = q
        OBVIOUS
      <4>1. m \in 1 .. sent /\ senders[m] = q
        BY <1>8, <3>1
      <4> QED
        BY <1>3, <4>1
    <3> QED
      BY <2>1, <3>1, <3>2, <3>3
  <2>2. CASE q = p /\ i = Len(queue[p]) + 1 /\ queue'[q][i] = c
    BY <1>1, <1>6, <2>2
  <2> QED
    BY <1>7, <2>1, <2>2
<1>10. FlushesOwned'
  <2>1. \A f \in 1 .. Len(sentBefore) : sentBefore[f] \subseteq 1 .. sent'
    BY <1>1 DEF FlushInv, FlushesOwned
  <2>2. \A q \in Clients : \A f \in flushes[q] : f \in 1 .. Len(sentBefore) /\ \A m \in sentBefore[f] : senders'[m] = q
    BY <1>3, <1>8 DEF FlushInv, FlushesOwned
  <2>3. flushed \subseteq 1 .. Len(sentBefore)
    BY DEF FlushInv, FlushesOwned
  <2> QED
    BY <1>1, <2>1, <2>2, <2>3 DEF FlushesOwned
<1>11. SendsTracked'
  <2> SUFFICES ASSUME NEW m \in 1 .. sent'
               PROVE  \/ answer[m] # NotAnswered
                      \/ \E i \in 1 .. Len(batch[senders'[m]]) : batch[senders'[m]][i] = m
                      \/ \E i \in 1 .. Len(queue'[senders'[m]]) : queue'[senders'[m]][i].kind = "Message" /\ queue'[senders'[m]][i].id = m
    BY <1>1 DEF SendsTracked, Queued
  <2>1. CASE m = sent + 1
    BY <1>3, <1>4, <1>6, <2>1
  <2>2. CASE m # sent + 1
    <3>a. m \in 1 .. sent + 1
      BY <1>1
    <3>b. m \in 1 .. sent
      BY <1>1, <2>2, <3>a
    <3>1. m \in 1 .. sent /\ senders'[m] = senders[m]
      BY <1>3, <3>b
    <3>2. senders[m] \in Clients
      BY <3>1 DEF ProducerTypeOK
    <3>3. \A i \in 1 .. Len(queue[senders[m]]) : i \in 1 .. Len(queue'[senders[m]]) /\ queue'[senders[m]][i] = queue[senders[m]][i]
      BY <1>4, <3>2
    <3>4. \/ answer[m] # NotAnswered
          \/ \E i \in 1 .. Len(batch[senders[m]]) : batch[senders[m]][i] = m
          \/ \E i \in 1 .. Len(queue[senders[m]]) : queue[senders[m]][i].kind = "Message" /\ queue[senders[m]][i].id = m
      BY <3>1 DEF FlushInv, SendsTracked, Queued
    <3> QED
      BY <3>1, <3>3, <3>4
  <2> QED
    BY <2>1, <2>2
<1>12. FlushBehind'
  <2> SUFFICES ASSUME NEW q \in Clients, NEW i \in 1 .. Len(queue'[q]), NEW j \in 1 .. Len(queue'[q]),
                      queue'[q][i].kind = "Flush", NEW m \in sentBefore[queue'[q][i].id],
                      queue'[q][j].kind = "Message", queue'[q][j].id = m
               PROVE  j < i
    BY <1>1 DEF FlushBehind, Queued
  <2>1. i \in 1 .. Len(queue[q]) /\ queue'[q][i] = queue[q][i]
    BY <1>6, <1>7
  <2>2. queue[q][i].id \in 1 .. Len(sentBefore)
    BY <2>1 DEF FlushInv, QueueOwned
  <2>3. m # sent + 1
    BY <1>8, <2>1, <2>2
  <2>4. j \in 1 .. Len(queue[q]) /\ queue'[q][j] = queue[q][j]
    BY <1>6, <1>7, <2>3
  <2> QED
    BY <2>1, <2>4 DEF FlushInv, FlushBehind, Queued
<1>13. FlushWaits'
  <2> SUFFICES ASSUME NEW q \in Clients, NEW f \in flushes[q], NEW m \in sentBefore[f], NEW i \in 1 .. Len(queue'[q]),
                      queue'[q][i].kind = "Message", queue'[q][i].id = m
               PROVE  FALSE
    BY <1>1 DEF FlushWaits, Queued
  <2>1. f \in 1 .. Len(sentBefore)
    BY DEF FlushInv, FlushesOwned
  <2>2. m # sent + 1
    BY <1>8, <2>1
  <2>3. i \in 1 .. Len(queue[q]) /\ queue'[q][i] = queue[q][i]
    BY <1>6, <1>7, <2>2
  <2> QED
    BY <2>3 DEF FlushInv, FlushWaits, Queued
<1>14. FlushCoversSends'
  BY <1>1 DEF FlushInv, FlushCoversSends
<1> QED
  BY <1>9, <1>10, <1>11, <1>12, <1>13, <1>14 DEF FlushInv

\* flush is queued behind every message its producer has sent.
LEMMA CallFlush ==
    ASSUME ProducerTypeOK, FlushInv, NEW p \in Clients, Flush(p)
    PROVE  FlushInv'
<1> USE ProducerConstants
<1> DEFINE n == Len(sentBefore) + 1
           c == [kind |-> "Flush", id |-> n]
           own == {m \in DOMAIN senders : senders[m] = p}
<1>1. /\ Len(sentBefore) \in Nat /\ sentBefore' = Append(sentBefore, own)
      /\ queue' = [queue EXCEPT ![p] = Append(queue[p], c)]
      /\ UNCHANGED <<batch, flushes, answer, flushed, sent, senders>>
  BY DEF Flush, ProducerTypeOK
<1>2. own \subseteq 1 .. sent /\ \A m \in own : senders[m] = p
  BY DEF ProducerTypeOK
<1>3. c.kind = "Flush" /\ c.id = n
  OBVIOUS
<1> HIDE DEF c, own
<1>4. /\ Len(sentBefore') = n /\ n \in 1 .. n /\ sentBefore'[n] = own
      /\ \A f \in 1 .. Len(sentBefore) : f \in 1 .. n /\ sentBefore'[f] = sentBefore[f]
      /\ \A f \in 1 .. n : f \in 1 .. Len(sentBefore) \/ f = n
  <2>1. sentBefore \in Seq(SUBSET Sends)
    BY DEF ProducerTypeOK
  <2>2. Len(sentBefore') = n /\ n \in 1 .. n /\ sentBefore'[n] = own
    BY <1>1, <2>1
  <2>3. \A f \in 1 .. Len(sentBefore) : f \in 1 .. n /\ sentBefore'[f] = sentBefore[f]
    BY <1>1, <2>1
  <2>4. \A f \in 1 .. n : f \in 1 .. Len(sentBefore) \/ f = n
    BY <1>1
  <2> QED
    BY <2>2, <2>3, <2>4
<1>5. /\ \A q \in Clients : \A i \in 1 .. Len(queue[q]) : i \in 1 .. Len(queue'[q]) /\ queue'[q][i] = queue[q][i]
      /\ \A q \in Clients : \A i \in 1 .. Len(queue'[q]) :
            \/ i \in 1 .. Len(queue[q]) /\ queue'[q][i] = queue[q][i]
            \/ q = p /\ i = Len(queue[p]) + 1 /\ queue'[q][i] = c
      /\ \A i \in 1 .. Len(queue[p]) : i < Len(queue[p]) + 1
  BY <1>1, Enqueued
<1> HIDE DEF n
<1>6. QueueOwned'
  <2> SUFFICES ASSUME NEW q \in Clients, NEW i \in 1 .. Len(queue'[q])
               PROVE  /\ queue'[q][i].kind = "Message" => queue'[q][i].id \in 1 .. sent
                      /\ queue'[q][i].kind = "Flush" => queue'[q][i].id \in 1 .. n /\ \A m \in sentBefore'[queue'[q][i].id] : senders[m] = q
    BY <1>1, <1>4 DEF QueueOwned
  <2>1. CASE i \in 1 .. Len(queue[q]) /\ queue'[q][i] = queue[q][i]
    <3>1. /\ queue[q][i].kind = "Message" => queue[q][i].id \in 1 .. sent
          /\ queue[q][i].kind = "Flush" => queue[q][i].id \in 1 .. Len(sentBefore) /\ \A m \in sentBefore[queue[q][i].id] : senders[m] = q
      BY <2>1 DEF FlushInv, QueueOwned
    <3> QED
      BY <1>4, <2>1, <3>1
  <2>2. CASE q = p /\ i = Len(queue[p]) + 1 /\ queue'[q][i] = c
    BY <1>2, <1>3, <1>4, <2>2
  <2> QED
    BY <1>5, <2>1, <2>2
<1>7. FlushesOwned'
  <2>1. \A f \in 1 .. n : sentBefore'[f] \subseteq 1 .. sent
    BY <1>2, <1>4 DEF FlushInv, FlushesOwned
  <2>2. \A q \in Clients : \A f \in flushes[q] : f \in 1 .. n /\ \A m \in sentBefore'[f] : senders[m] = q
    BY <1>4 DEF FlushInv, FlushesOwned
  <2>3. flushed \subseteq 1 .. n
    BY <1>4 DEF FlushInv, FlushesOwned
  <2> QED
    BY <1>1, <1>4, <2>1, <2>2, <2>3 DEF FlushesOwned
<1>8. SendsTracked'
  <2> SUFFICES ASSUME NEW m \in 1 .. sent
               PROVE  \/ answer[m] # NotAnswered
                      \/ \E i \in 1 .. Len(batch[senders[m]]) : batch[senders[m]][i] = m
                      \/ \E i \in 1 .. Len(queue'[senders[m]]) : queue'[senders[m]][i].kind = "Message" /\ queue'[senders[m]][i].id = m
    BY <1>1 DEF SendsTracked, Queued
  <2>1. senders[m] \in Clients
    BY DEF ProducerTypeOK
  <2>2. \A i \in 1 .. Len(queue[senders[m]]) : i \in 1 .. Len(queue'[senders[m]]) /\ queue'[senders[m]][i] = queue[senders[m]][i]
    BY <1>5, <2>1
  <2>3. \/ answer[m] # NotAnswered
        \/ \E i \in 1 .. Len(batch[senders[m]]) : batch[senders[m]][i] = m
        \/ \E i \in 1 .. Len(queue[senders[m]]) : queue[senders[m]][i].kind = "Message" /\ queue[senders[m]][i].id = m
    BY DEF FlushInv, SendsTracked, Queued
  <2> QED
    BY <2>2, <2>3
<1>9. FlushBehind'
  <2> SUFFICES ASSUME NEW q \in Clients, NEW i \in 1 .. Len(queue'[q]), NEW j \in 1 .. Len(queue'[q]),
                      queue'[q][i].kind = "Flush", NEW m \in sentBefore'[queue'[q][i].id],
                      queue'[q][j].kind = "Message", queue'[q][j].id = m
               PROVE  j < i
    BY <1>1 DEF FlushBehind, Queued
  <2>1. j \in 1 .. Len(queue[q]) /\ queue'[q][j] = queue[q][j]
    BY <1>3, <1>5
  <2>2. CASE i \in 1 .. Len(queue[q]) /\ queue'[q][i] = queue[q][i]
    <3>1. queue[q][i].id \in 1 .. Len(sentBefore)
      BY <2>2 DEF FlushInv, QueueOwned
    <3>2. m \in sentBefore[queue[q][i].id]
      BY <1>4, <2>2, <3>1
    <3> QED
      BY <2>1, <2>2, <3>2 DEF FlushInv, FlushBehind, Queued
  <2>3. CASE q = p /\ i = Len(queue[p]) + 1
    <3>1. j \in 1 .. Len(queue[p])
      BY <2>1, <2>3
    <3>2. j < Len(queue[p]) + 1
      BY <1>5, <3>1
    <3> QED
      BY <2>3, <3>2
  <2> QED
    BY <1>5, <2>2, <2>3
<1>10. FlushWaits'
  <2> SUFFICES ASSUME NEW q \in Clients, NEW f \in flushes[q], NEW m \in sentBefore'[f], NEW i \in 1 .. Len(queue'[q]),
                      queue'[q][i].kind = "Message", queue'[q][i].id = m
               PROVE  FALSE
    BY <1>1 DEF FlushWaits, Queued
  <2>1. f \in 1 .. Len(sentBefore)
    BY DEF FlushInv, FlushesOwned
  <2>2. m \in sentBefore[f]
    BY <1>4, <2>1
  <2>3. i \in 1 .. Len(queue[q]) /\ queue'[q][i] = queue[q][i]
    BY <1>3, <1>5
  <2> QED
    BY <2>2, <2>3 DEF FlushInv, FlushWaits, Queued
<1>11. FlushCoversSends'
  <2>1. \A f \in flushed : f \in 1 .. Len(sentBefore) /\ sentBefore'[f] = sentBefore[f]
    BY <1>4 DEF FlushInv, FlushesOwned
  <2> QED
    BY <1>1, <2>1 DEF FlushInv, FlushCoversSends
<1> QED
  BY <1>6, <1>7, <1>8, <1>9, <1>10, <1>11 DEF FlushInv

\* A command that is taken is the first of the channel; the others move up.
LEMMA Dequeued ==
    ASSUME ProducerTypeOK, NEW p \in Clients, queue[p] # <<>>, queue' = [queue EXCEPT ![p] = Tail(queue[p])]
    PROVE  /\ 1 \in 1 .. Len(queue[p]) /\ Head(queue[p]) = queue[p][1] /\ queue[p][1] \in Commands
           /\ \A i \in 1 .. Len(queue'[p]) : i + 1 \in 1 .. Len(queue[p]) /\ queue'[p][i] = queue[p][i + 1]
           /\ \A i \in 1 .. Len(queue[p]) : i = 1 \/ (i - 1 \in 1 .. Len(queue'[p]) /\ queue'[p][i - 1] = queue[p][i])
           /\ \A q \in Clients \ {p} : queue'[q] = queue[q]
           /\ \A q \in Clients : \E d \in {0, 1} : \A i \in 1 .. Len(queue'[q]) :
                 i \in Nat /\ i + d \in 1 .. Len(queue[q]) /\ queue'[q][i] = queue[q][i + d]
<1>1. queue[p] \in Seq(Commands) /\ queue'[p] = Tail(queue[p]) /\ \A q \in Clients \ {p} : queue'[q] = queue[q]
  BY DEF ProducerTypeOK
<1>2. /\ 1 \in 1 .. Len(queue[p]) /\ Head(queue[p]) = queue[p][1] /\ queue[p][1] \in Commands
      /\ Len(queue'[p]) = Len(queue[p]) - 1
  <2>1. Len(queue[p]) \in Nat \ {0} /\ queue[p][1] \in Commands
    BY <1>1
  <2>2. Head(queue[p]) = queue[p][1] /\ 1 \in 1 .. Len(queue[p])
    BY <1>1, <2>1
  <2>3. Len(Tail(queue[p])) = Len(queue[p]) - 1
    BY <1>1, <2>1
  <2> QED
    BY <1>1, <2>1, <2>2, <2>3
<1>3. \A i \in 1 .. Len(queue'[p]) : i + 1 \in 1 .. Len(queue[p]) /\ queue'[p][i] = queue[p][i + 1]
  BY <1>1, <1>2
<1>4. ASSUME NEW i \in 1 .. Len(queue[p]), i # 1 PROVE i - 1 \in 1 .. Len(queue'[p]) /\ queue'[p][i - 1] = queue[p][i]
  <2>1. i - 1 \in 1 .. Len(queue'[p]) /\ (i - 1) + 1 = i
    BY <1>1, <1>2, <1>4
  <2> QED
    BY <1>3, <2>1
<1>5. ASSUME NEW q \in Clients
      PROVE  \E d \in {0, 1} : \A i \in 1 .. Len(queue'[q]) : i \in Nat /\ i + d \in 1 .. Len(queue[q]) /\ queue'[q][i] = queue[q][i + d]
  <2>1. CASE q = p
    <3>1. \A i \in 1 .. Len(queue'[q]) : i \in Nat /\ i + 1 \in 1 .. Len(queue[q]) /\ queue'[q][i] = queue[q][i + 1]
      BY <1>3, <2>1
    <3> QED
      BY <3>1
  <2>2. CASE q # p
    <3>1. queue'[q] = queue[q] /\ Len(queue[q]) \in Nat
      BY <1>1, <2>2 DEF ProducerTypeOK
    <3>2. \A i \in 1 .. Len(queue'[q]) : i \in Nat /\ i + 0 \in 1 .. Len(queue[q]) /\ queue'[q][i] = queue[q][i + 0]
      <4> SUFFICES ASSUME NEW i \in 1 .. Len(queue'[q])
                   PROVE  i \in Nat /\ i + 0 \in 1 .. Len(queue[q]) /\ queue'[q][i] = queue[q][i + 0]
        OBVIOUS
      <4>1. i + 0 = i /\ i \in Nat /\ i \in 1 .. Len(queue[q])
        BY <3>1
      <4> QED
        BY <3>1, <4>1
    <3> QED
      BY <3>2
  <2> QED
    BY <2>1, <2>2
<1> QED
  BY <1>1, <1>2, <1>3, <1>4, <1>5

\* What stays in a channel from which the first command is taken.
LEMMA DequeuedKeeps ==
    ASSUME ProducerTypeOK, FlushInv, NEW p \in Clients, queue[p] # <<>>, queue' = [queue EXCEPT ![p] = Tail(queue[p])],
           UNCHANGED <<sent, sentBefore, senders>>
    PROVE  QueueOwned' /\ FlushBehind'
<1>1. \A q \in Clients : \E d \in {0, 1} : \A i \in 1 .. Len(queue'[q]) :
          i \in Nat /\ i + d \in 1 .. Len(queue[q]) /\ queue'[q][i] = queue[q][i + d]
  BY Dequeued
<1>2. QueueOwned'
  <2> SUFFICES ASSUME NEW q \in Clients, NEW i \in 1 .. Len(queue'[q])
               PROVE  /\ queue'[q][i].kind = "Message" => queue'[q][i].id \in 1 .. sent
                      /\ queue'[q][i].kind = "Flush" => queue'[q][i].id \in 1 .. Len(sentBefore) /\ \A m \in sentBefore[queue'[q][i].id] : senders[m] = q
    BY DEF QueueOwned
  <2>1. PICK k \in 1 .. Len(queue[q]) : queue'[q][i] = queue[q][k]
    BY <1>1
  <2>2. /\ queue[q][k].kind = "Message" => queue[q][k].id \in 1 .. sent
        /\ queue[q][k].kind = "Flush" => queue[q][k].id \in 1 .. Len(sentBefore) /\ \A m \in sentBefore[queue[q][k].id] : senders[m] = q
    BY DEF FlushInv, QueueOwned
  <2> QED
    BY <2>1, <2>2
<1>3. FlushBehind'
  <2> SUFFICES ASSUME NEW q \in Clients, NEW i \in 1 .. Len(queue'[q]), NEW j \in 1 .. Len(queue'[q]),
                      queue'[q][i].kind = "Flush", NEW m \in sentBefore[queue'[q][i].id],
                      queue'[q][j].kind = "Message", queue'[q][j].id = m
               PROVE  j < i
    BY DEF FlushBehind, Queued
  <2>1. PICK d \in {0, 1} : \A x \in 1 .. Len(queue'[q]) :
            x \in Nat /\ x + d \in 1 .. Len(queue[q]) /\ queue'[q][x] = queue[q][x + d]
    BY <1>1
  <2>2. /\ i \in Nat /\ i + d \in 1 .. Len(queue[q]) /\ queue'[q][i] = queue[q][i + d]
        /\ j \in Nat /\ j + d \in 1 .. Len(queue[q]) /\ queue'[q][j] = queue[q][j + d]
    BY <2>1
  <2>3. j + d < i + d
    BY <2>2 DEF FlushInv, FlushBehind, Queued
  <2> QED
    BY <2>2, <2>3
<1> QED
  BY <1>2, <1>3

\* A message the batching task takes moves from the queue into the batch.
LEMMA TakeMessageFlush ==
    ASSUME ProducerTypeOK, FlushInv, NEW p \in Clients, TakeMessage(p)
    PROVE  FlushInv'
<1> DEFINE c == queue[p][1]
<1>1. /\ queue[p] # <<>> /\ queue' = [queue EXCEPT ![p] = Tail(queue[p])]
      /\ batch' = [batch EXCEPT ![p] = Append(batch[p], Head(queue[p]).id)]
      /\ UNCHANGED <<flushes, answer, flushed, sent, sentBefore, senders>>
  BY DEF TakeMessage, callVars
<1>2. /\ Head(queue[p]) = c
      /\ \A i \in 1 .. Len(queue[p]) : i = 1 \/ (i - 1 \in 1 .. Len(queue'[p]) /\ queue'[p][i - 1] = queue[p][i])
      /\ \A q \in Clients \ {p} : queue'[q] = queue[q]
      /\ \A q \in Clients : \E d \in {0, 1} : \A i \in 1 .. Len(queue'[q]) :
            i \in Nat /\ i + d \in 1 .. Len(queue[q]) /\ queue'[q][i] = queue[q][i + d]
  BY <1>1, Dequeued
<1>3. /\ \A q \in Clients \ {p} : batch'[q] = batch[q]
      /\ Len(batch[p]) + 1 \in 1 .. Len(batch'[p]) /\ batch'[p][Len(batch[p]) + 1] = c.id
      /\ \A i \in 1 .. Len(batch[p]) : i \in 1 .. Len(batch'[p]) /\ batch'[p][i] = batch[p][i]
  <2>1. batch'[p] = Append(batch[p], c.id) /\ batch[p] \in Seq(Sends) /\ \A q \in Clients \ {p} : batch'[q] = batch[q]
    BY <1>1, <1>2 DEF ProducerTypeOK
  <2> HIDE DEF c
  <2> QED
    BY <2>1
<1> HIDE DEF c
<1>4. QueueOwned' /\ FlushBehind'
  BY <1>1, DequeuedKeeps
<1>5. FlushesOwned' /\ FlushCoversSends'
  BY <1>1 DEF FlushInv, FlushesOwned, FlushCoversSends
<1>6. FlushWaits'
  <2> SUFFICES ASSUME NEW q \in Clients, NEW f \in flushes[q], NEW m \in sentBefore[f], NEW i \in 1 .. Len(queue'[q]),
                      queue'[q][i].kind = "Message", queue'[q][i].id = m
               PROVE  FALSE
    BY <1>1 DEF FlushWaits, Queued
  <2>1. PICK k \in 1 .. Len(queue[q]) : queue'[q][i] = queue[q][k]
    BY <1>2
  <2> QED
    BY <2>1 DEF FlushInv, FlushWaits, Queued
<1>7. SendsTracked'
  <2> SUFFICES ASSUME NEW m \in 1 .. sent
               PROVE  \/ answer[m] # NotAnswered
                      \/ \E i \in 1 .. Len(batch'[senders[m]]) : batch'[senders[m]][i] = m
                      \/ \E i \in 1 .. Len(queue'[senders[m]]) : queue'[senders[m]][i].kind = "Message" /\ queue'[senders[m]][i].id = m
    BY <1>1 DEF SendsTracked, Queued
  <2>1. PICK q \in Clients : q = senders[m]
    BY DEF ProducerTypeOK
  <2>2. \/ answer[m] # NotAnswered
        \/ \E i \in 1 .. Len(batch[q]) : batch[q][i] = m
        \/ \E i \in 1 .. Len(queue[q]) : queue[q][i].kind = "Message" /\ queue[q][i].id = m
    BY <2>1 DEF FlushInv, SendsTracked, Queued
  <2>3. CASE q # p
    BY <1>2, <1>3, <2>1, <2>2, <2>3
  <2>4. CASE q = p
    <3>1. \/ answer[m] # NotAnswered
          \/ \E i \in 1 .. Len(batch[p]) : batch[p][i] = m
          \/ \E i \in 1 .. Len(queue[p]) : queue[p][i].kind = "Message" /\ queue[p][i].id = m
      BY <2>2, <2>4
    <3>2. \/ answer[m] # NotAnswered
          \/ \E i \in 1 .. Len(batch'[p]) : batch'[p][i] = m
          \/ \E i \in 1 .. Len(queue'[p]) : queue'[p][i].kind = "Message" /\ queue'[p][i].id = m
      <4>1. CASE \E i \in 1 .. Len(queue[p]) : queue[p][i].kind = "Message" /\ queue[p][i].id = m
        <5>1. PICK i \in 1 .. Len(queue[p]) : queue[p][i].kind = "Message" /\ queue[p][i].id = m
          BY <4>1
        <5>2. CASE i = 1
          BY <1>3, <5>1, <5>2 DEF c
        <5>3. CASE i # 1
          BY <1>2, <5>1, <5>3
        <5> QED
          BY <5>2, <5>3
      <4>2. CASE \E i \in 1 .. Len(batch[p]) : batch[p][i] = m
        BY <1>3, <4>2
      <4> QED
        BY <3>1, <4>1, <4>2
    <3> QED
      BY <2>1, <2>4, <3>2
  <2> QED
    BY <2>3, <2>4
<1> QED
  BY <1>4, <1>5, <1>6, <1>7 DEF FlushInv

\* A flush the batching task takes waits for the batch sent with it.
LEMMA TakeFlushFlush ==
    ASSUME ProducerTypeOK, FlushInv, NEW p \in Clients, TakeFlush(p)
    PROVE  FlushInv'
<1> DEFINE c == queue[p][1]
           f == c.id
<1>1. /\ queue[p] # <<>> /\ queue' = [queue EXCEPT ![p] = Tail(queue[p])] /\ Head(queue[p]).kind = "Flush"
      /\ UNCHANGED <<batch, answer, sent, sentBefore, senders>>
  BY DEF TakeFlush, callVars
<1>2. /\ Head(queue[p]) = c /\ 1 \in 1 .. Len(queue[p])
      /\ \A i \in 1 .. Len(queue[p]) : i = 1 \/ (i - 1 \in 1 .. Len(queue'[p]) /\ queue'[p][i - 1] = queue[p][i])
      /\ \A i \in 1 .. Len(queue'[p]) : i + 1 \in 1 .. Len(queue[p]) /\ queue'[p][i] = queue[p][i + 1]
      /\ \A q \in Clients \ {p} : queue'[q] = queue[q]
      /\ \A q \in Clients : \E d \in {0, 1} : \A i \in 1 .. Len(queue'[q]) :
            i \in Nat /\ i + d \in 1 .. Len(queue[q]) /\ queue'[q][i] = queue[q][i + d]
  BY <1>1, Dequeued
<1>3. c.kind = "Flush" /\ f \in 1 .. Len(sentBefore) /\ \A m \in sentBefore[f] : senders[m] = p
  BY <1>1, <1>2 DEF FlushInv, QueueOwned
\* None of its messages is in the channel.
<1>4. \A m \in sentBefore[f] : \A i \in 1 .. Len(queue[p]) : ~ Queued(p, i, m)
  <2> SUFFICES ASSUME NEW m \in sentBefore[f], NEW i \in 1 .. Len(queue[p]), Queued(p, i, m) PROVE FALSE
    OBVIOUS
  <2>1. i < 1
    BY <1>2, <1>3 DEF FlushInv, FlushBehind
  <2> QED
    BY <2>1
<1>5. IF batch[p] # <<>>
      THEN flushes' = [flushes EXCEPT ![p] = flushes[p] \cup {f}] /\ flushed' = flushed
      ELSE flushed' = flushed \cup {f} /\ flushes' = flushes
  BY <1>2 DEF TakeFlush
<1> HIDE DEF c, f
<1>6. QueueOwned' /\ FlushBehind'
  BY <1>1, DequeuedKeeps
<1>7. \A q \in Clients : \A g \in flushes'[q] : g \in flushes[q] \/ (q = p /\ g = f)
  BY <1>5 DEF ProducerTypeOK
<1>8. FlushesOwned'
  <2>1. \A q \in Clients : \A g \in flushes'[q] : g \in 1 .. Len(sentBefore) /\ \A m \in sentBefore[g] : senders[m] = q
    BY <1>3, <1>7 DEF FlushInv, FlushesOwned
  <2>2. flushed' \subseteq 1 .. Len(sentBefore)
    BY <1>3, <1>5 DEF FlushInv, FlushesOwned
  <2>3. \A g \in 1 .. Len(sentBefore) : sentBefore[g] \subseteq 1 .. sent
    BY DEF FlushInv, FlushesOwned
  <2> QED
    BY <1>1, <2>1, <2>2, <2>3 DEF FlushesOwned
<1>9. FlushWaits'
  <2> SUFFICES ASSUME NEW q \in Clients, NEW g \in flushes'[q], NEW m \in sentBefore[g], NEW i \in 1 .. Len(queue'[q]),
                      queue'[q][i].kind = "Message", queue'[q][i].id = m
               PROVE  FALSE
    BY <1>1 DEF FlushWaits, Queued
  <2>1. PICK k \in 1 .. Len(queue[q]) : queue'[q][i] = queue[q][k]
    BY <1>2
  <2>2. Queued(q, k, m)
    BY <2>1 DEF Queued
  <2>3. CASE g \in flushes[q]
    BY <2>2, <2>3 DEF FlushInv, FlushWaits
  <2>4. CASE q = p /\ g = f
    BY <1>4, <2>2, <2>4
  <2> QED
    BY <1>7, <2>3, <2>4
<1>10. SendsTracked'
  <2> SUFFICES ASSUME NEW m \in 1 .. sent
               PROVE  \/ answer[m] # NotAnswered
                      \/ \E i \in 1 .. Len(batch[senders[m]]) : batch[senders[m]][i] = m
                      \/ \E i \in 1 .. Len(queue'[senders[m]]) : queue'[senders[m]][i].kind = "Message" /\ queue'[senders[m]][i].id = m
    <3>1. UNCHANGED <<batch, answer, sent, senders>>
      BY <1>1
    <3> QED
      BY <3>1 DEF SendsTracked, Queued
  <2>1. PICK q \in Clients : q = senders[m]
    BY DEF ProducerTypeOK
  <2>2. \/ answer[m] # NotAnswered
        \/ \E i \in 1 .. Len(batch[q]) : batch[q][i] = m
        \/ \E i \in 1 .. Len(queue[q]) : queue[q][i].kind = "Message" /\ queue[q][i].id = m
    BY <2>1 DEF FlushInv, SendsTracked, Queued
  <2>3. ASSUME NEW i \in 1 .. Len(queue[q]), queue[q][i].kind = "Message" /\ queue[q][i].id = m
        PROVE  \E k \in 1 .. Len(queue'[q]) : queue'[q][k].kind = "Message" /\ queue'[q][k].id = m
    <3>1. CASE q # p
      BY <1>2, <2>3, <3>1
    <3>2. CASE q = p
      <4>1. i \in 1 .. Len(queue[p]) /\ queue[p][i].kind = "Message" /\ queue[p][i].id = m
        BY <2>3, <3>2
      <4>2. i # 1
        BY <1>3, <4>1 DEF c
      <4>a. PICK k \in 1 .. Len(queue'[p]) : queue'[p][k] = queue[p][i]
        BY <1>2, <4>1, <4>2
      <4>3. \E l \in 1 .. Len(queue'[p]) : queue'[p][l].kind = "Message" /\ queue'[p][l].id = m
        BY <4>1, <4>a
      <4> QED
        BY <3>2, <4>3
    <3> QED
      BY <3>1, <3>2
  <2> QED
    BY <2>1, <2>2, <2>3
<1>11. FlushCoversSends'
  <2> SUFFICES ASSUME NEW g \in flushed', NEW m \in sentBefore[g] PROVE answer[m] # NotAnswered
    BY <1>1 DEF FlushCoversSends
  <2>1. CASE g \in flushed
    BY <2>1 DEF FlushInv, FlushCoversSends
  <2>2. CASE g \notin flushed
    <3>1. g = f /\ batch[p] = <<>>
      BY <1>5, <2>2
    <3>2. m \in 1 .. sent /\ senders[m] = p
      BY <1>3, <3>1 DEF FlushInv, FlushesOwned
    <3>3. \A i \in 1 .. Len(queue[p]) : ~ Queued(p, i, m)
      BY <1>4, <3>1
    <3>4. Len(batch[p]) = 0
      BY <3>1
    <3>5. \A i \in 1 .. Len(batch[p]) : FALSE
      BY <3>4
    <3> QED
      BY <3>2, <3>3, <3>5 DEF FlushInv, SendsTracked
  <2> QED
    BY <2>1, <2>2
<1> QED
  BY <1>6, <1>8, <1>9, <1>10, <1>11 DEF FlushInv

\* The first place of a value in a sequence.
Place(s, m) == SelectInSeq(s, LAMBDA x : x = m)

\* The first place of an element of a sequence holds it.
LEMMA PlaceIn ==
    ASSUME NEW S, NEW s \in Seq(S), NEW m, Contains(s, m)
    PROVE  Place(s, m) \in 1 .. Len(s) /\ s[Place(s, m)] = m
<1> DEFINE I == {i \in 1 .. Len(s) : s[i] = m}
<1>1. I # {} /\ I \subseteq Nat
  BY DEF Contains
<1>2. Place(s, m) = Min(I)
  BY <1>1 DEF Place, SelectInSeq
<1>3. Min(I) \in I
  <2> HIDE DEF I
  <2> QED
    BY <1>1, MinOfNaturals
<1> QED
  BY <1>2, <1>3

\* What answers every message of the batch.
AnswersBatch(p, result) == \A i \in 1 .. Len(batch[p]) : result[i] \in Answers /\ result[i] # NotAnswered

\* Answering a batch answers all its messages, and with them the flushes that wait.
LEMMA FinishFlush ==
    ASSUME ProducerTypeOK, FlushInv, NEW p \in Clients, NEW result, AnswersBatch(p, result), FinishBatch(p, result),
           UNCHANGED <<queue, sent, sentBefore, senders>>
    PROVE  FlushInv' /\ answer' \in [Sends -> Answers]
<1> USE ProducerConstants
<1>1. /\ batch' = [batch EXCEPT ![p] = <<>>] /\ flushed' = flushed \cup flushes[p]
      /\ flushes' = [flushes EXCEPT ![p] = {}] /\ batch[p] \in Seq(Sends)
  BY DEF FinishBatch, ProducerTypeOK
<1>2. ASSUME NEW m \in Sends
      PROVE  /\ Contains(batch[p], m) => answer'[m] \in Answers /\ answer'[m] # NotAnswered
             /\ ~ Contains(batch[p], m) => answer'[m] = answer[m]
  <2>1. answer'[m] = IF Contains(batch[p], m) THEN result[Place(batch[p], m)] ELSE answer[m]
    BY DEF FinishBatch, Place
  <2>2. Contains(batch[p], m) => Place(batch[p], m) \in 1 .. Len(batch[p])
    BY <1>1, PlaceIn
  <2> QED
    BY <2>1, <2>2 DEF AnswersBatch
<1>3. answer' \in [Sends -> Answers]
  <2>1. answer' = [m \in Sends |-> answer'[m]]
    BY DEF FinishBatch
  <2>2. \A m \in Sends : answer'[m] \in Answers
    BY <1>2 DEF ProducerTypeOK
  <2> QED
    BY <2>1, <2>2
\* An answer stays one.
<1>4. \A m \in Sends : answer[m] # NotAnswered \/ Contains(batch[p], m) => answer'[m] # NotAnswered
  BY <1>2
<1>5. \A f \in 1 .. Len(sentBefore) : sentBefore[f] \subseteq 1 .. sent
  BY DEF FlushInv, FlushesOwned
<1>6. \A m \in 1 .. sent : m \in Sends /\ senders[m] \in Clients
  BY DEF ProducerTypeOK, Sends
<1>7. QueueOwned' /\ FlushBehind'
  BY DEF FlushInv, QueueOwned, FlushBehind, Queued
<1>8. \A q \in Clients : flushes'[q] \subseteq flushes[q]
  BY <1>1 DEF ProducerTypeOK
<1>9. FlushesOwned' /\ FlushWaits'
  <2>1. flushed' \subseteq 1 .. Len(sentBefore)
    BY <1>1 DEF FlushInv, FlushesOwned
  <2>2. \A q \in Clients : \A f \in flushes'[q] : f \in 1 .. Len(sentBefore) /\ \A m \in sentBefore[f] : senders[m] = q
    BY <1>8 DEF FlushInv, FlushesOwned
  <2>3. FlushWaits'
    BY <1>8 DEF FlushInv, FlushWaits, Queued
  <2> QED
    BY <1>5, <2>1, <2>2, <2>3 DEF FlushesOwned
<1>10. SendsTracked'
  <2> SUFFICES ASSUME NEW m \in 1 .. sent
               PROVE  \/ answer'[m] # NotAnswered
                      \/ \E i \in 1 .. Len(batch'[senders[m]]) : batch'[senders[m]][i] = m
                      \/ \E i \in 1 .. Len(queue[senders[m]]) : queue[senders[m]][i].kind = "Message" /\ queue[senders[m]][i].id = m
    BY DEF SendsTracked, Queued
  <2>1. PICK q \in Clients : q = senders[m]
    BY <1>6
  <2>2. \/ answer[m] # NotAnswered
        \/ \E i \in 1 .. Len(batch[q]) : batch[q][i] = m
        \/ \E i \in 1 .. Len(queue[q]) : queue[q][i].kind = "Message" /\ queue[q][i].id = m
    BY <2>1 DEF FlushInv, SendsTracked, Queued
  <2>3. CASE q # p
    <3>1. batch'[q] = batch[q]
      BY <1>1, <2>3 DEF ProducerTypeOK
    <3> QED
      BY <1>4, <1>6, <2>1, <2>2, <3>1
  <2>4. CASE q = p
    <3>1. (\E i \in 1 .. Len(batch[q]) : batch[q][i] = m) => Contains(batch[p], m)
      BY <2>4 DEF Contains
    <3> QED
      BY <1>4, <1>6, <2>1, <2>2, <3>1
  <2> QED
    BY <2>3, <2>4
<1>11. FlushCoversSends'
  <2> SUFFICES ASSUME NEW f \in flushed', NEW m \in sentBefore[f] PROVE answer'[m] # NotAnswered
    BY DEF FlushCoversSends
  <2>1. CASE f \in flushed
    <3>1. answer[m] # NotAnswered /\ m \in Sends
      BY <1>5, <1>6, <2>1 DEF FlushInv, FlushCoversSends, FlushesOwned
    <3> QED
      BY <1>4, <3>1
  <2>2. CASE f \in flushes[p]
    <3>1. f \in 1 .. Len(sentBefore) /\ senders[m] = p /\ \A i \in 1 .. Len(queue[p]) : ~ Queued(p, i, m)
      BY <2>2 DEF FlushInv, FlushesOwned, FlushWaits
    <3>2. m \in 1 .. sent /\ m \in Sends
      BY <1>5, <1>6, <3>1
    <3>3. answer[m] # NotAnswered \/ Contains(batch[p], m)
      BY <3>1, <3>2 DEF FlushInv, SendsTracked, Contains
    <3> QED
      BY <1>4, <3>2, <3>3
  <2> QED
    BY <1>1, <2>1, <2>2
<1> QED
  BY <1>3, <1>7, <1>9, <1>10, <1>11 DEF FlushInv

-------------------------------------------------------------------------------
(* The requests.                                                           *)

\* A request that has not read the watermark yet.
Unread(r) == r.pc = "read" /\ r.done = 0 /\ Len(r.ids) \in Nat \ {0}

\* A producer without a request in flight awaits none of those still served.
LEMMA NoneAwaited ==
    ASSUME ProducerTypeOK, NEW r \in serving, Awaited(r)
    PROVE  r \in Requests /\ r.client \in Clients /\ awaiting[r.client] # 0 /\ awaiting[r.client] = r.number
BY DEF ProducerTypeOK, Requests, Awaited

\* A new request has a number of its own and the messages of the batch.
LEMMA SendBatchServes ==
    ASSUME ProducerTypeOK, ServingInv, NEW p \in Clients, NEW ids \in Seq(Sends), ids # <<>>,
           batch'[p] = ids, \A q \in Clients \ {p} : batch'[q] = batch[q], SendBatch(p, ids)
    PROVE  /\ ServingInv'
           /\ serving' \subseteq Requests /\ awaiting' \in [Clients -> Nat] /\ requests' \in Nat
           /\ \A s \in serving' : s \in serving \/ Unread(s)
<1>a. PICK new : new = [client |-> p, number |-> requests + 1, ids |-> ids, done |-> 0,
                        pc |-> "read", base |-> 0, first |-> 0]
  OBVIOUS
<1>1. /\ requests \in Nat /\ requests' = requests + 1
      /\ awaiting' = [awaiting EXCEPT ![p] = requests + 1] /\ serving' = serving \cup {new}
  BY <1>a DEF SendBatch, ProducerTypeOK
<1>2. new \in Requests /\ new.client = p /\ new.number = requests + 1 /\ new.ids = ids /\ Unread(new)
  BY <1>1, <1>a DEF Requests, Unread
<1>3. serving' \subseteq Requests /\ awaiting' \in [Clients -> Nat] /\ requests' \in Nat
  BY <1>1, <1>2 DEF ProducerTypeOK
<1>4. awaiting'[p] = requests + 1 /\ \A q \in Clients \ {p} : awaiting'[q] = awaiting[q]
  BY <1>1 DEF ProducerTypeOK
<1>5. \A r \in serving : r.number \in Nat /\ r.number <= requests
  BY DEF ServingInv, ProducerTypeOK, Requests
<1>6. \A r \in serving' : r.number <= requests + 1
  BY <1>1, <1>2, <1>5
<1>7. ASSUME NEW r \in serving', awaiting'[r.client] = r.number PROVE r.ids = batch'[r.client]
  <2>1. CASE r \in serving
    <3>1. r.client \in Clients
      BY <2>1 DEF ProducerTypeOK, Requests
    <3>2. r.client # p
      BY <1>1, <1>4, <1>5, <1>7, <2>1
    <3> QED
      BY <1>4, <1>7, <2>1, <3>1, <3>2 DEF ServingInv, Awaited
  <2>2. CASE r = new
    BY <1>2, <2>2
  <2> QED
    BY <1>1, <2>1, <2>2
<1>8. \A s \in serving' : s \in serving \/ Unread(s)
  BY <1>1, <1>2
<1> QED
  BY <1>1, <1>3, <1>6, <1>7, <1>8 DEF ServingInv, Awaited

\* When the task stops waiting, nothing of its batch is left to account for.
LEMMA FinishServes ==
    ASSUME ProducerTypeOK, ServingInv, NEW p \in Clients, NEW result, FinishBatch(p, result),
           serving' \subseteq serving, UNCHANGED requests
    PROVE  /\ ServingInv' /\ awaiting' \in [Clients -> Nat] /\ batch' \in [Clients -> Seq(Sends)]
           /\ flushes' \in [Clients -> SUBSET Nat] /\ flushed' \subseteq Nat
<1>1. awaiting' = [awaiting EXCEPT ![p] = 0] /\ batch' = [batch EXCEPT ![p] = <<>>]
  BY DEF FinishBatch
<1>2. /\ awaiting' \in [Clients -> Nat] /\ awaiting'[p] = 0
      /\ \A q \in Clients \ {p} : awaiting'[q] = awaiting[q] /\ batch'[q] = batch[q]
  BY <1>1 DEF ProducerTypeOK
<1>3. batch' \in [Clients -> Seq(Sends)] /\ flushes' \in [Clients -> SUBSET Nat] /\ flushed' \subseteq Nat
  BY DEF ProducerTypeOK, FinishBatch
<1>4. ASSUME NEW r \in serving', awaiting'[r.client] = r.number PROVE r.ids = batch'[r.client]
  <2>1. r \in serving /\ r.client \in Clients /\ r.number # 0
    BY DEF ProducerTypeOK, Requests
  <2>2. r.client # p
    BY <1>2, <1>4, <2>1
  <2> QED
    BY <1>2, <1>4, <2>1, <2>2 DEF ServingInv, Awaited
<1> QED
  BY <1>2, <1>3, <1>4 DEF ServingInv, Awaited

\* Requests that the task does not wait for leave what it waits for alone.
LEMMA FewerServed ==
    ASSUME ServingInv, serving' \subseteq serving, UNCHANGED <<requests, awaiting, batch>>
    PROVE  ServingInv'
BY DEF ServingInv, Awaited

\* A request that goes on stays the one that its producer waits for.
LEMMA BecomesServes ==
    ASSUME ProducerTypeOK, ServingInv, NEW r \in serving, NEW x \in Requests, Becomes(r, x),
           x.client = r.client, x.number = r.number, x.ids = r.ids, UNCHANGED <<requests, awaiting, batch>>
    PROVE  ServingInv' /\ serving' \subseteq Requests
BY DEF ProducerTypeOK, ServingInv, Awaited, Becomes

\* Requests that end, or have not read the watermark, change nothing in the log, and an
\* answer is right when it tells a place that is.
LEMMA LogKept ==
    ASSUME LogInv, UNCHANGED brokerVars, \A s \in serving' : s \in serving \/ Unread(s),
           \A m \in Sends : answer'[m] = answer[m] \/ AnswerPlaced(answer'[m], m)
    PROVE  LogInv'
<1>1. UNCHANGED <<topicLog, watermark, racedRequests>>
  BY DEF brokerVars
<1>2. \A o : Below(o) => Below(o)'
  BY <1>1 DEF Below, Unread
<1>3. \A o, m : Holds(o, m) => Holds(o, m)'
  BY <1>1 DEF Holds
<1>4. ASSUME NEW r \in serving', r \in serving PROVE Shaped(r)' /\ Placed(r)'
  <2>1. Shaped(r) /\ Placed(r)
    BY <1>4 DEF LogInv
  <2>2. Shaped(r)'
    BY <2>1 DEF Shaped
  <2>3. Positioned(r) => Positioned(r)'
    BY <1>1, <1>3 DEF Positioned
  <2> QED
    BY <1>1, <1>2, <1>3, <2>1, <2>2, <2>3 DEF Placed, Appending, Finished
<1>5. ASSUME NEW r \in serving', Unread(r) PROVE Shaped(r)' /\ Placed(r)' /\ ~Appending(r)
  <2>1. 1 .. r.done = {} /\ r.pc = "read" /\ r.done = 0 /\ Len(r.ids) \in Nat
    BY <1>5 DEF Unread
  <2>2. ~Appending(r)' /\ ~Appending(r)
    BY <2>1 DEF Appending
  <2>3. Shaped(r)'
    BY <2>1 DEF Shaped
  <2> QED
    BY <2>1, <2>2, <2>3 DEF Placed
<1>6. RaceSeen'
  BY <1>1, <1>5 DEF LogInv, RaceSeen, Appending, Finished
<1>7. ASSUME NEW m \in Sends PROVE AnswerPlaced(answer[m], m)'
  <2>1. AnswerPlaced(answer'[m], m)
    BY DEF LogInv
  <2> QED
    BY <1>1, <1>2, <1>3, <2>1 DEF AnswerPlaced
<1> QED
  BY <1>4, <1>5, <1>6, <1>7 DEF LogInv

\* Another request that has not raced and is not appending keeps its place when r goes on.
LEMMA OthersPlaced ==
    ASSUME NEW s, Placed(s), ~Appending(s), racedRequests \subseteq racedRequests',
           \A o \in Nat : Below(o) => Below(o)',
           \A o \in Nat : \A m : Below(o) /\ Holds(o, m) => Holds(o, m)',
           s \in Requests, Shaped(s)
    PROVE  Placed(s)'
<1> SUFFICES ASSUME s.number \notin racedRequests PROVE Placed(s)'
  BY DEF Placed
<1>1. /\ \A j \in 1 .. s.done : Holds(s.first + j - 1, s.ids[j])
      /\ Finished(s) => \A j \in 1 .. s.done : Below(s.first + j - 1)
  BY DEF Placed
<1>2. ~Appending(s)' /\ (Finished(s)' <=> Finished(s))
  BY DEF Appending, Finished
<1>3. CASE Finished(s)
  <2>1. \A j \in 1 .. s.done : s.first + j - 1 \in Nat
    BY DEF Requests
  <2> QED
    BY <1>1, <1>2, <1>3, <2>1 DEF Placed
<1>4. CASE ~Finished(s)
  <2>1. s.done = 0
    BY <1>4 DEF Appending, Requests
  <2>2. 1 .. s.done = {}
    BY <2>1
  <2> QED
    BY <1>2, <1>4, <2>2 DEF Placed
<1> QED
  BY <1>3, <1>4

\* A step of request r to x that neither another request nor an answer has to fear.
LEMMA LogStep ==
    ASSUME ProducerTypeOK, LogInv, NEW r \in serving, NEW x, Becomes(r, x), x.number = r.number,
           UNCHANGED answer, racedRequests \subseteq racedRequests',
           \A o \in Nat : Below(o) => Below(o)',
           \A o \in Nat : \A m : Below(o) /\ Holds(o, m) => Holds(o, m)',
           Shaped(x)', Placed(x)',
           \A s \in serving \ {r} : Appending(s) => s.number \in racedRequests' /\ r.number \in racedRequests'
    PROVE  LogInv'
<1>1. serving' = (serving \ {r}) \cup {x}
  BY DEF Becomes
<1>2. ASSUME NEW s \in serving \ {r} PROVE Shaped(s)' /\ Placed(s)' /\ (Appending(s)' <=> Appending(s))
  <2>1. Shaped(s) /\ Placed(s) /\ s \in Requests
    BY DEF LogInv, ProducerTypeOK
  <2>2. Shaped(s)' /\ (Appending(s)' <=> Appending(s))
    BY <2>1 DEF Shaped, Appending, Finished
  <2>3. CASE Appending(s)
    <3>1. s.number \in racedRequests'
      BY <2>3
    <3> QED
      BY <2>2, <3>1 DEF Placed
  <2>4. CASE ~Appending(s)
    BY <2>1, <2>2, <2>4, OthersPlaced
  <2> QED
    BY <2>2, <2>3, <2>4
<1>3. RaceSeen'
  <2> SUFFICES ASSUME NEW s \in serving', NEW t \in serving', s # t, Appending(s)', Appending(t)'
               PROVE  s.number \in racedRequests'
    BY DEF RaceSeen
  <2>1. CASE s \in serving \ {r} /\ t \in serving \ {r}
    BY <1>2, <2>1 DEF LogInv, RaceSeen
  <2>2. CASE s \in serving \ {r} /\ t = x
    BY <1>2, <2>2
  <2>3. CASE s = x /\ t \in serving \ {r}
    BY <1>2, <2>3
  <2> QED
    BY <1>1, <2>1, <2>2, <2>3
<1>4. ASSUME NEW m \in Sends PROVE AnswerPlaced(answer[m], m)'
  <2>1. AnswerPlaced(answer[m], m) /\ answer'[m] = answer[m]
    BY DEF LogInv
  <2>2. answer[m].status = "sent" => answer[m].offset \in Nat
    <3>1. answer[m] \in Answers /\ NotAnswered.status # "sent" /\ SendFailed.status # "sent"
      BY DEF ProducerTypeOK, NotAnswered, SendFailed
    <3> QED
      BY <3>1 DEF Answers
  <2> QED
    BY <2>1, <2>2 DEF AnswerPlaced
<1> QED
  BY <1>1, <1>2, <1>3, <1>4 DEF LogInv

\* The request takes the watermark as the offset of its next record.
LEMMA ReadKeepsLog ==
    ASSUME ProducerTypeOK, LogInv, ServingInv, NEW r \in serving, ReadWatermark(r)
    PROVE  LogInv' /\ ServingInv' /\ serving' \subseteq Requests
<1>a. PICK x : x = [r EXCEPT !.pc = "append", !.base = watermark, !.first = IF r.done = 0 THEN watermark ELSE r.first]
  OBVIOUS
<1>b. PICK others : others = {s \in serving \ {r} : Appending(s)}
  OBVIOUS
<1>1. /\ Becomes(r, x) /\ UNCHANGED <<answer, topicLog, watermark, requests, awaiting, batch>>
      /\ racedRequests' = IF others = {} THEN racedRequests ELSE racedRequests \cup {s.number : s \in others \cup {r}}
      /\ r.pc = "read" /\ ~Finished(r)
  BY <1>a, <1>b DEF ReadWatermark
<1>2. r \in Requests /\ watermark \in Nat /\ r.done \in Nat /\ Len(r.ids) \in Nat /\ r.first \in Nat /\ Shaped(r) /\ Placed(r)
  BY DEF ProducerTypeOK, LogInv, Requests
<1>3. /\ x \in Requests /\ x.client = r.client /\ x.number = r.number /\ x.ids = r.ids /\ x.done = r.done
      /\ x.pc = "append" /\ x.base = watermark /\ x.first = IF r.done = 0 THEN watermark ELSE r.first
  BY <1>2, <1>a DEF Requests
<1>4. ServingInv' /\ serving' \subseteq Requests
  BY <1>1, <1>3, BecomesServes
<1>5. serving' = (serving \ {r}) \cup {x}
  BY <1>1 DEF Becomes
<1>6. \A o : Below(o) => Below(o)'
  BY <1>1, <1>3, <1>5 DEF Below
<1>7. \A o, m : Holds(o, m) => Holds(o, m)'
  BY <1>1 DEF Holds
<1>8. r.done < Len(r.ids)
  BY <1>1, <1>2 DEF Shaped, Finished
<1>9. Shaped(x)'
  BY <1>2, <1>3, <1>8 DEF Shaped
<1>10. /\ racedRequests \subseteq racedRequests'
       /\ \A s \in serving \ {r} : Appending(s) => s.number \in racedRequests' /\ r.number \in racedRequests'
  BY <1>1, <1>b
<1>11. Placed(x)'
  <2> SUFFICES ASSUME r.number \notin racedRequests PROVE Placed(x)'
    BY <1>3, <1>10 DEF Placed
  <2>1. CASE r.done = 0
    <3>1. 1 .. x.done = {} /\ x.base = x.first + x.done
      BY <1>2, <1>3, <2>1
    <3> QED
      BY <1>3, <1>8, <3>1 DEF Placed, Positioned, Finished
  <2>2. CASE r.done # 0
    <3>1. r.done > 0 /\ Appending(r)
      BY <1>1, <1>2, <2>2 DEF Appending
    <3>2. watermark = r.first + r.done /\ \A j \in 1 .. r.done : Holds(r.first + j - 1, r.ids[j])
      BY <1>1, <1>2, <3>1 DEF Placed, Positioned
    <3>3. x.first = r.first /\ x.base = x.first + x.done
      BY <1>3, <2>2, <3>2
    <3>4. \A j \in 1 .. x.done : Holds(x.first + j - 1, x.ids[j])'
      BY <1>3, <1>7, <3>2, <3>3
    <3> QED
      BY <1>3, <1>8, <3>3, <3>4 DEF Placed, Positioned, Finished
  <2> QED
    BY <2>1, <2>2
<1>12. LogInv'
  BY <1>1, <1>3, <1>6, <1>7, <1>9, <1>10, <1>11, LogStep
<1> QED
  BY <1>4, <1>12

\* The record is written at the offset, where no told offset and no finished record is.
LEMMA AppendKeepsLog ==
    ASSUME ProducerTypeOK, LogInv, ServingInv, NEW r \in serving, AppendRecord(r)
    PROVE  LogInv' /\ ServingInv' /\ serving' \subseteq Requests
<1>a. PICK x : x = [r EXCEPT !.pc = "store"]
  OBVIOUS
<1>1. /\ Becomes(r, x) /\ UNCHANGED <<answer, watermark, racedRequests, requests, awaiting, batch>> /\ r.pc = "append"
      /\ topicLog' = [o \in DOMAIN topicLog \cup {r.base} |-> IF o = r.base THEN r.ids[r.done + 1] ELSE topicLog[o]]
  BY <1>a DEF AppendRecord
<1>2. r \in Requests /\ r.done \in Nat /\ r.first \in Nat /\ r.base \in Nat /\ Shaped(r) /\ Placed(r)
  BY DEF ProducerTypeOK, LogInv, Requests
<1>3. /\ x \in Requests /\ x.client = r.client /\ x.number = r.number /\ x.ids = r.ids /\ x.done = r.done
      /\ x.pc = "store" /\ x.base = r.base /\ x.first = r.first
  BY <1>2, <1>a DEF Requests
<1>4. ServingInv' /\ serving' \subseteq Requests
  BY <1>1, <1>3, BecomesServes
<1>5. serving' = (serving \ {r}) \cup {x}
  BY <1>1 DEF Becomes
<1>6. \A o : Below(o) => Below(o)'
  BY <1>1, <1>3, <1>5 DEF Below
<1>7. \A o, m : o # r.base /\ Holds(o, m) => Holds(o, m)'
  BY <1>1 DEF Holds
<1>8. ASSUME NEW o \in Nat, NEW m, Below(o), Holds(o, m) PROVE Holds(o, m)'
  <2>1. o < r.base
    BY <1>1, <1>8 DEF Below
  <2>2. o # r.base
    BY <1>2, <2>1
  <2> QED
    BY <1>7, <1>8, <2>2
<1>9. Shaped(x)' /\ r.done < Len(r.ids)
  BY <1>1, <1>2, <1>3 DEF Shaped
<1>10. Appending(r)
  BY <1>1 DEF Appending
<1>11. \A s \in serving \ {r} : Appending(s) => s.number \in racedRequests' /\ r.number \in racedRequests'
  BY <1>1, <1>10 DEF LogInv, RaceSeen
<1>12. Placed(x)'
  <2> SUFFICES ASSUME r.number \notin racedRequests PROVE Placed(x)'
    BY <1>1, <1>3 DEF Placed
  <2>1. r.base = r.first + r.done /\ \A j \in 1 .. r.done : Holds(r.first + j - 1, r.ids[j])
    BY <1>1, <1>2, <1>10 DEF Placed, Positioned
  <2>2. \A j \in 1 .. x.done : Holds(x.first + j - 1, x.ids[j])'
    <3> SUFFICES ASSUME NEW j \in 1 .. r.done PROVE Holds(r.first + j - 1, r.ids[j])'
      BY <1>3
    <3>1. r.first + j - 1 # r.base
      BY <1>2, <2>1
    <3> QED
      BY <1>7, <2>1, <3>1
  <2>3. Holds(x.base, x.ids[x.done + 1])'
    BY <1>1, <1>3 DEF Holds
  <2>4. Positioned(x)'
    BY <1>3, <2>1, <2>3 DEF Positioned
  <2>5. ~Finished(x)'
    BY <1>2, <1>3, <1>9 DEF Finished
  <2> QED
    BY <2>2, <2>4, <2>5 DEF Placed
<1>13. LogInv'
  BY <1>1, <1>3, <1>6, <1>8, <1>9, <1>11, <1>12, LogStep
<1> QED
  BY <1>4, <1>13

\* The watermark moves to the offset after the record: back, perhaps, but never to a told
\* offset or to a finished record of a request that has not raced.
LEMMA StoreKeepsLog ==
    ASSUME ProducerTypeOK, LogInv, ServingInv, NEW r \in serving, StoreWatermark(r)
    PROVE  LogInv' /\ ServingInv' /\ serving' \subseteq Requests /\ watermark' \in Nat
<1>a. PICK x : x = [r EXCEPT !.pc = "read", !.done = r.done + 1]
  OBVIOUS
<1>1. /\ Becomes(r, x) /\ UNCHANGED <<answer, topicLog, racedRequests, requests, awaiting, batch>> /\ r.pc = "store"
      /\ watermark' = r.base + 1
  BY <1>a DEF StoreWatermark
<1>2. r \in Requests /\ r.done \in Nat /\ r.first \in Nat /\ r.base \in Nat /\ Len(r.ids) \in Nat /\ Shaped(r) /\ Placed(r)
  BY DEF ProducerTypeOK, LogInv, Requests
<1>b. PICK d \in Nat : d = r.done + 1
  BY <1>2
<1>3. /\ x \in Requests /\ x.client = r.client /\ x.number = r.number /\ x.ids = r.ids /\ x.done = r.done + 1
      /\ x.pc = "read" /\ x.base = r.base /\ x.first = r.first
  <2>1. x = [r EXCEPT !.pc = "read", !.done = d]
    BY <1>a, <1>b
  <2>2. /\ x \in Requests /\ x.client = r.client /\ x.number = r.number /\ x.ids = r.ids /\ x.done = d
        /\ x.pc = "read" /\ x.base = r.base /\ x.first = r.first
    BY <1>2, <2>1 DEF Requests
  <2> QED
    BY <1>b, <2>2
<1>4. ServingInv' /\ serving' \subseteq Requests
  BY <1>1, <1>3, BecomesServes
<1>5. serving' = (serving \ {r}) \cup {x}
  BY <1>1 DEF Becomes
<1>6. ASSUME NEW o \in Nat, Below(o) PROVE Below(o)'
  <2>1. o < r.base /\ \A s \in serving : s.pc # "read" => o < s.base
    BY <1>1, <1>6 DEF Below
  <2>2. o < r.base + 1
    BY <1>2, <2>1
  <2> QED
    BY <1>1, <1>3, <1>5, <2>1, <2>2 DEF Below
<1>7. \A o, m : Holds(o, m) => Holds(o, m)'
  BY <1>1 DEF Holds
<1>8. r.done < Len(r.ids) /\ Shaped(x)'
  BY <1>1, <1>2, <1>3 DEF Shaped
<1>9. Appending(r)
  BY <1>1 DEF Appending
<1>10. \A s \in serving \ {r} : Appending(s) => s.number \in racedRequests' /\ r.number \in racedRequests'
  BY <1>1, <1>9 DEF LogInv, RaceSeen
<1>11. Placed(x)'
  <2> SUFFICES ASSUME r.number \notin racedRequests PROVE Placed(x)'
    BY <1>1, <1>3 DEF Placed
  <2>1. /\ r.base = r.first + r.done /\ Holds(r.base, r.ids[r.done + 1])
        /\ \A j \in 1 .. r.done : Holds(r.first + j - 1, r.ids[j])
    BY <1>1, <1>2, <1>9 DEF Placed, Positioned
  <2>2. ASSUME NEW j \in 1 .. r.done + 1 PROVE Holds(r.first + j - 1, r.ids[j])'
    <3>1. CASE j = r.done + 1
      <4>1. r.first + j - 1 = r.base
        BY <1>2, <2>1, <3>1
      <4> QED
        BY <1>7, <2>1, <3>1, <4>1
    <3>2. CASE j # r.done + 1
      <4>1. j \in 1 .. r.done
        BY <1>2, <3>2
      <4> QED
        BY <1>7, <2>1, <4>1
    <3> QED
      BY <3>1, <3>2
  <2>3. watermark' = x.first + x.done
    <3>1. x.first + x.done = r.first + (r.done + 1) /\ watermark' = (r.first + r.done) + 1
      BY <1>1, <1>3, <2>1
    <3> QED
      BY <1>2, <3>1
  <2>4. \A s \in serving' : s.pc = "read"
    <3>1. \A s \in serving \ {r} : ~Appending(s)
      BY <1>1, <1>10
    <3> QED
      BY <1>3, <1>5, <3>1 DEF Appending
  <2>5. ASSUME NEW j \in 1 .. r.done + 1 PROVE Below(r.first + j - 1)'
    <3>1. r.first + j - 1 < watermark'
      <4>1. watermark' = r.first + (r.done + 1)
        BY <1>3, <2>3
      <4>2. PICK f \in Nat, n \in Nat : f = r.first /\ n = r.done + 1
        BY <1>2
      <4>3. j \in 1 .. n /\ watermark' = f + n
        BY <4>1, <4>2
      <4>4. f + j - 1 < f + n
        BY <4>3
      <4> QED
        BY <4>2, <4>3, <4>4
    <3> QED
      BY <2>4, <3>1 DEF Below
  <2>6. Positioned(x)'
    BY <1>3, <2>3 DEF Positioned
  <2> QED
    BY <1>3, <2>2, <2>5, <2>6 DEF Placed
<1>12. LogInv'
  BY <1>1, <1>3, <1>6, <1>7, <1>8, <1>10, <1>11, LogStep
<1>13. watermark' \in Nat
  BY <1>1, <1>2
<1> QED
  BY <1>4, <1>12, <1>13

\* send and flush only add to the queue.
LEMMA CallsKeep ==
    ASSUME ProducerInv, NEW p \in Clients, Send(p) \/ Flush(p)
    PROVE  ProducerInv'
<1> USE ProducerConstants
<1>1. FlushInv' /\ ServingInv' /\ LogInv'
  <2>1. FlushInv'
    BY SendFlush, CallFlush DEF ProducerInv
  <2>2. UNCHANGED <<serving, brokerVars, requests, awaiting, batch, answer>>
    BY DEF Send, Flush
  <2>3. ServingInv' /\ LogInv'
    BY <2>2, FewerServed, LogKept DEF ProducerInv
  <2> QED
    BY <2>1, <2>3
<1>2. ProducerTypeOK'
  <2>1. UNCHANGED <<batch, flushes, awaiting, serving, watermark, answer, flushed, requests>>
    BY DEF Send, Flush, brokerVars
  <2>2. CASE Send(p)
    <3>1. [kind |-> "Message", id |-> sent + 1] \in Commands
      BY DEF Commands, ProducerInv, ProducerTypeOK
    <3>2. queue' \in [Clients -> Seq(Commands)]
      <4> DEFINE c == [kind |-> "Message", id |-> sent + 1]
      <4>1. queue' = [queue EXCEPT ![p] = Append(queue[p], c)] /\ c \in Commands
        BY <2>2, <3>1 DEF Send
      <4> HIDE DEF c
      <4> QED
        BY <4>1 DEF ProducerInv, ProducerTypeOK
    <3>3. /\ sent' \in 0 .. MaxSends /\ sent' = sent + 1 /\ sentBefore' = sentBefore /\ senders' = Append(senders, p)
          /\ senders \in Seq(Clients) /\ Len(senders) = sent /\ sent \in Nat
      BY <2>2 DEF Send, ProducerInv, ProducerTypeOK
    <3>4. senders' \in [1 .. sent' -> Clients]
      <4>1. senders' \in Seq(Clients) /\ Len(senders') = sent'
        BY <3>3
      <4> QED
        BY <4>1
    <3> QED
      BY <2>1, <3>2, <3>3, <3>4 DEF ProducerInv, ProducerTypeOK
  <2>3. CASE Flush(p)
    <3> DEFINE c == [kind |-> "Flush", id |-> Len(sentBefore) + 1]
               own == {m \in DOMAIN senders : senders[m] = p}
    <3>1. c \in Commands /\ own \in SUBSET Sends
      BY DEF Commands, ProducerInv, ProducerTypeOK, Sends
    <3>2. queue' = [queue EXCEPT ![p] = Append(queue[p], c)] /\ sentBefore' = Append(sentBefore, own) /\ sent' = sent /\ senders' = senders
      BY <2>3 DEF Flush
    <3> HIDE DEF c, own
    <3>3. queue' \in [Clients -> Seq(Commands)] /\ sentBefore' \in Seq(SUBSET Sends)
      BY <3>1, <3>2 DEF ProducerInv, ProducerTypeOK
    <3> QED
      BY <2>1, <3>2, <3>3 DEF ProducerInv, ProducerTypeOK
  <2> QED
    BY <2>2, <2>3
<1> QED
  BY <1>1, <1>2 DEF ProducerInv

\* The batching task moves commands to the batch and the batch to a request.
LEMMA BatchingKeeps ==
    ASSUME ProducerInv, NEW p \in Clients, BatchingTask(p)
    PROVE  ProducerInv'
<1> USE ProducerConstants
<1>1. ProducerTypeOK /\ FlushInv /\ ServingInv /\ LogInv
  BY DEF ProducerInv
<1>2. UNCHANGED <<answer, sent, sentBefore, senders>> /\ UNCHANGED brokerVars /\ watermark' = watermark /\ awaiting[p] = 0
  BY DEF BatchingTask, TakeMessage, TakeFlush, BatchTimer, callVars, brokerVars
<1>4. FlushInv'
  <2>1. CASE TakeMessage(p)
    BY <1>1, <2>1, TakeMessageFlush
  <2>2. CASE TakeFlush(p)
    BY <1>1, <2>2, TakeFlushFlush
  <2>3. CASE BatchTimer(p)
    BY <1>1, <2>3, FlushUnchanged DEF BatchTimer, flushVars, callVars
  <2> QED
    BY <2>1, <2>2, <2>3 DEF BatchingTask
\* What each of them does to the batch and the request.
<1>5. /\ batch' \in [Clients -> Seq(Sends)] /\ \A q \in Clients \ {p} : batch'[q] = batch[q]
      /\ \/ SendBatch(p, batch'[p]) /\ batch'[p] # <<>>
         \/ NoRequest
  <2>1. CASE TakeMessage(p)
    <3>1. /\ queue[p] # <<>> /\ queue' = [queue EXCEPT ![p] = Tail(queue[p])] /\ Head(queue[p]).kind = "Message"
          /\ batch' = [batch EXCEPT ![p] = Append(batch[p], Head(queue[p]).id)]
      BY <2>1 DEF TakeMessage
    <3>2. 1 \in 1 .. Len(queue[p]) /\ Head(queue[p]) = queue[p][1]
      BY <1>1, <3>1, Dequeued
    <3>3. Head(queue[p]).id \in 1 .. sent
      BY <1>1, <3>1, <3>2 DEF FlushInv, QueueOwned
    <3>4. Head(queue[p]).id \in Sends
      <4>1. sent \in 0 .. MaxSends
        BY <1>1 DEF ProducerTypeOK
      <4> QED
        BY <3>3, <4>1 DEF Sends
    <3>5. PICK m \in Sends : m = Head(queue[p]).id
      BY <3>4
    <3>6. batch'[p] = Append(batch[p], m) /\ batch[p] \in Seq(Sends) /\ batch' \in [Clients -> Seq(Sends)] /\ \A q \in Clients \ {p} : batch'[q] = batch[q]
      BY <1>1, <3>1, <3>5 DEF ProducerTypeOK
    <3>7. batch'[p] # <<>>
      BY <3>6
    <3>8. SendBatch(p, batch'[p]) \/ NoRequest
      BY <2>1 DEF TakeMessage
    <3> QED
      BY <3>6, <3>7, <3>8
  <2>2. CASE TakeFlush(p)
    <3>1. batch' = batch /\ ((batch[p] # <<>> /\ SendBatch(p, batch[p])) \/ NoRequest)
      BY <2>2 DEF TakeFlush
    <3> QED
      BY <1>1, <3>1 DEF ProducerTypeOK
  <2>3. CASE BatchTimer(p)
    <3>1. batch' = batch /\ batch[p] # <<>> /\ SendBatch(p, batch[p])
      BY <2>3 DEF BatchTimer
    <3> QED
      BY <1>1, <3>1 DEF ProducerTypeOK
  <2> QED
    BY <2>1, <2>2, <2>3 DEF BatchingTask
<1>6. /\ ServingInv' /\ serving' \subseteq Requests /\ awaiting' \in [Clients -> Nat] /\ requests' \in Nat
      /\ \A s \in serving' : s \in serving \/ Unread(s)
  <2>1. CASE SendBatch(p, batch'[p]) /\ batch'[p] # <<>>
    <3>1. PICK ids \in Seq(Sends) : ids = batch'[p]
      BY <1>5
    <3>2. SendBatch(p, ids) /\ ids # <<>>
      BY <1>2, <2>1, <3>1
    <3> QED
      BY <1>1, <1>5, <3>1, <3>2, SendBatchServes
  <2>2. CASE NoRequest
    <3>1. UNCHANGED <<requests, awaiting, serving>>
      BY <2>2 DEF NoRequest
    <3>2. ASSUME NEW r \in serving, Awaited(r) PROVE r.ids = batch'[r.client]
      <4>1. r.client \in Clients /\ awaiting[r.client] # 0
        BY <1>1, <3>2, NoneAwaited
      <4>2. batch'[r.client] = batch[r.client] /\ r.ids = batch[r.client]
        BY <1>1, <1>2, <1>5, <3>2, <4>1 DEF ServingInv
      <4> QED
        BY <4>2
    <3> QED
      BY <1>1, <3>1, <3>2 DEF ServingInv, Awaited, ProducerTypeOK
  <2> QED
    BY <1>5, <2>1, <2>2
<1>7. queue' \in [Clients -> Seq(Commands)]
  <2>1. queue' = queue \/ (queue[p] # <<>> /\ queue' = [queue EXCEPT ![p] = Tail(queue[p])])
    BY DEF BatchingTask, TakeMessage, TakeFlush, BatchTimer
  <2>2. queue[p] # <<>> => Tail(queue[p]) \in Seq(Commands)
    BY <1>1 DEF ProducerTypeOK
  <2> QED
    BY <1>1, <2>1, <2>2 DEF ProducerTypeOK
<1>8. flushes' \in [Clients -> SUBSET Nat] /\ flushed' \subseteq Nat
  <2>1. CASE TakeFlush(p)
    <3>1. /\ queue[p] # <<>> /\ queue' = [queue EXCEPT ![p] = Tail(queue[p])]
          /\ \/ flushes' = [flushes EXCEPT ![p] = flushes[p] \cup {Head(queue[p]).id}] /\ flushed' = flushed
             \/ flushed' = flushed \cup {Head(queue[p]).id} /\ flushes' = flushes
      BY <2>1 DEF TakeFlush
    <3>2. Head(queue[p]).id \in Nat
      BY <1>1, <3>1, Dequeued DEF Commands
    <3>3. PICK f \in Nat : f = Head(queue[p]).id
      BY <3>2
    <3>4. \/ flushes' = [flushes EXCEPT ![p] = flushes[p] \cup {f}] /\ flushed' = flushed
          \/ flushed' = flushed \cup {f} /\ flushes' = flushes
      BY <3>1, <3>3
    <3>5. flushes \in [Clients -> SUBSET Nat] /\ flushed \subseteq Nat /\ flushes[p] \cup {f} \in SUBSET Nat
      BY <1>1 DEF ProducerTypeOK
    <3> QED
      BY <3>4, <3>5
  <2>2. CASE TakeMessage(p) \/ BatchTimer(p)
    BY <1>1, <2>2 DEF TakeMessage, BatchTimer, ProducerTypeOK
  <2> QED
    BY <2>1, <2>2 DEF BatchingTask
<1>9. ProducerTypeOK'
  BY <1>1, <1>2, <1>5, <1>6, <1>7, <1>8 DEF ProducerTypeOK
<1>10. LogInv'
  BY <1>1, <1>2, <1>6, LogKept
<1> QED
  BY <1>4, <1>6, <1>9, <1>10 DEF ProducerInv

\* The answers of a batch that does not tell an offset, or tells where each message is.
LEMMA FinishKeeps ==
    ASSUME ProducerInv, NEW p \in Clients, NEW result, AnswersBatch(p, result), FinishBatch(p, result),
           \A i \in 1 .. Len(batch[p]) : AnswerPlaced(result[i], batch[p][i]),
           serving' \subseteq serving, UNCHANGED <<queue, brokerVars, callVars, requests>>
    PROVE  ProducerInv'
<1>1. ProducerTypeOK /\ FlushInv /\ ServingInv /\ LogInv
  BY DEF ProducerInv
<1>2. UNCHANGED <<queue, sent, sentBefore, senders>> /\ UNCHANGED brokerVars /\ UNCHANGED <<watermark, requests>>
  BY DEF callVars, brokerVars
<1>3. FlushInv' /\ answer' \in [Sends -> Answers]
  BY <1>1, <1>2, FinishFlush
<1>4. /\ ServingInv' /\ awaiting' \in [Clients -> Nat] /\ batch' \in [Clients -> Seq(Sends)]
      /\ flushes' \in [Clients -> SUBSET Nat] /\ flushed' \subseteq Nat
  BY <1>1, <1>2, FinishServes
<1>5. ProducerTypeOK'
  BY <1>1, <1>2, <1>3, <1>4 DEF ProducerTypeOK
<1>6. ASSUME NEW m \in Sends PROVE answer'[m] = answer[m] \/ AnswerPlaced(answer'[m], m)
  <2>1. answer'[m] = IF Contains(batch[p], m) THEN result[Place(batch[p], m)] ELSE answer[m]
    BY DEF FinishBatch, Place
  <2>2. CASE Contains(batch[p], m)
    <3>1. Place(batch[p], m) \in 1 .. Len(batch[p]) /\ batch[p][Place(batch[p], m)] = m
      BY <1>1, <2>2, PlaceIn DEF ProducerTypeOK
    <3>2. PICK i \in 1 .. Len(batch[p]) : i = Place(batch[p], m)
      BY <3>1
    <3>3. answer'[m] = result[i] /\ batch[p][i] = m
      BY <2>1, <2>2, <3>1, <3>2
    <3>4. AnswerPlaced(result[i], m)
      BY <3>3
    <3> QED
      BY <3>3, <3>4
  <2>3. CASE ~ Contains(batch[p], m)
    BY <2>1, <2>3
  <2> QED
    BY <2>2, <2>3
<1>7. LogInv'
  BY <1>1, <1>2, <1>6, LogKept
<1> QED
  BY <1>3, <1>4, <1>5, <1>7 DEF ProducerInv

\* A failed send is an answer, and an error.
LEMMA FailedTyped == SendFailed \in Answers /\ SendFailed # NotAnswered /\ SendFailed.status = "error"
<1>1. SendFailed.status = "error" /\ NotAnswered.status = "none"
  BY DEF SendFailed, NotAnswered
<1>2. SendFailed # NotAnswered
  BY <1>1
<1> QED
  BY <1>1, <1>2 DEF Answers

\* A batch whose request fails is answered with errors only.
LEMMA AllFailed ==
    ASSUME ProducerInv, NEW p \in Clients, FinishBatch(p, [i \in DOMAIN batch[p] |-> SendFailed]),
           serving' \subseteq serving, UNCHANGED <<queue, brokerVars, callVars, requests>>
    PROVE  ProducerInv'
<1> DEFINE result == [i \in DOMAIN batch[p] |-> SendFailed]
<1>1. \A i \in 1 .. Len(batch[p]) : result[i] = SendFailed
  BY DEF ProducerInv, ProducerTypeOK
<1>2. FinishBatch(p, result)
  OBVIOUS
<1>a. PICK res : res = result
  OBVIOUS
<1> HIDE DEF result
<1>3. AnswersBatch(p, res) /\ \A i \in 1 .. Len(batch[p]) : AnswerPlaced(res[i], batch[p][i])
  BY <1>1, <1>a, FailedTyped DEF AnswersBatch, AnswerPlaced
<1>4. FinishBatch(p, res)
  BY <1>2, <1>a
<1> QED
  BY <1>3, <1>4, FinishKeeps

\* The broker appends, responds or fails, and the answers stay right.
LEMMA ServeKeeps ==
    ASSUME ProducerInv, NEW r \in serving, Serve(r)
    PROVE  ProducerInv'
<1>1. ProducerTypeOK /\ FlushInv /\ ServingInv /\ LogInv
  BY DEF ProducerInv
<1>2. r \in Requests /\ r.client \in Clients /\ r.ids \in Seq(Sends) /\ r.first \in Nat /\ r.number \in Nat
  BY <1>1 DEF ProducerTypeOK, Requests
<1>3. CASE ReadWatermark(r) \/ AppendRecord(r) \/ StoreWatermark(r)
  <2>1. UNCHANGED <<queue, batch, flushes, awaiting, answer, flushed, sent, sentBefore, senders, requests>>
    BY <1>3 DEF ReadWatermark, AppendRecord, StoreWatermark, callVars
  <2>2. LogInv' /\ ServingInv' /\ serving' \subseteq Requests
    BY <1>1, <1>3, ReadKeepsLog, AppendKeepsLog, StoreKeepsLog
  <2>3. watermark' = watermark \/ watermark' \in Nat
    BY <1>1, <1>3, StoreKeepsLog DEF ReadWatermark, AppendRecord
  <2>4. FlushInv'
    BY <1>1, <2>1, FlushUnchanged DEF flushVars
  <2>5. ProducerTypeOK'
    BY <1>1, <2>1, <2>2, <2>3 DEF ProducerTypeOK
  <2> QED
    BY <2>2, <2>4, <2>5 DEF ProducerInv
\* A request that nobody waits for ends.
<1>4. CASE ~ Awaited(r) /\ (Respond(r) \/ ProduceError(r))
  <2>1. /\ UNCHANGED <<queue, batch, flushes, awaiting, answer, flushed, sent, sentBefore, senders, requests, watermark>>
        /\ UNCHANGED brokerVars /\ serving' \subseteq serving
    BY <1>4 DEF Respond, ProduceError, callVars, brokerVars
  <2>2. FlushInv'
    BY <1>1, <2>1, FlushUnchanged DEF flushVars
  <2>3. ServingInv' /\ LogInv'
    BY <1>1, <2>1, FewerServed, LogKept
  <2>4. ProducerTypeOK'
    BY <1>1, <2>1 DEF ProducerTypeOK
  <2> QED
    BY <2>2, <2>3, <2>4 DEF ProducerInv
<1>5. CASE Awaited(r) /\ ProduceError(r)
  <2>1. /\ serving' \subseteq serving /\ UNCHANGED <<queue, brokerVars, callVars, requests>>
        /\ FinishBatch(r.client, [i \in DOMAIN batch[r.client] |-> SendFailed])
    BY <1>5 DEF ProduceError
  <2> QED
    BY <1>2, <2>1, AllFailed
<1>6. CASE Awaited(r) /\ Respond(r)
  <2> DEFINE result == [i \in DOMAIN batch[r.client] |-> Sent(OffsetTold(r.first, i), r.number)]
  <2>a. PICK p \in Clients : p = r.client
    BY <1>2
  <2>1. /\ serving' \subseteq serving /\ UNCHANGED <<queue, brokerVars, callVars, requests>>
        /\ FinishBatch(p, result) /\ r.done = Len(r.ids)
    BY <1>6, <2>a DEF Respond, Finished
  <2>2. batch[p] \in Seq(Sends) /\ DOMAIN batch[p] = 1 .. Len(batch[p]) /\ Len(batch[p]) \in Nat /\ r.ids = batch[p]
    BY <1>1, <1>6, <2>a DEF ProducerTypeOK, ServingInv
  <2>3. \A i \in 1 .. Len(batch[p]) : result[i] = Sent(r.first + (i - 1), r.number)
    BY <2>2, <2>a DEF OffsetTold
  <2>b. PICK res : res = result
    OBVIOUS
  <2> HIDE DEF result
  <2>4. ASSUME NEW i \in 1 .. Len(batch[p])
        PROVE  res[i] \in Answers /\ res[i] # NotAnswered /\ AnswerPlaced(res[i], batch[p][i])
    <3>1. res[i] = [status |-> "sent", offset |-> r.first + (i - 1), by |-> r.number]
      BY <2>3, <2>b DEF Sent
    <3>2. r.first + (i - 1) \in Nat /\ r.first + (i - 1) = r.first + i - 1
      BY <1>2, <2>2
    <3>3. res[i] \in Answers
      BY <1>2, <3>1, <3>2 DEF Answers
    <3>4. res[i].status = "sent" /\ NotAnswered.status = "none" /\ res[i].offset = r.first + i - 1 /\ res[i].by = r.number
      BY <3>1, <3>2 DEF NotAnswered
    <3>5. res[i] # NotAnswered
      BY <3>4
    <3>6. r.number \notin racedRequests => Holds(r.first + i - 1, batch[p][i]) /\ Below(r.first + i - 1)
      <4>1. Placed(r) /\ Finished(r) /\ i \in 1 .. r.done
        BY <1>1, <2>1, <2>2 DEF LogInv, Finished
      <4> QED
        BY <2>2, <4>1 DEF Placed
    <3> QED
      BY <3>3, <3>4, <3>5, <3>6 DEF AnswerPlaced
  <2>5. AnswersBatch(p, res)
    BY <2>4 DEF AnswersBatch
  <2>6. FinishBatch(p, res)
    BY <2>1, <2>b
  <2> QED
    BY <2>1, <2>4, <2>5, <2>6, FinishKeeps
<1> QED
  BY <1>3, <1>4, <1>5, <1>6 DEF Serve

\* Every step of the producers and of the broker keeps the invariant.
LEMMA ProducerStep == ProducerInv /\ [ProducerNext]_producerVars => ProducerInv'
<1> SUFFICES ASSUME ProducerInv, [ProducerNext]_producerVars PROVE ProducerInv'
  OBVIOUS
<1>1. CASE UNCHANGED producerVars
  <2>1. ProducerTypeOK'
    BY <1>1 DEF ProducerInv, producerVars, ProducerTypeOK
  <2>2. FlushInv'
    BY <1>1, FlushUnchanged DEF ProducerInv, producerVars, flushVars
  <2>3. ServingInv' /\ LogInv'
    BY <1>1, FewerServed, LogKept DEF ProducerInv, producerVars, brokerVars
  <2> QED
    BY <2>1, <2>2, <2>3 DEF ProducerInv
<1>2. ASSUME NEW p \in Clients, Send(p) \/ Flush(p) PROVE ProducerInv'
  BY <1>2, CallsKeep
<1>3. ASSUME NEW p \in Clients, BatchingTask(p) PROVE ProducerInv'
  BY <1>3, BatchingKeeps
<1>4. ASSUME NEW p \in Clients, RequestTimeout(p) PROVE ProducerInv'
  <2>1. /\ serving' \subseteq serving /\ UNCHANGED <<queue, brokerVars, callVars, requests>>
        /\ FinishBatch(p, [i \in DOMAIN batch[p] |-> SendFailed])
    BY <1>4 DEF RequestTimeout
  <2> QED
    BY <2>1, AllFailed
<1>5. ASSUME NEW r \in serving, Serve(r) PROVE ProducerInv'
  BY <1>5, ServeKeeps
<1> QED
  BY <1>1, <1>2, <1>3, <1>4, <1>5 DEF ProducerNext

\* When flush returns, every message that its producer queued before has its answer, for
\* any number of producers, messages, timeouts and failing records (run_batching_loop,
\* send_batch_internal).
THEOREM FlushAnswersSends == ProducerSpec => []FlushCoversSends
<1>1. ProducerInv => FlushCoversSends
  BY DEF ProducerInv, FlushInv
<1> QED
  BY <1>1, ProducerInitOK, ProducerStep, PTL DEF ProducerSpec

\* A send that is told an offset finds its message there for ever if its request did not
\* race, whatever the others do, for any number of producers, batches, failing records and
\* timeouts (send_batch_internal, handle_produce, append_records).
THEOREM OffsetsToldAreRight == ProducerSpec => []AnsweredOffsetExact
<1>1. ProducerInv => AnsweredOffsetExact
  BY DEF ProducerInv, LogInv, AnswerPlaced, Holds, AnsweredOffsetExact
<1> QED
  BY <1>1, ProducerInitOK, ProducerStep, PTL DEF ProducerSpec

-------------------------------------------------------------------------------
(* The consumer.                                                           *)

Acks == [offset : Offsets, success : BOOLEAN]
Retries == [offset : Offsets, retries : Nat]
Trackers == [committed : Nat, acknowledged : SUBSET Offsets, failed : Seq(Retries), messages : Seq(Int)]

ConsumerTypeOK ==
    /\ committed \in Nat /\ acknowledged \subseteq Offsets /\ failedMessages \in Seq(Retries)
    /\ messages \in Seq(Int) /\ deliveries \in Seq(Int) /\ fetchFrom \in Nat
    /\ ackQueue \in Seq(Acks) /\ sought \in Nat \cup {NoOffset}

\* The application has acknowledged what the tracker takes for acknowledged, and what
\* is on its way there as a success.
AcksProcessed ==
    /\ acknowledged \subseteq processed
    /\ \A i \in 1 .. Len(ackQueue) : ackQueue[i].success => ackQueue[i].offset \in processed

ConsumerInv == ConsumerTypeOK /\ AcksProcessed /\ CommittedProcessed

\* A tracker that has only acknowledged and committed what is in done, beyond from.
Covered(t, from, done) ==
    t.acknowledged \subseteq done /\ \A o \in from + 1 .. t.committed : o \in done

\* The committed offset advances over acknowledged offsets only.
LEMMA AdvanceFields ==
    ASSUME NEW t \in Trackers
    PROVE  /\ Advance(t) \in Trackers /\ t.committed <= Advance(t).committed
           /\ \A from \in Nat : \A done : Covered(t, from, done) => Covered(Advance(t), from, done)
<1> USE ConsumerConstants
<1> DEFINE Run == {o \in t.acknowledged : \A x \in t.committed + 1 .. o : x \in t.acknowledged}
           S == Run \cup {t.committed}
           to == Max(S)
<1>1. /\ t.committed \in Nat /\ t.acknowledged \subseteq Offsets /\ t.failed \in Seq(Retries) /\ t.messages \in Seq(Int)
      /\ t = [committed |-> t.committed, acknowledged |-> t.acknowledged, failed |-> t.failed, messages |-> t.messages]
  BY DEF Trackers
<1>2. S \subseteq Nat /\ S # {} /\ \A x \in S : x <= LogEnd + t.committed
  BY <1>1 DEF Offsets
<1>3. Advance(t) = IF to > t.committed THEN [t EXCEPT !.committed = to, !.acknowledged = {o \in t.acknowledged : o > to}] ELSE t
  BY DEF Advance
<1>4. to \in S
  <2>1. LogEnd + t.committed \in Nat
    BY <1>1
  <2> HIDE DEF S
  <2> QED
    BY <1>2, <2>1, MaxOfBounded
<1>5. to \in Nat
  BY <1>2, <1>4
<1>6. to > t.committed => \A x \in t.committed + 1 .. to : x \in t.acknowledged
  BY <1>1, <1>4
<1> HIDE DEF Run, S, to
<1>7. CASE to > t.committed
  <2> DEFINE u == [t EXCEPT !.committed = to, !.acknowledged = {o \in t.acknowledged : o > to}]
  <2>1. Advance(t) = u
    BY <1>3, <1>7
  <2>2. /\ u \in Trackers /\ u.committed = to /\ u.acknowledged \subseteq t.acknowledged
    BY <1>1, <1>5 DEF Trackers
  <2> HIDE DEF u
  <2>3. ASSUME NEW from \in Nat, NEW done, Covered(t, from, done) PROVE Covered(u, from, done)
    <3>1. t.acknowledged \subseteq done /\ \A o \in from + 1 .. t.committed : o \in done
      BY <2>3 DEF Covered
    <3>2. ASSUME NEW o \in from + 1 .. to PROVE o \in done
      <4>1. o \in from + 1 .. t.committed \/ o \in t.committed + 1 .. to
        BY <1>1, <1>5
      <4> QED
        BY <1>6, <1>7, <3>1, <4>1
    <3> QED
      BY <2>2, <3>1, <3>2 DEF Covered
  <2>4. t.committed <= to
    BY <1>1, <1>5, <1>7
  <2> QED
    BY <2>1, <2>2, <2>3, <2>4
<1>8. CASE ~ (to > t.committed)
  <2>1. t.committed <= t.committed
    BY <1>1
  <2> QED
    BY <1>3, <1>8, <2>1
<1> QED
  BY <1>7, <1>8

\* The cache stays a list of offsets.
LEMMA TouchTyped ==
    ASSUME NEW list \in Seq(Int), NEW o \in Int
    PROVE  Touch(list, o) \in Seq(Int)
<1> USE ConsumerConstants
<1> DEFINE moved == Append(RemoveFirst(list, o), o)
           k == Len(moved) - CachedMessages + 1
<1>1. moved \in Seq(Int)
  BY MovedToBack
<1>2. Touch(list, o) = SubSeq(moved, Max({1, k}), Len(moved))
  BY DEF Touch
<1> HIDE DEF moved
<1>3. Len(moved) \in Nat
  BY <1>1
<1>4. k \in Int /\ k <= Len(moved)
  BY <1>3
<1> HIDE DEF k
<1>5. Max({1, k}) \in Int /\ Max({1, k}) >= 1 /\ Max({1, k}) <= Len(moved) + 1
  <2>1. \E x \in {1, k} : \A y \in {1, k} : x >= y
    BY <1>4
  <2>2. Max({1, k}) \in {1, k} /\ \A y \in {1, k} : Max({1, k}) >= y
    BY <2>1 DEF Max
  <2> QED
    BY <1>3, <1>4, <2>2
<1>6. PICK m \in Int : m = Max({1, k}) /\ m >= 1 /\ m <= Len(moved) + 1
  BY <1>5
<1>a. m \in 1 .. Len(moved) + 1 /\ Len(moved) \in m - 1 .. Len(moved)
  BY <1>3, <1>6
<1>7. SubSeq(moved, m, Len(moved)) \in Seq(Int)
  BY <1>1, <1>a, SubSeqProperties
<1> QED
  BY <1>2, <1>6, <1>7

\* What an acknowledgement does to each part of the tracker.
LEMMA ApplyAckFields ==
    ASSUME NEW t \in Trackers, NEW ack \in Acks
    PROVE  /\ ApplyAck(t, ack) \in Trackers /\ t.committed <= ApplyAck(t, ack).committed
           /\ \A from \in Nat : \A done : Covered(t, from, done) /\ (ack.success => ack.offset \in done) => Covered(ApplyAck(t, ack), from, done)
<1>1. /\ t.committed \in Nat /\ t.acknowledged \subseteq Offsets /\ t.failed \in Seq(Retries) /\ t.messages \in Seq(Int)
      /\ ack.offset \in Offsets /\ ack.offset \in Int
  BY DEF Trackers, Acks, Offsets
<1>2. CASE ack.success
  <2> DEFINE u == [t EXCEPT !.acknowledged = t.acknowledged \cup {ack.offset}]
  <2>1. u \in Trackers /\ u.committed = t.committed /\ u.acknowledged = t.acknowledged \cup {ack.offset}
    BY <1>1 DEF Trackers
  <2>2. ApplyAck(t, ack) = Advance(u)
    BY <1>2 DEF ApplyAck
  <2> HIDE DEF u
  <2>3. Advance(u) \in Trackers /\ u.committed <= Advance(u).committed /\ \A from \in Nat : \A done : Covered(u, from, done) => Covered(Advance(u), from, done)
    BY <2>1, AdvanceFields
  <2>4. \A from \in Nat : \A done : Covered(t, from, done) /\ ack.offset \in done => Covered(u, from, done)
    BY <2>1 DEF Covered
  <2>5. t.committed <= ApplyAck(t, ack).committed
    BY <2>1, <2>2, <2>3
  <2>6. ASSUME NEW from \in Nat, NEW done, Covered(t, from, done), ack.success => ack.offset \in done
        PROVE  Covered(ApplyAck(t, ack), from, done)
    <3>1. Covered(u, from, done)
      BY <1>2, <2>4, <2>6
    <3> QED
      BY <2>2, <2>3, <3>1
  <2> QED
    BY <2>2, <2>3, <2>5, <2>6
<1>3. CASE ~ ack.success
  <2> DEFINE u == [t EXCEPT !.failed = Append(t.failed, [offset |-> ack.offset, retries |-> 0]),
                            !.messages = Touch(t.messages, ack.offset)]
  <2>1. ApplyAck(t, ack) = u \/ ApplyAck(t, ack) = t
    BY <1>3 DEF ApplyAck
  <2>2. Touch(t.messages, ack.offset) \in Seq(Int)
    BY <1>1, TouchTyped
  <2>3. Append(t.failed, [offset |-> ack.offset, retries |-> 0]) \in Seq(Retries)
    <3> DEFINE x == [offset |-> ack.offset, retries |-> 0]
    <3>1. x \in Retries
      BY <1>1 DEF Retries
    <3> HIDE DEF x
    <3>2. Append(t.failed, x) \in Seq(Retries)
      BY <1>1, <3>1, AppendProperties
    <3> QED
      BY <3>2 DEF x
  <2>4. u \in Trackers /\ u.committed = t.committed /\ u.acknowledged = t.acknowledged
    BY <1>1, <2>2, <2>3 DEF Trackers
  <2> HIDE DEF u
  <2>5. \A from \in Nat : \A done : Covered(t, from, done) => Covered(u, from, done)
    BY <2>4 DEF Covered
  <2>6. t.committed <= t.committed /\ t.committed <= u.committed
    BY <1>1, <2>4
  <2> QED
    BY <2>1, <2>4, <2>5, <2>6
<1> QED
  BY <1>2, <1>3

\* The tracker after the acknowledgements of s.
AcksApplied(base, s) == FoldLeft(ApplyAck, base, s)

\* The acknowledgements are applied one after the other.
LEMMA AcksFold ==
    ASSUME NEW n \in Nat, NEW s \in [1 .. n -> Acks], NEW base \in Trackers
    PROVE  \E h : /\ h[0] = base /\ \A i \in 1 .. n : h[i] = ApplyAck(h[i - 1], s[i])
                  /\ AcksApplied(base, s) = h[n]
<1> DEFINE Eq(g) == g = [t \in SUBSET (1 .. n) |->
                           IF t = {} THEN base ELSE ApplyAck(g[t \ {Max(t)}], s[Max(t)])]
           c == CHOOSE g : Eq(g)
           F == [p \in Trackers \X Acks |-> ApplyAck(p[1], p[2])]
<1>1. AcksApplied(base, s) = c[1 .. n]
  BY DEF AcksApplied, FoldLeft, MapThenFoldSet
<1>2. /\ F \in [Trackers \X Acks -> Trackers]
      /\ \A a \in Trackers, v \in Acks : F[<<a, v>>] = ApplyAck(a, v)
  BY ApplyAckFields
<1>3. PICK g \in [SUBSET (1 .. n) -> Trackers] : Folds(g, n, s, base, F)
  <2> HIDE DEF F
  <2> QED
    BY <1>2, FoldExists
<1>4. ASSUME NEW t \in SUBSET (1 .. n)
      PROVE  g[t] = IF t = {} THEN base ELSE ApplyAck(g[t \ {Max(t)}], s[Max(t)])
  <2>1. g[t] = IF t = {} THEN base ELSE F[<<g[t \ {Max(t)}], s[Max(t)]>>]
    BY <1>3 DEF Folds
  <2>2. CASE t # {}
    <3>1. Max(t) \in 1 .. n /\ t \ {Max(t)} \in SUBSET (1 .. n)
      BY <2>2, HighestPosition
    <3>2. s[Max(t)] \in Acks /\ g[t \ {Max(t)}] \in Trackers
      BY <3>1
    <3> HIDE DEF F
    <3> QED
      BY <1>2, <2>1, <2>2, <3>2
  <2> QED
    BY <2>1, <2>2
<1>5. Eq(g)
  BY <1>4
<1>6. Eq(c)
  <2> HIDE DEF Eq
  <2> QED
    BY <1>5
<1>7. c[{}] = base /\ \A i \in 1 .. n : c[1 .. i] = ApplyAck(c[1 .. i - 1], s[i])
  <2>1. c[{}] = base
    BY <1>6
  <2>2. ASSUME NEW i \in 1 .. n PROVE c[1 .. i] = ApplyAck(c[1 .. i - 1], s[i])
    <3>1. /\ 1 .. i \in SUBSET (1 .. n) /\ 1 .. i # {}
          /\ Max(1 .. i) = i /\ (1 .. i) \ {Max(1 .. i)} = 1 .. i - 1
      BY FoldPrefixes
    <3>2. \A t \in SUBSET (1 .. n) : t # {} => c[t] = ApplyAck(c[t \ {Max(t)}], s[Max(t)])
      BY <1>6
    <3> HIDE DEF c
    <3> QED
      BY <3>1, <3>2, Zenon
  <2> QED
    BY <2>1, <2>2
<1> DEFINE h == [i \in 0 .. n |-> c[1 .. i]]
<1> HIDE DEF c
<1>8. h[0] = base /\ (\A i \in 1 .. n : h[i] = ApplyAck(h[i - 1], s[i])) /\ AcksApplied(base, s) = h[n]
  <2>1. 1 .. 0 = {}
    OBVIOUS
  <2>2. h[0] = base
    BY <1>7, <2>1
  <2>3. ASSUME NEW i \in 1 .. n PROVE h[i] = ApplyAck(h[i - 1], s[i])
    BY <1>7
  <2>4. h[n] = c[1 .. n]
    OBVIOUS
  <2> QED
    BY <1>1, <2>2, <2>3, <2>4
<1> QED
  BY <1>8

\* Keeping a failed message or not, the list is one of failed messages.
LEMMA AddIfLeftFields ==
    ASSUME NEW again \in Seq(Retries), NEW f \in Retries
    PROVE  AddIfLeft(again, f) \in Seq(Retries)
BY AppendProperties DEF AddIfLeft

\* What is tried again of s.
TriedAgain(base, s) == FoldLeft(AddIfLeft, base, s)

\* The failed messages are looked at one after the other.
LEMMA RetriesFold ==
    ASSUME NEW n \in Nat, NEW s \in [1 .. n -> Retries], NEW base \in Seq(Retries)
    PROVE  \E h : /\ h[0] = base /\ \A i \in 1 .. n : h[i] = AddIfLeft(h[i - 1], s[i])
                  /\ TriedAgain(base, s) = h[n]
<1> DEFINE Eq(g) == g = [t \in SUBSET (1 .. n) |->
                           IF t = {} THEN base ELSE AddIfLeft(g[t \ {Max(t)}], s[Max(t)])]
           c == CHOOSE g : Eq(g)
           F == [p \in Seq(Retries) \X Retries |-> AddIfLeft(p[1], p[2])]
<1>1. TriedAgain(base, s) = c[1 .. n]
  BY DEF TriedAgain, FoldLeft, MapThenFoldSet
<1>2. /\ F \in [Seq(Retries) \X Retries -> Seq(Retries)]
      /\ \A a \in Seq(Retries), v \in Retries : F[<<a, v>>] = AddIfLeft(a, v)
  BY AddIfLeftFields
<1>3. PICK g \in [SUBSET (1 .. n) -> Seq(Retries)] : Folds(g, n, s, base, F)
  <2> HIDE DEF F
  <2> QED
    BY <1>2, FoldExists
<1>4. ASSUME NEW t \in SUBSET (1 .. n)
      PROVE  g[t] = IF t = {} THEN base ELSE AddIfLeft(g[t \ {Max(t)}], s[Max(t)])
  <2>1. g[t] = IF t = {} THEN base ELSE F[<<g[t \ {Max(t)}], s[Max(t)]>>]
    BY <1>3 DEF Folds
  <2>2. CASE t # {}
    <3>1. Max(t) \in 1 .. n /\ t \ {Max(t)} \in SUBSET (1 .. n)
      BY <2>2, HighestPosition
    <3>2. s[Max(t)] \in Retries /\ g[t \ {Max(t)}] \in Seq(Retries)
      BY <3>1
    <3> HIDE DEF F
    <3> QED
      BY <1>2, <2>1, <2>2, <3>2
  <2> QED
    BY <2>1, <2>2
<1>5. Eq(g)
  BY <1>4
<1>6. Eq(c)
  <2> HIDE DEF Eq
  <2> QED
    BY <1>5
<1>7. c[{}] = base /\ \A i \in 1 .. n : c[1 .. i] = AddIfLeft(c[1 .. i - 1], s[i])
  <2>1. c[{}] = base
    BY <1>6
  <2>2. ASSUME NEW i \in 1 .. n PROVE c[1 .. i] = AddIfLeft(c[1 .. i - 1], s[i])
    <3>1. /\ 1 .. i \in SUBSET (1 .. n) /\ 1 .. i # {}
          /\ Max(1 .. i) = i /\ (1 .. i) \ {Max(1 .. i)} = 1 .. i - 1
      BY FoldPrefixes
    <3>2. \A t \in SUBSET (1 .. n) : t # {} => c[t] = AddIfLeft(c[t \ {Max(t)}], s[Max(t)])
      BY <1>6
    <3> HIDE DEF c
    <3> QED
      BY <3>1, <3>2, Zenon
  <2> QED
    BY <2>1, <2>2
<1> DEFINE h == [i \in 0 .. n |-> c[1 .. i]]
<1> HIDE DEF c
<1>8. h[0] = base /\ (\A i \in 1 .. n : h[i] = AddIfLeft(h[i - 1], s[i])) /\ TriedAgain(base, s) = h[n]
  <2>1. 1 .. 0 = {}
    OBVIOUS
  <2>2. h[0] = base
    BY <1>7, <2>1
  <2>3. ASSUME NEW i \in 1 .. n PROVE h[i] = AddIfLeft(h[i - 1], s[i])
    BY <1>7
  <2>4. h[n] = c[1 .. n]
    OBVIOUS
  <2> QED
    BY <1>1, <2>2, <2>3, <2>4
<1> QED
  BY <1>8

\* The messages to try again are failed messages.
LEMMA TriedAgainTyped ==
    ASSUME NEW n \in Nat, NEW s \in [1 .. n -> Retries]
    PROVE  TriedAgain(<<>>, s) \in Seq(Retries)
<1>1. <<>> \in Seq(Retries)
  OBVIOUS
<1>2. PICK h : /\ h[0] = <<>> /\ \A i \in 1 .. n : h[i] = AddIfLeft(h[i - 1], s[i])
               /\ TriedAgain(<<>>, s) = h[n]
  BY <1>1, RetriesFold
<1> DEFINE P == [i \in 0 .. n |-> Seq(Retries)]
<1>3. h[0] \in P[0] /\ \A i \in 1 .. n : h[i - 1] \in P[i - 1] => h[i] \in P[i]
  <2>1. h[0] \in P[0]
    BY <1>1, <1>2
  <2>2. ASSUME NEW i \in 1 .. n, h[i - 1] \in P[i - 1] PROVE h[i] \in P[i]
    <3>1. h[i - 1] \in Seq(Retries) /\ s[i] \in Retries
      BY <2>2
    <3>2. AddIfLeft(h[i - 1], s[i]) \in Seq(Retries)
      BY <3>1, AddIfLeftFields
    <3> QED
      BY <1>2, <3>2
  <2> QED
    BY <2>1, <2>2
<1>4. \A i \in 0 .. n : h[i] \in P[i]
  <2> HIDE DEF P
  <2> QED
    BY <1>3, PrefixInduction
<1> QED
  BY <1>2, <1>4

\* Every batch of acknowledgements leaves a tracker that has committed nothing else.
LEMMA AcksCovered ==
    ASSUME NEW n \in Nat, NEW s \in [1 .. n -> Acks], NEW base \in Trackers, NEW from \in Nat, NEW done,
           Covered(base, from, done), \A i \in 1 .. n : s[i].success => s[i].offset \in done
    PROVE  /\ AcksApplied(base, s) \in Trackers /\ Covered(AcksApplied(base, s), from, done)
           /\ base.committed <= AcksApplied(base, s).committed
<1>1. PICK h : /\ h[0] = base /\ \A i \in 1 .. n : h[i] = ApplyAck(h[i - 1], s[i])
               /\ AcksApplied(base, s) = h[n]
  BY AcksFold
<1> DEFINE Good == {t \in Trackers : Covered(t, from, done) /\ base.committed <= t.committed}
           P == [i \in 0 .. n |-> Good]
<1>2. h[0] \in P[0] /\ \A i \in 1 .. n : h[i - 1] \in P[i - 1] => h[i] \in P[i]
  <2>0. \A t \in Trackers : t.committed \in Nat
    BY DEF Trackers
  <2>1. h[0] \in P[0]
    <3>1. base.committed <= base.committed
      BY <2>0
    <3> QED
      BY <1>1, <3>1
  <2>2. ASSUME NEW i \in 1 .. n, h[i - 1] \in P[i - 1] PROVE h[i] \in P[i]
    <3>1. h[i - 1] \in Trackers /\ Covered(h[i - 1], from, done) /\ base.committed <= h[i - 1].committed /\ s[i] \in Acks /\ (s[i].success => s[i].offset \in done)
      BY <2>2
    <3>2. PICK t \in Trackers, a \in Acks : t = h[i - 1] /\ a = s[i]
      BY <3>1
    <3>3. ApplyAck(t, a) \in Trackers /\ Covered(ApplyAck(t, a), from, done) /\ t.committed <= ApplyAck(t, a).committed
      BY <3>1, <3>2, ApplyAckFields
    <3>4. h[i] \in Trackers /\ Covered(h[i], from, done) /\ h[i - 1].committed <= h[i].committed
      BY <1>1, <3>2, <3>3
    <3>5. base.committed <= h[i].committed
      <4>1. base.committed \in Nat /\ h[i - 1].committed \in Nat /\ h[i].committed \in Nat
        BY <2>0, <3>1, <3>4
      <4> QED
        BY <3>1, <3>4, <4>1
    <3> QED
      BY <3>4, <3>5
  <2> QED
    BY <2>1, <2>2
<1>3. \A i \in 0 .. n : h[i] \in P[i]
  <2> HIDE DEF P
  <2> QED
    BY <1>2, PrefixInduction
<1>4. h[n] \in Good
  BY <1>3
<1> QED
  BY <1>1, <1>4

\* Where the last seek went.
LEMMA SoughtFrom ==
    ASSUME NEW o \in Nat \cup {NoOffset}
    PROVE  Max({o, 0}) \in Nat /\ (o \in Nat => Max({o, 0}) = o)
<1>1. o \in Int /\ (o >= 0 \/ o = -1)
  BY DEF NoOffset
<1>2. \E x \in {o, 0} : \A y \in {o, 0} : x >= y
  BY <1>1
<1>3. Max({o, 0}) \in {o, 0} /\ \A y \in {o, 0} : Max({o, 0}) >= y
  BY <1>2 DEF Max
<1>4. Max({o, 0}) = o \/ Max({o, 0}) = 0
  BY <1>3
<1> QED
  BY <1>1, <1>3, <1>4

\* A consumer starts with nothing delivered, acknowledged or committed.
LEMMA ConsumerInitOK == ConsumerInit => ConsumerInv
<1> SUFFICES ASSUME ConsumerInit PROVE ConsumerInv
  OBVIOUS
<1>1. /\ committed = 0 /\ acknowledged = {} /\ failedMessages = <<>> /\ messages = <<>> /\ deliveries = <<>>
      /\ fetchFrom = 0 /\ ackQueue = <<>> /\ sought = NoOffset
  BY DEF ConsumerInit
<1>2. ConsumerTypeOK
  BY <1>1 DEF ConsumerTypeOK
<1>3. AcksProcessed
  BY <1>1 DEF AcksProcessed
<1>4. Max({sought, 0}) \in Nat
  BY <1>2, SoughtFrom DEF ConsumerTypeOK
<1>5. \A o \in Max({sought, 0}) + 1 .. committed : FALSE
  BY <1>1, <1>4
<1> QED
  BY <1>2, <1>3, <1>5 DEF ConsumerInv, CommittedProcessed

\* Steps that leave the tracker, the acknowledgements and the seeks alone.
LEMMA TrackerKept ==
    ASSUME ConsumerInv, UNCHANGED <<committed, acknowledged, ackQueue, processed, sought>>,
           failedMessages' \in Seq(Retries), messages' \in Seq(Int), deliveries' \in Seq(Int), fetchFrom' \in Nat
    PROVE  ConsumerInv'
BY DEF ConsumerInv, ConsumerTypeOK, AcksProcessed, CommittedProcessed

\* The records of a fetch are a sequence of offsets.
LEMMA FetchedTyped ==
    ASSUME NEW o \in Nat PROVE Fetched(o) \in Seq(Int)
<1> USE ConsumerConstants
<1> DEFINE k == LogEnd - o
           m == Max({0, k})
           n == Min({FetchSize, m})
<1>1. k \in Int
  OBVIOUS
<1> HIDE DEF k
<1>2. m \in Nat
  <2>1. \E x \in {0, k} : \A y \in {0, k} : x >= y
    BY <1>1
  <2>2. m \in {0, k} /\ \A y \in {0, k} : m >= y
    BY <2>1 DEF Max
  <2> QED
    BY <1>1, <2>2
<1> HIDE DEF m
<1>3. n \in Nat
  <2>1. {FetchSize, m} \subseteq Nat /\ {FetchSize, m} # {}
    BY <1>2
  <2> QED
    BY <2>1, MinOfNaturals
<1>4. Fetched(o) = [i \in 1 .. n |-> o + i - 1]
  BY DEF Fetched, n, m, k
<1> HIDE DEF n
<1>5. [i \in 1 .. n |-> o + i - 1] \in [1 .. n -> Int]
  OBVIOUS
<1>6. [1 .. n -> Int] \subseteq Seq(Int)
  BY <1>3
<1> QED
  BY <1>4, <1>5, <1>6

\* Trying failed messages again delivers messages of the log and acknowledges none.
LEMMA RetryKeeps ==
    ASSUME ConsumerInv, NEW due \in Nat, RetryFailed(due)
    PROVE  ConsumerInv'
<1> DEFINE first == SubSeq(failedMessages, 1, due)
           Again == TriedAgain(<<>>, first)
           more == [i \in DOMAIN Again |-> Again[i].offset]
           later == [i \in DOMAIN Again |-> [Again[i] EXCEPT !.retries = @ + 1]]
           rest == SubSeq(failedMessages, due + 1, Len(failedMessages))
<1>1. failedMessages \in Seq(Retries) /\ deliveries \in Seq(Int) /\ Len(failedMessages) \in Nat /\ due <= Len(failedMessages)
  BY DEF ConsumerInv, ConsumerTypeOK, RetryFailed
<1>2. first \in [1 .. due -> Retries]
  <2>1. Len(first) = due /\ first \in Seq(Retries)
    BY <1>1
  <2> HIDE DEF first
  <2> QED
    BY <2>1
<1>3. Again \in Seq(Retries)
  <2> HIDE DEF first
  <2> QED
    BY <1>2, TriedAgainTyped
<1>4. /\ deliveries' \in {deliveries \o more, deliveries \o <<>>} /\ failedMessages' = rest \o later
      /\ UNCHANGED <<committed, acknowledged, ackQueue, processed, sought, messages, fetchFrom>>
  BY DEF RetryFailed, TriedAgain, trackerVars, appVars
<1>5. rest \in Seq(Retries)
  BY <1>1
<1> HIDE DEF first, Again, rest
<1>6. PICK n \in Nat : DOMAIN Again = 1 .. n /\ \A i \in 1 .. n : Again[i] \in Retries
  BY <1>3
<1>7. more \in Seq(Int) /\ later \in Seq(Retries)
  <2>1. \A i \in 1 .. n : Again[i].offset \in Int /\ [Again[i] EXCEPT !.retries = @ + 1] \in Retries
    BY <1>6 DEF Retries, Offsets
  <2>2. more \in [1 .. n -> Int] /\ later \in [1 .. n -> Retries]
    BY <1>6, <2>1
  <2> HIDE DEF more, later
  <2> QED
    BY <2>2
<1> HIDE DEF more, later
<1>8. deliveries' \in Seq(Int) /\ failedMessages' \in Seq(Retries)
  <2>1. <<>> \in Seq(Int)
    OBVIOUS
  <2> QED
    BY <1>1, <1>4, <1>5, <1>7, <2>1, ConcatProperties
<1> QED
  BY <1>4, <1>8, TrackerKept DEF ConsumerInv, ConsumerTypeOK

\* Fetching delivers messages of the log and acknowledges none.
LEMMA FetchLoopKeeps ==
    ASSUME ConsumerInv, Build \/ FetchLoop
    PROVE  ConsumerInv'
<1>0. ConsumerTypeOK
  BY DEF ConsumerInv
<1>1. CASE Build \/ CheckClosed
  BY <1>0, <1>1, TrackerKept DEF Build, CheckClosed, trackerVars, appVars, ConsumerTypeOK
<1>2. CASE \E due \in 0 .. MaxDeliveries : RetryFailed(due)
  <2>1. PICK due \in 0 .. MaxDeliveries : RetryFailed(due)
    BY <1>2
  <2>2. due \in Nat
    OBVIOUS
  <2> QED
    BY <2>1, <2>2, RetryKeeps
<1>3. CASE StartFetch
  <2>1. fetchFrom' \in Nat /\ UNCHANGED <<committed, acknowledged, ackQueue, processed, sought, failedMessages, messages, deliveries>>
    BY <1>0, <1>3 DEF StartFetch, trackerVars, appVars, ConsumerTypeOK
  <2> QED
    BY <1>0, <2>1, TrackerKept DEF ConsumerTypeOK
<1>4. CASE FinishFetch
  <2>1. /\ fetchFrom' \in Nat /\ UNCHANGED <<committed, acknowledged, ackQueue, processed, sought, failedMessages, messages>>
        /\ deliveries' \in {deliveries, deliveries \o Fetched(fetchFrom)}
    BY <1>4 DEF FinishFetch, trackerVars, appVars
  <2>2. Fetched(fetchFrom) \in Seq(Int)
    BY <1>0, FetchedTyped DEF ConsumerTypeOK
  <2>3. deliveries \o Fetched(fetchFrom) \in Seq(Int)
    BY <1>0, <2>2, ConcatProperties DEF ConsumerTypeOK
  <2>4. deliveries' \in Seq(Int)
    BY <1>0, <2>1, <2>3 DEF ConsumerTypeOK
  <2> QED
    BY <1>0, <2>1, <2>4, TrackerKept DEF ConsumerTypeOK
<1> QED
  BY <1>1, <1>2, <1>3, <1>4 DEF FetchLoop

\* Receiving a message acknowledges none.
LEMMA ReceiveKeeps ==
    ASSUME ConsumerInv, StartReceive \/ FinishReceive
    PROVE  ConsumerInv'
<1>1. ConsumerTypeOK
  BY DEF ConsumerInv
<1>2. /\ UNCHANGED <<committed, acknowledged, ackQueue, processed, sought, failedMessages, fetchFrom>>
      /\ \/ UNCHANGED <<deliveries, messages>>
         \/ deliveries # <<>> /\ deliveries' = Tail(deliveries) /\ messages' = Touch(messages, Head(deliveries))
  BY DEF StartReceive, FinishReceive, trackerVars, appVars, fetchVars
<1>3. deliveries # <<>> => Tail(deliveries) \in Seq(Int) /\ Head(deliveries) \in Int
  BY <1>1, HeadTailProperties DEF ConsumerTypeOK
<1>4. deliveries # <<>> => Touch(messages, Head(deliveries)) \in Seq(Int)
  BY <1>1, <1>3, TouchTyped DEF ConsumerTypeOK
<1>5. deliveries' \in Seq(Int) /\ messages' \in Seq(Int)
  BY <1>1, <1>2, <1>3, <1>4 DEF ConsumerTypeOK
<1> QED
  BY <1>1, <1>2, <1>5, TrackerKept DEF ConsumerTypeOK

\* Only acknowledging counts a message as processed.
LEMMA AckKeeps ==
    ASSUME ConsumerInv, NEW o \in Offsets, Ack(o) \/ Nack(o)
    PROVE  ConsumerInv'
<1>1. ConsumerTypeOK /\ AcksProcessed /\ CommittedProcessed
  BY DEF ConsumerInv
<1>2. PICK a \in Acks : /\ ackQueue' = Append(ackQueue, a) /\ (a.success => a.offset \in processed')
                        /\ processed \subseteq processed'
  <2>1. CASE Ack(o)
    <3> DEFINE a == [offset |-> o, success |-> TRUE]
    <3>1. a \in Acks
      BY DEF Acks
    <3>2. ackQueue' = Append(ackQueue, a) /\ a.offset \in processed' /\ processed \subseteq processed'
      BY <2>1 DEF Ack
    <3> QED
      BY <3>1, <3>2
  <2>2. CASE Nack(o)
    <3> DEFINE a == [offset |-> o, success |-> FALSE]
    <3>1. a \in Acks
      BY DEF Acks
    <3>2. ackQueue' = Append(ackQueue, a) /\ ~ a.success /\ processed \subseteq processed'
      BY <2>2 DEF Nack
    <3> QED
      BY <3>1, <3>2
  <2> QED
    BY <2>1, <2>2
<1>3. UNCHANGED <<committed, acknowledged, sought, failedMessages, messages, deliveries, fetchFrom>>
  BY DEF Ack, Nack, trackerVars, appVars, fetchVars
<1>4. /\ ackQueue' \in Seq(Acks) /\ Len(ackQueue') = Len(ackQueue) + 1 /\ ackQueue'[Len(ackQueue) + 1] = a
      /\ \A i \in 1 .. Len(ackQueue) : ackQueue'[i] = ackQueue[i]
  BY <1>1, <1>2 DEF ConsumerTypeOK
<1>5. ConsumerTypeOK' /\ CommittedProcessed'
  BY <1>1, <1>2, <1>3, <1>4 DEF ConsumerTypeOK, CommittedProcessed
<1>6. ASSUME NEW i \in 1 .. Len(ackQueue') PROVE ackQueue'[i].success => ackQueue'[i].offset \in processed'
  <2>0. Len(ackQueue) \in Nat
    BY <1>1 DEF ConsumerTypeOK
  <2>1. i \in 1 .. Len(ackQueue) \/ i = Len(ackQueue) + 1
    BY <1>4, <2>0
  <2>2. CASE i \in 1 .. Len(ackQueue)
    BY <1>1, <1>2, <1>4, <2>2 DEF AcksProcessed
  <2>3. CASE i = Len(ackQueue) + 1
    BY <1>2, <1>4, <2>3
  <2> QED
    BY <2>1, <2>2, <2>3
<1> QED
  BY <1>1, <1>2, <1>3, <1>5, <1>6 DEF ConsumerInv, AcksProcessed

\* A seek starts the tracker, and what counts as processed, again.
LEMMA SeekKeeps ==
    ASSUME ConsumerInv, NEW o \in SeekTargets, Seek(o)
    PROVE  ConsumerInv'
<1> USE ConsumerConstants
<1>1. /\ committed' = o /\ sought' = o /\ o \in Nat
      /\ UNCHANGED <<acknowledged, ackQueue, processed, failedMessages, messages, deliveries, fetchFrom>>
  BY DEF Seek, appVars, fetchVars
<1>2. Max({o, 0}) = o
  BY <1>1, SoughtFrom
<1>3. \A x \in Max({sought', 0}) + 1 .. committed' : FALSE
  BY <1>1, <1>2
<1> QED
  BY <1>1, <1>3 DEF ConsumerInv, ConsumerTypeOK, AcksProcessed, CommittedProcessed

\* The tracker advances over acknowledged offsets only.
LEMMA ProcessKeeps ==
    ASSUME ConsumerInv, NEW n \in Nat, ProcessAcks(n)
    PROVE  ConsumerInv' /\ committed <= committed'
<1> DEFINE batched == SubSeq(ackQueue, 1, n)
           from == Max({sought, 0})
<1>1. ConsumerTypeOK /\ AcksProcessed /\ CommittedProcessed
  BY DEF ConsumerInv
<1>2. n <= Len(ackQueue) /\ ackQueue \in Seq(Acks) /\ Len(ackQueue) \in Nat /\ from \in Nat
  <2>1. n <= Len(ackQueue) /\ ackQueue \in Seq(Acks) /\ sought \in Nat \cup {NoOffset}
    BY <1>1 DEF ProcessAcks, ConsumerTypeOK
  <2>2. from \in Nat
    BY <2>1, SoughtFrom
  <2> QED
    BY <2>1, <2>2
<1>3. batched \in [1 .. n -> Acks] /\ \A i \in 1 .. n : i \in 1 .. Len(ackQueue) /\ batched[i] = ackQueue[i]
  <2>1. Len(batched) = n /\ batched \in Seq(Acks)
    BY <1>2
  <2>2. \A i \in 1 .. n : i \in 1 .. Len(ackQueue) /\ batched[i] = ackQueue[i]
    BY <1>2
  <2> HIDE DEF batched
  <2> QED
    BY <2>1, <2>2
<1>4. /\ Tracker \in Trackers /\ Covered(Tracker, from, processed)
  <2>1. /\ Tracker \in Trackers /\ Tracker.acknowledged = acknowledged /\ Tracker.committed = committed
    BY <1>1 DEF Tracker, Trackers, ConsumerTypeOK
  <2> QED
    BY <1>1, <2>1 DEF Covered, AcksProcessed, CommittedProcessed
<1>5. \A i \in 1 .. n : batched[i].success => batched[i].offset \in processed
  BY <1>1, <1>3 DEF AcksProcessed
<1>6. PICK after : after = AcksApplied(Tracker, batched)
  OBVIOUS
<1>7. /\ committed' = after.committed /\ acknowledged' = after.acknowledged
      /\ failedMessages' = after.failed /\ messages' = after.messages
      /\ ackQueue' = SubSeq(ackQueue, n + 1, Len(ackQueue))
      /\ UNCHANGED <<processed, sought, deliveries, fetchFrom>>
  BY <1>6 DEF ProcessAcks, AcksApplied, fetchVars
<1> HIDE DEF batched, from
<1>8. after \in Trackers /\ Covered(after, from, processed) /\ Tracker.committed <= after.committed
  BY <1>2, <1>3, <1>4, <1>5, <1>6, AcksCovered
<1>9. /\ ackQueue' \in Seq(Acks) /\ \A i \in 1 .. Len(ackQueue') : n + i \in 1 .. Len(ackQueue) /\ ackQueue'[i] = ackQueue[n + i]
  <2>1. n + 1 \in Int /\ Len(ackQueue) \in Int /\ \A i \in n + 1 .. Len(ackQueue) : ackQueue[i] \in Acks
    BY <1>2
  <2>2. /\ ackQueue' \in Seq(Acks) /\ Len(ackQueue') = IF n + 1 <= Len(ackQueue) THEN Len(ackQueue) - (n + 1) + 1 ELSE 0
        /\ \A i \in 1 .. Len(ackQueue) - (n + 1) + 1 : ackQueue'[i] = ackQueue[(n + 1) + i - 1]
    BY <1>7, <2>1, SubSeqProperties
  <2>3. ASSUME NEW i \in 1 .. Len(ackQueue') PROVE n + i \in 1 .. Len(ackQueue) /\ ackQueue'[i] = ackQueue[n + i]
    <3>1. i \in 1 .. Len(ackQueue) - (n + 1) + 1 /\ (n + 1) + i - 1 = n + i /\ n + i \in 1 .. Len(ackQueue)
      BY <1>2, <2>2
    <3> QED
      BY <2>2, <3>1
  <2> QED
    BY <2>2, <2>3
<1>10. ConsumerTypeOK'
  BY <1>1, <1>7, <1>8, <1>9 DEF ConsumerTypeOK, Trackers
<1>11. AcksProcessed'
  BY <1>1, <1>7, <1>8, <1>9 DEF AcksProcessed, Covered
<1>12. CommittedProcessed'
  BY <1>7, <1>8 DEF CommittedProcessed, Covered, from
<1>13. committed <= committed'
  BY <1>7, <1>8 DEF Tracker
<1> QED
  BY <1>10, <1>11, <1>12, <1>13 DEF ConsumerInv

\* Every step of the consumer keeps the invariant.
LEMMA ConsumerStepKeeps == ConsumerInv /\ [ConsumerNext]_consumerVars => ConsumerInv'
<1> SUFFICES ASSUME ConsumerInv, [ConsumerNext]_consumerVars PROVE ConsumerInv'
  OBVIOUS
<1>0. ConsumerTypeOK
  BY DEF ConsumerInv
<1>1. CASE UNCHANGED consumerVars
  BY <1>0, <1>1, TrackerKept DEF consumerVars, ConsumerTypeOK
<1>2. CASE Build \/ FetchLoop
  BY <1>2, FetchLoopKeeps
<1>3. CASE StartReceive \/ FinishReceive
  BY <1>3, ReceiveKeeps
<1>4. ASSUME NEW o \in Offsets, Ack(o) \/ Nack(o) PROVE ConsumerInv'
  BY <1>4, AckKeeps
<1>5. ASSUME NEW o \in SeekTargets, Seek(o) PROVE ConsumerInv'
  BY <1>5, SeekKeeps
<1>6. CASE ProcessBatch
  <2>1. PICK n \in 1 .. MaxAckQueue : ProcessAcks(n)
    BY <1>6 DEF ProcessBatch
  <2>2. n \in Nat
    OBVIOUS
  <2> QED
    BY <2>1, <2>2, ProcessKeeps
\* The rest commits, closes, pauses.
<1>7. ASSUME \/ \E c \in Committers : Commit(c)
             \/ EndCommits
             \/ \E o \in lateCommits : LateCommit(o)
             \/ Close \/ CloseReceiver \/ Pause \/ Resume
      PROVE  ConsumerInv'
  <2>1. /\ UNCHANGED <<committed, acknowledged, ackQueue, processed, sought, failedMessages, messages, fetchFrom>>
        /\ deliveries' = deliveries \/ deliveries' = <<>>
    BY <1>7 DEF Commit, EndCommits, EndCommit, LateCommit, Close, CloseReceiver, Pause, Resume, trackerVars, appVars, fetchVars
  <2>2. deliveries' \in Seq(Int)
    <3>1. deliveries \in Seq(Int) /\ <<>> \in Seq(Int)
      BY <1>0 DEF ConsumerTypeOK
    <3> QED
      BY <2>1, <3>1
  <2> QED
    BY <1>0, <2>1, <2>2, TrackerKept DEF ConsumerTypeOK
<1> QED
  BY <1>1, <1>2, <1>3, <1>4, <1>5, <1>6, <1>7 DEF ConsumerNext, ConsumerStep

\* For any log, batches and retries: nothing is committed that the application has not
\* acknowledged since the last seek (process_batched_acks, update_consecutive_committed).
THEOREM CommitsAreProcessed == ConsumerSpec => []CommittedProcessed
<1>1. ConsumerInv => CommittedProcessed
  BY DEF ConsumerInv
<1> QED
  BY <1>1, ConsumerInitOK, ConsumerStepKeeps, PTL DEF ConsumerSpec

\* As long as no seek has moved the tracker and no commit has timed out, every commit
\* under way carries the tracker's offset, and the broker's is not beyond it.
CommitsCurrent ==
    upsets \cap {"seek", "commit"} = {} =>
        /\ lateCommits = {} /\ groupOffset \in Nat /\ groupOffset <= committed
        /\ \A c \in AllCommitters : committing[c] # NoOffset => committing[c] = committed

GroupInv == ConsumerInv /\ committing \in [AllCommitters -> Int] /\ CommitsCurrent

\* A step under the invariant does not take the broker's offset back.
LEMMA GroupStep ==
    ASSUME GroupInv, ConsumerNext
    PROVE  GroupInv' /\ (upsets \cap {"seek", "commit"} = {} => groupOffset' >= groupOffset)
<1>1. ConsumerInv /\ ConsumerInv' /\ committed \in Nat /\ committed' \in Nat
  BY ConsumerStepKeeps DEF GroupInv, ConsumerInv, ConsumerTypeOK
<1>2. upsets \subseteq upsets'
  BY DEF ConsumerNext, ConsumerStep, Build, FetchLoop, CheckClosed, RetryFailed, StartFetch, FinishFetch, StartReceive,
         FinishReceive, Ack, Nack, Seek, ProcessBatch, ProcessAcks, Commit, EndCommits, EndCommit, LateCommit, Close,
         CloseReceiver, Pause, Resume, Upset
<1> DEFINE Calm == upsets \cap {"seek", "commit"} = {}
<1>a. GroupInv => committing \in [AllCommitters -> Int] /\ (Calm =>
          /\ lateCommits = {} /\ groupOffset \in Nat /\ groupOffset <= committed
          /\ \A c \in AllCommitters : committing[c] # NoOffset => committing[c] = committed)
  BY DEF GroupInv, CommitsCurrent
\* Steps that leave the commits and the tracker's offset alone.
<1>3. ASSUME UNCHANGED <<committing, groupOffset, lateCommits, committed>> PROVE GroupInv' /\ (Calm => groupOffset' >= groupOffset)
  <2>1. Calm => groupOffset' >= groupOffset
    BY <1>3, <1>a
  <2>2. CommitsCurrent'
    BY <1>2, <1>3 DEF GroupInv, CommitsCurrent
  <2> QED
    BY <1>1, <1>3, <2>1, <2>2 DEF GroupInv
<1>4. CASE Build \/ FetchLoop \/ StartReceive \/ FinishReceive \/ CloseReceiver \/ Pause \/ Resume
  <2>1. UNCHANGED <<committing, groupOffset, lateCommits, committed>>
    BY <1>4 DEF Build, FetchLoop, CheckClosed, RetryFailed, StartFetch, FinishFetch, StartReceive, FinishReceive, CloseReceiver,
                Pause, Resume, commitVars, trackerVars
  <2> QED
    BY <1>3, <2>1
<1>5. ASSUME NEW o \in Offsets, Ack(o) \/ Nack(o) PROVE GroupInv' /\ (Calm => groupOffset' >= groupOffset)
  <2>1. UNCHANGED <<committing, groupOffset, lateCommits, committed>>
    BY <1>5 DEF Ack, Nack, commitVars, trackerVars
  <2> QED
    BY <1>3, <2>1
<1>6. ASSUME NEW o \in SeekTargets, Seek(o) PROVE GroupInv' /\ (Calm => groupOffset' >= groupOffset)
  <2>1. UNCHANGED <<committing, groupOffset, lateCommits>> /\ "seek" \in upsets'
    BY <1>6 DEF Seek, Upset, commitVars
  <2>2. CommitsCurrent'
    BY <2>1 DEF CommitsCurrent
  <2>3. Calm => groupOffset' >= groupOffset
    BY <1>a, <2>1
  <2> QED
    BY <1>1, <2>1, <2>2, <2>3 DEF GroupInv
<1>7. CASE ProcessBatch
  <2>1. PICK n \in 1 .. MaxAckQueue : ProcessAcks(n)
    BY <1>7 DEF ProcessBatch
  <2>2. n \in Nat
    OBVIOUS
  <2>3. committed <= committed'
    BY <1>1, <2>1, <2>2, ProcessKeeps
  <2>4. UNCHANGED <<committing, groupOffset, lateCommits, upsets>> /\ \A c \in AllCommitters : committing[c] = NoOffset
    BY <2>1 DEF ProcessAcks, TrackerFree, commitVars
  <2>5. Calm => groupOffset' >= groupOffset /\ groupOffset <= committed'
    BY <1>1, <1>a, <2>3, <2>4
  <2>6. CommitsCurrent'
    BY <1>a, <2>4, <2>5 DEF CommitsCurrent
  <2> QED
    BY <1>1, <2>4, <2>5, <2>6 DEF GroupInv
<1>8. ASSUME (\E c \in Committers : Commit(c)) \/ Close PROVE GroupInv' /\ (Calm => groupOffset' >= groupOffset)
  <2>1. /\ UNCHANGED <<groupOffset, lateCommits, upsets, committed>>
        /\ committing' = committing \/ \E c \in AllCommitters : committing' = [committing EXCEPT ![c] = committed]
    BY <1>8 DEF Commit, Close, AllCommitters, trackerVars
  <2>2. \A c \in AllCommitters : committing'[c] = committing[c] \/ committing'[c] = committed
    BY <1>a, <2>1
  <2>3. committing' \in [AllCommitters -> Int]
    BY <1>1, <1>a, <2>1
  <2>4. CommitsCurrent'
    BY <1>a, <2>1, <2>2 DEF CommitsCurrent
  <2>5. Calm => groupOffset' >= groupOffset
    BY <1>a, <2>1
  <2> QED
    BY <1>1, <2>3, <2>4, <2>5 DEF GroupInv
<1>9. ASSUME NEW c \in AllCommitters, EndCommit(c) PROVE GroupInv' /\ (Calm => groupOffset' >= groupOffset)
  <2>1. committing[c] # NoOffset /\ committing' = [committing EXCEPT ![c] = NoOffset] /\ committed' = committed
    BY <1>9 DEF EndCommit, trackerVars
  <2>2. committing' \in [AllCommitters -> Int] /\ \A d \in AllCommitters : committing'[d] # NoOffset => committing'[d] = committing[d]
    BY <1>a, <2>1 DEF NoOffset
  <2>3. CASE groupOffset' = committing[c] /\ UNCHANGED <<lateCommits, upsets>>
    <3>1. Calm => groupOffset' = committed /\ groupOffset <= committed /\ groupOffset \in Nat
      BY <1>a, <2>1, <2>3
    <3>2. Calm => groupOffset' >= groupOffset /\ groupOffset' \in Nat /\ groupOffset' <= committed'
      BY <1>1, <2>1, <3>1
    <3>3. CommitsCurrent'
      BY <1>a, <2>1, <2>2, <2>3, <3>2 DEF CommitsCurrent
    <3> QED
      BY <1>1, <2>2, <3>2, <3>3 DEF GroupInv
  <2>4. CASE groupOffset' = groupOffset /\ "commit" \in upsets'
    <3>1. CommitsCurrent'
      BY <2>4 DEF CommitsCurrent
    <3>2. Calm => groupOffset' >= groupOffset
      BY <1>a, <2>4
    <3> QED
      BY <1>1, <2>2, <3>1, <3>2 DEF GroupInv
  <2> QED
    BY <1>9, <2>3, <2>4 DEF EndCommit, Upset
<1>10. ASSUME NEW o \in lateCommits, LateCommit(o) PROVE GroupInv' /\ (Calm => groupOffset' >= groupOffset)
  <2>1. ~Calm
    BY <1>a
  <2>2. UNCHANGED committing
    BY <1>10 DEF LateCommit
  <2>3. CommitsCurrent'
    BY <1>2, <2>1 DEF CommitsCurrent
  <2> QED
    BY <1>1, <1>a, <2>1, <2>2, <2>3 DEF GroupInv
<1> QED
  BY <1>4, <1>5, <1>6, <1>7, <1>8, <1>9, <1>10 DEF ConsumerNext, ConsumerStep, EndCommits

\* The group's offset at the broker goes back only after a seek or a commit that timed out:
\* commits hold the tracker's lock across their request (commit, run_auto_commit_loop, close).
THEOREM CommitsMonotonic == ConsumerSpec => GroupOffsetKept
<1>1. ConsumerInit => GroupInv
  <2> SUFFICES ASSUME ConsumerInit PROVE GroupInv
    OBVIOUS
  <2>1. committing \in [AllCommitters -> Int] /\ groupOffset \in Nat /\ groupOffset <= committed /\ lateCommits = {}
    BY DEF ConsumerInit, NoOffset
  <2>2. \A c \in AllCommitters : committing[c] = NoOffset
    BY DEF ConsumerInit
  <2> QED
    BY <2>1, <2>2, ConsumerInitOK DEF GroupInv, CommitsCurrent
<1>2. GroupInv /\ [ConsumerNext]_consumerVars => GroupInv'
  <2>1. GroupInv /\ UNCHANGED consumerVars => GroupInv'
    BY ConsumerStepKeeps DEF GroupInv, CommitsCurrent, consumerVars
  <2> QED
    BY <2>1, GroupStep
<1>3. GroupInv /\ [ConsumerNext]_consumerVars => [upsets \cap {"seek", "commit"} = {} => groupOffset' >= groupOffset]_consumerVars
  BY GroupStep
<1> QED
  BY <1>1, <1>2, <1>3, PTL DEF ConsumerSpec, GroupOffsetKept

===============================================================================
