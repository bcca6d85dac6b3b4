---------------------------- MODULE LruCacheShard ----------------------------
(***************************************************************************)
(* One shard of the LRU read cache (src/src/storage/cache.rs), used when   *)
(* the moka cache is not built in.  A shard has three locks, taken one     *)
(* after the other in an order that differs from operation to operation;   *)
(* put evicts in one locked section and inserts in a second one.  Keys     *)
(* meet a shard by their hash and never another one.                       *)
(***************************************************************************)
EXTENDS Naturals, SequencesExt, FiniteSetsExt

CONSTANTS
    Threads,        \* callers of the cache
    CacheKeys,
    EntrySizes,     \* value lengths
    ShardBytes,     \* max_size_bytes of the shard
    MaxCacheOps     \* bound on operations

ASSUME CacheConstants == EntrySizes \subseteq Nat /\ ShardBytes \in Nat /\ MaxCacheOps \in Nat

VARIABLES
    entries,    \* [key -> length of its value]
    lruOrder,   \* the eviction queue
    shardSize,  \* current_size
    heldBy,     \* [lock -> thread, or Nobody]
    doing,      \* [thread -> its operation: section, key, size, locks still to take]
    cacheOps,   \* history: operations so far
    overlap     \* history: another put has run its eviction between the two sections of a put

cacheVars == <<entries, lruOrder, shardSize, heldBy, doing, cacheOps, overlap>>

Nobody == "nobody"
NoOp == [section |-> "none", key |-> Nobody, size |-> 0, locks |-> <<>>]

\* Mutant: clear takes the queue first.
LocksOf_QueueFirst == [get    |-> <<"entries", "order">>,
                       evict  |-> <<"size", "entries", "order">>,
                       insert |-> <<"entries", "order", "size">>,
                       remove |-> <<"entries", "size">>,
                       clear  |-> <<"order", "entries", "size">>]

\* The order in which each section takes its locks.
LocksOf == [get    |-> <<"entries", "order">>,
            evict  |-> <<"size", "entries", "order">>,
            insert |-> <<"entries", "order", "size">>,
            remove |-> <<"entries", "size">>,
            clear  |-> <<"entries", "size", "order">>]

Section(s, k, n) == [section |-> s, key |-> k, size |-> n, locks |-> LocksOf[s]]

CacheInit ==
    /\ entries = <<>> /\ lruOrder = <<>> /\ shardSize = 0
    /\ heldBy = [l \in {"entries", "order", "size"} |-> Nobody]
    /\ doing = [t \in Threads |-> NoOp] /\ cacheOps = 0 /\ overlap = FALSE

\* get, remove, clear, and put, which starts with evict_if_needed.
StartOp(t, s, k, n) ==
    /\ doing[t] = NoOp /\ cacheOps < MaxCacheOps
    /\ cacheOps' = cacheOps + 1
    /\ doing' = [doing EXCEPT ![t] = Section(s, k, n)]
    /\ UNCHANGED <<entries, lruOrder, shardSize, heldBy, overlap>>

TakeLock(t) ==
    /\ doing[t].locks # <<>> /\ heldBy[Head(doing[t].locks)] = Nobody
    /\ heldBy' = [heldBy EXCEPT ![Head(doing[t].locks)] = t]
    /\ doing' = [doing EXCEPT ![t].locks = Tail(@)]
    /\ UNCHANGED <<entries, lruOrder, shardSize, cacheOps, overlap>>

\* t has the locks of section s; it runs and lets go of them.
Runs(t, s, next) ==
    /\ doing[t].section = s /\ doing[t].locks = <<>>
    /\ heldBy' = [l \in DOMAIN heldBy |-> IF heldBy[l] = t THEN Nobody ELSE heldBy[l]]
    /\ doing' = [doing EXCEPT ![t] = next]
    /\ UNCHANGED cacheOps

WithoutKeys(keys) == [k \in DOMAIN entries \ keys |-> entries[k]]
Bytes(es) == MapThenSumSet(LAMBDA k : es[k], DOMAIN es)

\* A key that is there moves to the back of the queue.
RunGet(t) ==
    LET k == doing[t].key
    IN  /\ Runs(t, "get", NoOp)
        /\ lruOrder' = IF k \in DOMAIN entries
                    THEN Append(RemoveFirst(lruOrder, k), k)
                    ELSE lruOrder
        /\ UNCHANGED <<entries, shardSize, overlap>>

\* Keys are popped from the queue until the new value fits or the queue is empty; a key
\* that has no entry any more is popped all the same.
RunEvict(t) ==
    LET After(n) == WithoutKeys(ToSet(SubSeq(lruOrder, 1, n)))
        Fits(n) == shardSize - (Bytes(entries) - Bytes(After(n))) + doing[t].size <= ShardBytes
        popped == CHOOSE n \in 0 .. Len(lruOrder) :
                     /\ Fits(n) \/ n = Len(lruOrder)
                     /\ \A m \in 0 .. n - 1 : ~Fits(m)
    IN  /\ Runs(t, "evict", Section("insert", doing[t].key, doing[t].size))
        /\ entries' = After(popped)
        /\ lruOrder' = SubSeq(lruOrder, popped + 1, Len(lruOrder))
        /\ shardSize' = shardSize - (Bytes(entries) - Bytes(entries'))
        /\ overlap' = (overlap \/ \E u \in Threads \ {t} : doing[u].section = "insert")

\* Mutant: the length of the value that is replaced is not subtracted.
RunInsert_KeepsOld(t) ==
    LET k == doing[t].key
    IN  /\ Runs(t, "insert", NoOp)
        /\ lruOrder' = IF k \in DOMAIN entries THEN lruOrder ELSE Append(lruOrder, k)
        /\ shardSize' = shardSize + doing[t].size
        /\ entries' = [x \in DOMAIN entries \cup {k} |-> IF x = k THEN doing[t].size ELSE entries[x]]
        /\ UNCHANGED overlap

\* The second section of put; a key that is there keeps its place in the queue.
RunInsert(t) ==
    LET k == doing[t].key
        old == IF k \in DOMAIN entries THEN entries[k] ELSE 0
    IN  /\ Runs(t, "insert", NoOp)
        /\ lruOrder' = IF k \in DOMAIN entries THEN lruOrder ELSE Append(lruOrder, k)
        /\ shardSize' = shardSize - old + doing[t].size
        /\ entries' = [x \in DOMAIN entries \cup {k} |-> IF x = k THEN doing[t].size ELSE entries[x]]
        /\ UNCHANGED overlap

\* The key stays in the queue.
RunRemove(t) ==
    LET k == doing[t].key
    IN  /\ Runs(t, "remove", NoOp)
        /\ entries' = WithoutKeys({k})
        /\ shardSize' = shardSize - (IF k \in DOMAIN entries THEN entries[k] ELSE 0)
        /\ UNCHANGED <<lruOrder, overlap>>

RunClear(t) ==
    /\ Runs(t, "clear", NoOp)
    /\ entries' = <<>> /\ lruOrder' = <<>> /\ shardSize' = 0
    /\ UNCHANGED overlap

RunOp(t) == RunGet(t) \/ RunEvict(t) \/ RunInsert(t) \/ RunRemove(t) \/ RunClear(t)

CacheNext ==
    \E t \in Threads :
        \/ \E k \in CacheKeys : StartOp(t, "get", k, 0) \/ StartOp(t, "remove", k, 0)
        \/ \E k \in CacheKeys, n \in EntrySizes : StartOp(t, "evict", k, n)
        \/ StartOp(t, "clear", Nobody, 0)
        \/ TakeLock(t) \/ RunOp(t)

\* A thread that can have its next lock gets it, and sections end.
CacheFairness == \A t \in Threads : SF_cacheVars(TakeLock(t)) /\ WF_cacheVars(RunOp(t))

CacheSpec == CacheInit /\ [][CacheNext]_cacheVars /\ CacheFairness

-------------------------------------------------------------------------------
\* The byte count is that of the entries, every entry can be evicted, though remove leaves
\* its key in the queue, a key may be queued twice, and another thread may act between the
\* eviction and the insertion of a put; and the shard stays within its size, unless two
\* puts have overlapped: each makes room for itself only (evict_if_needed and the insertion
\* are two sections).
CacheAccounting ==
    /\ shardSize = Bytes(entries)
    /\ DOMAIN entries \subseteq ToSet(lruOrder)
    /\ ~overlap => shardSize <= ShardBytes

\* An eviction has the size and waits for the entries of a section that waits for the size.
Entangled ==
    \E t, u \in Threads :
        /\ heldBy["size"] = t /\ doing[t].section = "evict" /\ doing[t].locks # <<>> /\ Head(doing[t].locks) = "entries"
        /\ heldBy["entries"] = u /\ doing[u].locks # <<>> /\ Head(doing[u].locks) = "size"

\* Every operation ends, unless an eviction meets the insertion of another put, a remove
\* or a clear half-way: evict_if_needed takes current_size before entries, the others
\* after, and both threads then wait for ever.  No other order of locks does that.
CacheOpsEnd == \A t \in Threads : doing[t] # NoOp ~> doing[t] = NoOp \/ Entangled

===============================================================================
