---------------------------- MODULE PartitionIndex ----------------------------
(***************************************************************************)
(* The in-memory per-partition offset index of a broker                    *)
(* (src/src/storage/partition_index.rs).  An index is                      *)
(*                                                                         *)
(*   [parts     |-> [tp -> [hot, cold, next_offset]],                      *)
(*    hot_bytes |-> the byte counter kept next to the maps]                *)
(*                                                                         *)
(* where hot maps an offset to the record held in memory and cold maps the *)
(* start of an uploaded range to [end, key, size].  Every operation below  *)
(* runs under the index's write (or read) lock, so each is one atomic      *)
(* function from an index to an index.  The module declares no variables:  *)
(* PartitionStore holds the index and decides when the operations run.     *)
(***************************************************************************)
EXTENDS Naturals, FiniteSetsExt, Functions

EmptyEntries == [hot |-> <<>>, cold |-> <<>>, next_offset |-> 0]

EmptyIndex(partitions) ==
    [parts |-> [tp \in partitions |-> EmptyEntries], hot_bytes |-> 0]

\* Bytes of the hot records at the offsets O.
HotSize(hot, O) == MapThenSumSet(LAMBDA o : hot[o].size, O)

Without(f, S) == Restrict(f, DOMAIN f \ S)

\* The map f with the value v at the key k (an insert of the standard library's maps).
Put(f, k, v) == [x \in DOMAIN f \cup {k} |-> IF x = k THEN v ELSE f[x]]

insert_hot(index, tp, offset, rec) ==
    LET e == index.parts[tp]
        old == HotSize(e.hot, {offset} \cap DOMAIN e.hot)
    IN  [parts     |-> [index.parts EXCEPT ![tp] =
                            [hot  |-> Put(e.hot, offset, rec),
                             cold |-> e.cold,
                             next_offset |-> Max({e.next_offset, offset + 1})]],
         hot_bytes |-> (index.hot_bytes - old) + rec.size]
\* Mutant: the rollback forgets the byte counter.
remove_hot_KeepsBytes(index, tp, offset) ==
    [index EXCEPT !.parts[tp].hot = Without(@, {offset})]

\* The rollback of a failed append: next_offset is not rewound.
remove_hot(index, tp, offset) ==
    LET e == index.parts[tp]
        old == HotSize(e.hot, {offset} \cap DOMAIN e.hot)
    IN  [parts     |-> [index.parts EXCEPT ![tp] =
                            [hot  |-> Without(e.hot, {offset}),
                             cold |-> e.cold,
                             next_offset |-> e.next_offset]],
         hot_bytes |-> index.hot_bytes - old]

ObjectRange(end, key, size) == [end |-> end, key |-> key, size |-> size]

\* BTreeMap::range(start..end) over the keys of a map.
KeysIn(f, start, end) == {o \in DOMAIN f : start <= o /\ o < end}
\* Mutants: the last hot copy survives; the bytes are not released; ranges below the
\* flipped one are dropped.
flip_to_cold_LeavesLast(index, tp, start, end, key, size) ==
    LET e == index.parts[tp]
        evicted == KeysIn(e.hot, start, end - 1)
    IN  [parts     |-> [index.parts EXCEPT ![tp] =
                            [hot  |-> Without(e.hot, evicted),
                             cold |-> Put(e.cold, start, ObjectRange(end, key, size)),
                             next_offset |-> Max({e.next_offset, end})]],
         hot_bytes |-> index.hot_bytes - HotSize(e.hot, evicted)]

flip_to_cold_KeepsBytes(index, tp, start, end, key, size) ==
    [index EXCEPT !.parts[tp] =
        [@ EXCEPT !.hot = Without(@, KeysIn(@, start, end)),
                  !.cold = Put(@, start, ObjectRange(end, key, size))]]

flip_to_cold_DropsOlder(index, tp, start, end, key, size) ==
    LET e == index.parts[tp]
        evicted == KeysIn(e.hot, start, end)
    IN  [parts     |-> [index.parts EXCEPT ![tp] =
                            [hot  |-> Without(e.hot, evicted),
                             cold |-> Put(Without(e.cold, KeysIn(e.cold, 0, start)), start, ObjectRange(end, key, size)),
                             next_offset |-> Max({e.next_offset, end})]],
         hot_bytes |-> index.hot_bytes - HotSize(e.hot, evicted)]

\* Evict the hot copies of [start, end) and map the range to its object.
flip_to_cold(index, tp, start, end, key, size) ==
    LET e == index.parts[tp]
        evicted == KeysIn(e.hot, start, end)
    IN  [parts     |-> [index.parts EXCEPT ![tp] =
                            [hot  |-> Without(e.hot, evicted),
                             cold |-> Put(e.cold, start, ObjectRange(end, key, size)),
                             next_offset |-> Max({e.next_offset, end})]],
         hot_bytes |-> index.hot_bytes - HotSize(e.hot, evicted)]
\* Mutant: next_offset is not raised to the end of the range.
insert_cold_KeepsNextOffset(index, tp, start, end, key, size) ==
    [index EXCEPT !.parts[tp].cold = Put(@, start, ObjectRange(end, key, size))]

\* A cold range learned from the manifest during recovery.
insert_cold(index, tp, start, end, key, size) ==
    LET e == index.parts[tp]
    IN  [index EXCEPT !.parts[tp] =
            [hot  |-> e.hot,
             cold |-> Put(e.cold, start, ObjectRange(end, key, size)),
             next_offset |-> Max({e.next_offset, end})]]
\* Mutants: the swap is forgotten; the merged-away ranges stay.
replace_cold_Nothing(index, tp, start, end, key, size) == index

replace_cold_KeepsSources(index, tp, start, end, key, size) ==
    [index EXCEPT !.parts[tp].cold = Put(@, start, ObjectRange(end, key, size))]

\* Compaction: the ranges that start within [start, end) become one range.
replace_cold(index, tp, start, end, key, size) ==
    LET e == index.parts[tp]
    IN  [index EXCEPT !.parts[tp] =
            [hot  |-> e.hot,
             cold |-> Put(Without(e.cold, KeysIn(e.cold, start, end)), start,
                          ObjectRange(end, key, size)),
             next_offset |-> Max({e.next_offset, end})]]

(***************************************************************************)
(* read_plan: the contiguous hot run from offset, else the cold range      *)
(* found by floor lookup if it covers the offset, else nothing.  The       *)
(* max_bytes cut only shortens the hot run, so the run is left whole.      *)
(***************************************************************************)
read_plan(index, tp, offset) ==
    LET e == index.parts[tp]
        run == {o \in DOMAIN e.hot : o >= offset /\ (offset .. o) \subseteq DOMAIN e.hot}
        floor == {s \in DOMAIN e.cold : s <= offset}
    IN  CASE offset >= e.next_offset -> [plan |-> "Empty"]
          [] offset < e.next_offset /\ offset \in DOMAIN e.hot ->
                [plan |-> "Hot", records |-> {e.hot[o] : o \in run}]
          [] /\ offset < e.next_offset /\ offset \notin DOMAIN e.hot
             /\ floor # {} /\ offset < e.cold[Max(floor)].end ->
                [plan |-> "Cold", key |-> e.cold[Max(floor)].key]
          [] OTHER -> [plan |-> "Empty"]

===============================================================================
