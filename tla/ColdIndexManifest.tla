--------------------------- MODULE ColdIndexManifest ---------------------------
(***************************************************************************)
(* The broker-local durable manifest of tiered ranges                      *)
(* (src/src/storage/cold_index.rs).  The file is an append-only log that   *)
(* load() folds into the live ranges and the orphaned source objects; the  *)
(* model keeps the fold of the frames load() would accept:                 *)
(*                                                                         *)
(*   live    : [tp -> [start -> [end, key, size]]]                         *)
(*   orphans : keys of the sources of every Compact frame                  *)
(*   torn    : a partly written frame sits at the end of the accepted      *)
(*             prefix, so load() stops there whatever is appended after it *)
(***************************************************************************)
EXTENDS PartitionIndex

EmptyManifest(partitions) ==
    [live |-> [tp \in partitions |-> <<>>], orphans |-> {}, torn |-> FALSE]

\* The Register arm of fold().
FoldRegister(m, tp, start, end, key, size) ==
    [m EXCEPT !.live[tp] = Put(@, start, ObjectRange(end, key, size))]
\* Mutant: the merged-away ranges stay live.
FoldCompact_KeepsSources(m, tp, start, end, key, size, sources) ==
    [m EXCEPT !.live[tp] = Put(@, start, ObjectRange(end, key, size)),
              !.orphans = @ \cup sources]
\* Mutant: the merged-away ranges are dropped and the merged one is not entered.
FoldCompact_DropsMerged(m, tp, start, end, key, size, sources) ==
    [m EXCEPT !.live[tp] = Without(@, KeysIn(@, start, end)),
              !.orphans = @ \cup sources]

\* The Compact arm of fold(): replace what the merge subsumed, orphan its sources.
FoldCompact(m, tp, start, end, key, size, sources) ==
    [m EXCEPT !.live[tp] = Put(Without(@, KeysIn(@, start, end)), start, ObjectRange(end, key, size)),
              !.orphans = @ \cup sources]

\* append_record returning Ok: the frame is fsynced, but load() only reaches it
\* when no torn frame precedes it.
register(m, tp, start, end, key, size) ==
    IF m.torn THEN m ELSE FoldRegister(m, tp, start, end, key, size)

record_compaction(m, tp, start, end, key, size, sources) ==
    IF m.torn THEN m ELSE FoldCompact(m, tp, start, end, key, size, sources)

\* append_record returning Err after write_all stopped inside the frame.
TearFrame(m) == [m EXCEPT !.torn = TRUE]

\* load(): the torn tail is truncated off, so later appends are reachable again.
load(m) == [m EXCEPT !.torn = FALSE]

===============================================================================
