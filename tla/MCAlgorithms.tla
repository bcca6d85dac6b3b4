----------------------------- MODULE MCAlgorithms -----------------------------
(***************************************************************************)
(* The pure algorithms on every bounded input: the compaction planner on   *)
(* every cold index of up to MaxSegments ranges, find_kth_smallest on      *)
(* every sequence of up to MaxReplicas offsets.  An input grows by one     *)
(* element at a time, so the states are the inputs.                        *)
(***************************************************************************)
EXTENDS Compactor, KthSmallest

CONSTANTS
    SegmentSizes,   \* object sizes in bytes
    Gaps,           \* how far a range starts past the end of the one before it
    MaxSegments,    \* bound: ranges in the index
    Config,         \* the planner's CompactionConfig
    Values,         \* replica offsets
    MaxReplicas     \* bound: replicas

VARIABLES
    segments,   \* one partition's cold segments, in offset order
    offsets     \* the replicas' offsets

algorithmVars == <<segments, offsets>>

AlgorithmsInit == segments = <<>> /\ offsets = <<>>

\* Object i covers one offset; the key is its start.
GrowIndex(gap, size) ==
    LET start == gap + (IF segments = <<>> THEN 0 ELSE Last(segments).end)
    IN  /\ offsets = <<>> /\ Len(segments) < MaxSegments
        /\ segments' = Append(segments,
              [start |-> start, end |-> start + 1, key |-> start, size |-> size])
        /\ UNCHANGED offsets

GrowOffsets(v) ==
    /\ segments = <<>> /\ Len(offsets) < MaxReplicas
    /\ offsets' = Append(offsets, v)
    /\ UNCHANGED segments

AlgorithmsNext ==
    \/ \E gap \in Gaps, size \in SegmentSizes : GrowIndex(gap, size)
    \/ \E v \in Values : GrowOffsets(v)

AlgorithmsSpec == AlgorithmsInit /\ [][AlgorithmsNext]_algorithmVars

-------------------------------------------------------------------------------
(* Properties.                                                             *)

Plans == plan_partition_compaction(segments, Config)
Small(seg) == seg.size < Config.small_threshold_bytes
Planned(seg) == \E i \in 1 .. Len(Plans) : Contains(Plans[i], seg)

\* What execute_plan relies on: a plan is a run of at least two and at most max_sources
\* neighbouring small segments without an offset gap, and plans follow one another
\* without sharing a segment (two plans over one source would delete it twice).  And no
\* merge is missed: of two neighbouring small segments without a gap at least one is in a
\* plan, wherever the size and count limits cut the runs.
PlansExact ==
    /\ \A i \in 1 .. Len(Plans) :
          /\ Len(Plans[i]) \in 2 .. Config.max_sources
          /\ \A j \in 1 .. Len(Plans[i]) : Small(Plans[i][j])
          /\ \A j \in 2 .. Len(Plans[i]) : Plans[i][j].start = Plans[i][j - 1].end
    /\ \A i \in 2 .. Len(Plans) : Last(Plans[i - 1]).end <= Head(Plans[i]).start
    /\ \A i \in 2 .. Len(segments) :
          /\ Small(segments[i - 1]) /\ Small(segments[i])
          /\ segments[i - 1].end = segments[i].start
          => Planned(segments[i - 1]) \/ Planned(segments[i])

\* For every k in range the three algorithms agree with the definition: the answer is an
\* element with fewer than k smaller ones and at least k that are not larger, duplicates
\* counted (recalculate_high_watermark picks the quorum's offset with it).
KthIsKth ==
    \A k \in 1 .. Len(offsets) : IsKthSmallest(offsets, k, find_kth_smallest(offsets, k))

===============================================================================
