------------------------------ MODULE KthSmallest ------------------------------
(***************************************************************************)
(* find_kth_smallest of the replication manager                            *)
(* (src/src/replication/manager.rs): a minimum, a two-variable scan, or a  *)
(* bounded max-heap, depending on k.                                       *)
(***************************************************************************)
EXTENDS Naturals, FiniteSetsExt, SequencesExt

CONSTANT U64Max   \* the scan's initial value, above every offset
\* Mutant: the old minimum is forgotten instead of becoming the second smallest.
ScanStep_ForgetsMin(acc, offset) ==
    CASE offset < acc.min -> [acc EXCEPT !.min = offset]
      [] offset >= acc.min /\ offset < acc.second -> [acc EXCEPT !.second = offset]
      [] OTHER -> acc

\* k = 2: the smallest and the second smallest seen so far.
ScanStep(acc, offset) ==
    CASE offset < acc.min -> [min |-> offset, second |-> acc.min]
      [] offset >= acc.min /\ offset < acc.second -> [acc EXCEPT !.second = offset]
      [] OTHER -> acc

SecondSmallest(offsets) ==
    FoldLeft(ScanStep, [min |-> U64Max, second |-> U64Max], offsets).second

\* k >= 3: a max-heap (here the bag of its elements) of the k smallest seen so far.
Peek(heap) == Max(ToSet(heap))
HeapStep(heap, offset) ==
    IF offset < Peek(heap) THEN Append(RemoveFirst(heap, Peek(heap)), offset) ELSE heap

HeapSmallest(offsets, k) ==
    Peek(FoldLeft(HeapStep, SubSeq(offsets, 1, k), SubSeq(offsets, k + 1, Len(offsets))))

find_kth_smallest(offsets, k) ==
    CASE k \notin 1 .. Len(offsets) -> 0
      [] k = 1 /\ k <= Len(offsets) -> Min(ToSet(offsets))
      [] k = 2 /\ k <= Len(offsets) -> SecondSmallest(offsets)
      [] k >= 3 /\ k <= Len(offsets) -> HeapSmallest(offsets, k)

-------------------------------------------------------------------------------
\* What "k-th smallest" means, duplicates counted: x is one of the offsets, fewer than k
\* are smaller and at least k are not larger.
IsKthSmallest(offsets, k, x) ==
    /\ \E i \in 1 .. Len(offsets) : offsets[i] = x
    /\ Cardinality({i \in 1 .. Len(offsets) : offsets[i] < x}) < k
    /\ Cardinality({i \in 1 .. Len(offsets) : offsets[i] <= x}) >= k

===============================================================================
