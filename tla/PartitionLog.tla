----------------------------- MODULE PartitionLog -----------------------------
(***************************************************************************)
(* What the storage engine promises: each partition is a log of            *)
(* acknowledged records.  An acknowledged batch takes offsets above every  *)
(* acknowledged one, and from then on a read of an acknowledged offset     *)
(* returns the record acknowledged there.  Tiering, eviction, compaction,  *)
(* crashes and recovery do not show.                                       *)
(***************************************************************************)
EXTENDS Naturals

CONSTANTS Partitions, MaxOffset, Ids

\* [tp -> [acknowledged offset -> identity of the record read there]]
VARIABLE log

Init == log = [tp \in Partitions |-> <<>>]

\* Acknowledge a batch at base .. last (failed appends may leave gaps below base).
Acknowledge(tp, base, last) ==
    /\ \A o \in DOMAIN log[tp] : o < base
    /\ \E batch \in [base .. last -> Ids] :
          log' = [log EXCEPT ![tp] =
              [o \in DOMAIN @ \cup (base .. last) |-> IF o \in DOMAIN @ THEN @[o] ELSE batch[o]]]

Next ==
    \E tp \in Partitions, base, last \in 0 .. MaxOffset - 1 :
        base <= last /\ Acknowledge(tp, base, last)

Spec == Init /\ [][Next]_log

===============================================================================
