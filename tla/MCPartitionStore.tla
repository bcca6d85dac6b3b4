--------------------------- MODULE MCPartitionStore ---------------------------
(* Instances of PartitionStore for TLC: values for its structured constants. *)
EXTENDS PartitionStore

CONSTANTS t1, t2, p1, p2

\* One producer per partition, named like the partition.
OwnPartition == [p \in Producers |-> {p}]
\* Every producer writes to every partition.
AnyPartition == [p \in Producers |-> Partitions]

Symmetric == Permutations(Partitions)

NoFaults == [crash |-> 0, wal |-> 0, io |-> 0, tear |-> 0, fence |-> 0]
CrashAndError == [NoFaults EXCEPT !.crash = 1, !.io = 1]
TwoCrashes == [NoFaults EXCEPT !.crash = 2]
OneFence == [NoFaults EXCEPT !.fence = 1]
WalAndIoErrors == [NoFaults EXCEPT !.wal = 1, !.tear = 1, !.io = 1]

SmallMerges == CompactionConfig(10, 10, 3)
===============================================================================
