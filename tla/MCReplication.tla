----------------------------- MODULE MCReplication -----------------------------
(* Instances of ReplicationManager for TLC. *)
EXTENDS ReplicationManager

Symmetric == Permutations(Followers) \cup Permutations(Tasks)

===============================================================================
