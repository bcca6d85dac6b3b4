---------------------------- MODULE MCFencedTiering ----------------------------
(* Instances of FencedTiering for TLC. *)
EXTENDS FencedTiering, TLC

Symmetric == Permutations(Nodes) \cup Permutations(Calls)

===============================================================================
