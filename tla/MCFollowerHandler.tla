--------------------------- MODULE MCFollowerHandler ---------------------------
(* Instances of FollowerHandler for TLC. *)
EXTENDS FollowerHandler

CONSTANTS h1, h2

===============================================================================
