--------------------------- MODULE MCNodeCapacity ---------------------------
(* Instances of NodeCapacity for TLC. *)
EXTENDS NodeCapacity, TLC

Symmetry == Permutations(Workers) \cup Permutations(Purgers)

=============================================================================
