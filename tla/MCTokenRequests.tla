-------------------------- MODULE MCTokenRequests --------------------------
(* Instances of TokenRequests for TLC. *)
EXTENDS TokenRequests, TLC

CONSTANTS a, b

Version(g, k, s) ==
    [generation |-> g, keys_changed_at |-> k, client_state |-> s]

(* A password change, then a reset. *)
ChangeThenReset == <<Version(1, 1, a), Version(3, 1, a), Version(5, 5, b)>>

(* A reset, then a password change. *)
ResetThenChange == <<Version(1, 1, a), Version(3, 3, b), Version(5, 3, b)>>

OneReset == <<Version(1, 1, a), Version(3, 3, b)>>

OneChange == <<Version(1, 1, a), Version(3, 1, a)>>

Symmetry == Permutations(Workers) \cup Permutations(NodeIds)

=============================================================================
