-------------------------- MODULE MCAccountEvents --------------------------
(* Instances of AccountEvents for TLC. *)
EXTENDS AccountEvents, TLC

CONSTANTS a, b

Version(g, k, s) ==
    [generation |-> g, keys_changed_at |-> k, client_state |-> s]

OneReset == <<Version(1, 1, a), Version(3, 3, b)>>

OneChange == <<Version(1, 1, a), Version(3, 1, a)>>

(* A reset, then a password change. *)
ResetThenChange == <<Version(1, 1, a), Version(3, 3, b), Version(5, 3, b)>>

Symmetry == Permutations(Workers) \cup Permutations(Consumers)

=============================================================================
