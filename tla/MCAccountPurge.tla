--------------------------- MODULE MCAccountPurge ---------------------------
(* Instances of AccountPurge for TLC. *)
EXTENDS AccountPurge, TLC

CONSTANTS a, b

Version(g, k, s) ==
    [generation |-> g, keys_changed_at |-> k, client_state |-> s]

OneReset == <<Version(1, 1, a), Version(3, 3, b)>>

ChangeThenReset == <<Version(1, 1, a), Version(3, 1, a), Version(5, 5, b)>>

ResetThenChange == <<Version(1, 1, a), Version(3, 3, b), Version(5, 3, b)>>

Setting(force, dryrun, max_records) ==
    [force |-> force, dryrun |-> dryrun, max_records |-> max_records]

SomeSettings == {Setting(FALSE, FALSE, 0), Setting(FALSE, FALSE, 1),
                 Setting(TRUE, FALSE, 0), Setting(FALSE, TRUE, 0)}

Symmetry == Permutations(Workers) \cup Permutations(Purgers)

=============================================================================
