--------------------------- MODULE MCPurgeRecords ---------------------------
(* Instances of PurgeRecords for TLC. *)
EXTENDS PurgeRecords

CONSTANTS n1, n2

Setting(dryrun, max_records) ==
    [force |-> FALSE, dryrun |-> dryrun, max_records |-> max_records]

(* With a limit, without one, and dry. *)
ThreeRuns == {Setting(FALSE, 0), Setting(FALSE, 1), Setting(TRUE, 0)}

TwoServices == <<"one", "two">>

OneNodeEach == [n \in NodeIds |-> IF n = n1 THEN "one" ELSE "two"]

(* Two rows of one service and one of the other. *)
TwoAndOne == {<<n1, n1, n2>>, <<n1, n2, n2>>}

=============================================================================
