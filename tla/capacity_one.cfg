\* One worker, nodes that go down, back off and come up.
SPECIFICATION Spec
CONSTANTS
    NodeIds = {n1, n2}
    SpannerNode = none
    Migrating = {FALSE}
    Capacities = {1, 2}
    Rate = 1
    Unit = 10
    RoundsSlots = FALSE
    Workers = {w1}
    Purgers = {p1}
    Operations = {"downed", "backoff"}
    MaxUid = 2
    MaxLoad = 2
SYMMETRY Symmetry
CHECK_DEADLOCK TRUE
INVARIANTS
    TypeOK
PROPERTIES
    TurnedAwayOnlyWhenFull
