\* Two workers race for the slots of two nodes, one of them Spanner, and a purger frees slots.
SPECIFICATION Spec
CONSTANTS
    NodeIds = {n1, n2}
    SpannerNode = n2
    Migrating = {TRUE, FALSE}
    Capacities = {2}
    Rate = 1
    Unit = 2
    RoundsSlots = TRUE
    Workers = {w1, w2}
    Purgers = {p1}
    Operations = {"add", "remove", "update"}
    MaxUid = 2
    MaxLoad = 2
SYMMETRY Symmetry
CHECK_DEADLOCK TRUE
INVARIANTS
    OvershootBounded
    FreeSlotsAreFree
