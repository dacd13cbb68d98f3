\* Rows that were never counted in are counted out.
SPECIFICATION Spec
CONSTANTS
    NodeIds = {n1}
    SpannerNode = none
    Migrating = {FALSE}
    Capacities = {2}
    Rate = 1
    Unit = 1
    RoundsSlots = TRUE
    Workers = {w1}
    Purgers = {p1}
    Operations = {"update"}
    MaxUid = 3
    MaxLoad = 2
SYMMETRY Symmetry
CHECK_DEADLOCK TRUE
INVARIANTS
    LoadCountsUsers
