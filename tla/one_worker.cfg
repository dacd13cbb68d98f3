\* One worker that may crash anywhere, a skewed clock, account deletion, every row in sight.
SPECIFICATION Spec
CONSTANTS
    a = a
    b = b
    NoState = NoState
    NoNode = NoNode
    ClientStates = {a, b}
    NodeIds = {n1}
    Workers = {w1}
    MAX_GENERATION = 7
    RowLimit = 3
    Versions <- ChangeThenReset
    Clients = {"full", "oauth"}
    Operations = {"event", "delete"}
    AllowNewUsers = {TRUE, FALSE}
    ClockSkew = 1
    MaxClock = 2
    MaxUid = 3
SYMMETRY Symmetry
INVARIANTS
    TypeOK
    RetiredStaysLockedOut
    NoSpuriousReassignment
PROPERTIES
    NoStateRevival
    ImplementsAccount
