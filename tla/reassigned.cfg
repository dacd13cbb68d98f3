\* One worker, two nodes that are unassigned or removed and the account moved at any moment.
SPECIFICATION Spec
CONSTANTS
    a = a
    b = b
    NoState = NoState
    NoNode = NoNode
    ClientStates = {a, b}
    NodeIds = {n1, n2}
    Workers = {w1}
    MAX_GENERATION = 7
    RowLimit = 2
    Versions <- OneReset
    Clients = {"full"}
    Operations = {"remove", "unassign", "allocate"}
    AllowNewUsers = {TRUE}
    ClockSkew = 0
    MaxClock = 1
    MaxUid = 3
SYMMETRY Symmetry
INVARIANTS
    NewestClientAccepted
    NoTokenForRemovedNode
PROPERTIES
    MoveTakesEffect
