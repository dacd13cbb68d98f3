\* An account is deleted after its node was unassigned.
SPECIFICATION Spec
CONSTANTS
    a = a
    b = b
    NoState = NoState
    NoNode = NoNode
    ClientStates = {a, b}
    NodeIds = {n1}
    Workers = {w1}
    MAX_GENERATION = 7
    RowLimit = 20
    Versions <- OneReset
    Clients = {"full"}
    Operations = {"delete", "unassign"}
    AllowNewUsers = {TRUE}
    ClockSkew = 0
    MaxClock = 1
    MaxUid = 3
SYMMETRY Symmetry
INVARIANTS
    RetiredStaysLockedOut
