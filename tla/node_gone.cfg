\* A node is removed while a request with a new client state is under way.
SPECIFICATION Spec
CONSTANTS
    a = a
    b = b
    NoState = NoState
    NoNode = NoNode
    ClientStates = {a, b}
    NodeIds = {n1, n2}
    Workers = {w1}
    MAX_GENERATION = 7
    RowLimit = 20
    Versions <- OneReset
    Clients = {"full"}
    Operations = {"remove"}
    AllowNewUsers = {TRUE}
    ClockSkew = 0
    MaxClock = 1
    MaxUid = 3
SYMMETRY Symmetry
PROPERTIES
    GoneNodeIsReplaced
