\* Two workers, requests and events racing over one reset of the account.
SPECIFICATION Spec
CONSTANTS
    a = a
    b = b
    NoState = NoState
    NoNode = NoNode
    ClientStates = {a, b}
    NodeIds = {n1}
    Workers = {w1, w2}
    MAX_GENERATION = 7
    RowLimit = 20
    Versions <- OneReset
    Clients = {"full"}
    Operations = {"event"}
    AllowNewUsers = {TRUE}
    ClockSkew = 0
    MaxClock = 1
    MaxUid = 3
SYMMETRY Symmetry
INVARIANTS
    NoStaleToken
    NewestClientAccepted
    TokenNamesItsRow
PROPERTIES
    RowsOnlyAdvance
    ImplementsAccount
