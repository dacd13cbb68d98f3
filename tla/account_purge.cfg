\* One worker and one purger on one account; clients with all their claims.
SPECIFICATION AccountSpec
CONSTANTS
    a = a
    b = b
    NoState = NoState
    NoNode = NoNode
    ClientStates = {a, b}
    NodeIds = {n1}
    Workers = {w1}
    MAX_GENERATION = 7
    RowLimit = 20
    Versions <- OneReset
    Clients = {"full"}
    Operations = {"event", "downed"}
    AllowNewUsers = {TRUE}
    ClockSkew = 0
    MaxClock = 3
    MaxUid = 3
    Purgers = {p1}
    Grace = 1
    PerLoop = 2
    MaxOffset = 1
    Settings <- SomeSettings
    TokenDuration = 1
SYMMETRY Symmetry
INVARIANTS
    GraceOutlivesTokens
    NoStaleToken
    NewestClientAccepted
PROPERTIES
    NoRevivalByPurge
