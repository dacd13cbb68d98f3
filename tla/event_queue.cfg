\* One worker and a consumer that dies, two services of which this one is added later; messages that kill it.
SPECIFICATION FairEventsSpec
CONSTANTS
    a = a
    b = b
    NoState = NoState
    NoNode = NoNode
    ClientStates = {a, b}
    NodeIds = {n1}
    Workers = {w1}
    MAX_GENERATION = 7
    RowLimit = 20
    Versions <- OneReset
    Clients = {"full"}
    Operations = {"event", "delete"}
    AllowNewUsers = {TRUE}
    ClockSkew = 0
    MaxClock = 1
    MaxUid = 3
    Services = {s1, s2}
    FirstServices = {s2}
    Service = s1
    Consumers = {c1}
    MaxCrashes = 1
INVARIANTS
    QueueTypeOK
    HandledTookEffect
PROPERTIES
    EventsTakeEffect
