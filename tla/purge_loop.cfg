\* A purger on three rows of two services; nodes go down and are removed.
SPECIFICATION FairSpec
CONSTANTS
    n1 = n1
    n2 = n2
    ClientStates = {a}
    NoState = NoState
    NodeIds = {n1, n2}
    MAX_GENERATION = 7
    RowLimit = 20
    Purgers = {p1}
    Patterns <- TwoServices
    ServiceOf <- OneNodeEach
    Homes <- TwoAndOne
    Grace = 0
    PerLoop = 2
    MaxOffset = 0
    Settings <- ThreeRuns
    PurgeClock = 1
    PurgeUids = {1, 2, 3}
INVARIANTS
    TypeOK
    RecordOutlivesData
    LoopMeansDowned
PROPERTIES
    OldRowsPurged
