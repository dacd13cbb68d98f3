\* Two requests at a time, a service added while the process runs, a setting that changes.
SPECIFICATION FairSpec
CONSTANTS
    s1 = s1
    s2 = s2
    a = a
    b = b
    Threads = {t1, t2}
    Services = {s1, s2}
    Supported = {s1, s2}
    Configured = {}
    FirstServices = {s1}
    KeyStates = {a, b}
    Empty = Empty
    Absent = Absent
    Malformed = Malformed
    Requests <- FourRequests
    FirstPercentage = 0
    Percentages = {0, 10, 50}
    NoSetting = NoSetting
    Lifespan = 1
INVARIANTS
    TypeOK
    KnownServiceFound
    KeyIdCounts
PROPERTIES
    SettingFollowed
