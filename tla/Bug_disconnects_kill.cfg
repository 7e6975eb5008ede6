SPECIFICATION Spec
CONSTANTS
    Tasks = {t1}
    Streams = {s1, s2}
    h1 = h1
    NoTask = NoTask
    Hashes <- OneHash
    HashOf <- SameHash
    StoreKind = "mysql"
    LockKind = "redis"
    HistoryLimit = 4
    ChannelSlack = 4
    MaxEvents = 3
    Budget <- TwoDisconnects
INVARIANTS ProcessSurvives
CHECK_DEADLOCK FALSE
