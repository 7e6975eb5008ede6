SPECIFICATION Spec
CONSTANTS
    Tasks = {t1}
    Streams = {s1}
    h1 = h1
    NoTask = NoTask
    Hashes <- OneHash
    HashOf <- SameHash
    StoreKind = "mysql"
    LockKind = "redis"
    HistoryLimit = 4
    ChannelSlack = 4
    MaxEvents = 3
    Budget <- Calm
INVARIANTS DoneMeansPersisted
CHECK_DEADLOCK FALSE
