SPECIFICATION FairSpec
CONSTANTS
    Tasks = {t1, t2}
    Streams = {s1}
    h1 = h1
    NoTask = NoTask
    Hashes <- OneHash
    HashOf <- SameHash
    StoreKind = "mysql"
    LockKind = "redis"
    HistoryLimit = 1
    ChannelSlack = 1
    MaxEvents = 1
    Budget <- Unreliable
INVARIANTS AnswersAgree LeaseOwnsLock LeaseExclusive
PROPERTY CallsReturn
CHECK_DEADLOCK FALSE
