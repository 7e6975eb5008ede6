SPECIFICATION Spec
CONSTANTS
    Tasks = {t1, t2}
    Streams = {}
    h1 = h1
    NoTask = NoTask
    Hashes <- OneHash
    HashOf <- SameHash
    StoreKind = "memory"
    LockKind = "memory"
    HistoryLimit = 4
    ChannelSlack = 4
    MaxEvents = 3
    Budget <- SlowHolder
INVARIANTS OneTaskPerHash
CHECK_DEADLOCK FALSE
