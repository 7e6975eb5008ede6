SPECIFICATION LiveSpec
CONSTANTS
    Tasks = {t1, t2}
    Streams = {s1}
    h1 = h1
    NoTask = NoTask
    Hashes <- OneHash
    HashOf <- SameHash
    StoreKind = "memory"
    LockKind = "memory"
    HistoryLimit = 2
    ChannelSlack = 1
    MaxEvents = 2
    Budget <- DisconnectAndCrash
    Callers = {c1, c2, c3}
    Concurrency = 1
    Interval = 2
    Timeout = 2
    MaxDelay = 1
    MaxAhead = 3
    Workers = {w1, w2}
    Jobs = 4
INVARIANTS TypeOK OneTaskPerHash PlacesAreCalls
PROPERTIES TasksFinish StreamsEnd EveryCallEnds RunEnds
CHECK_DEADLOCK FALSE
