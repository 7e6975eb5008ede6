SPECIFICATION Spec
CONSTANTS
    Tasks = {t1}
    Streams = {s1, s2}
    h1 = h1
    NoTask = NoTask
    Hashes <- OneHash
    HashOf <- SameHash
    StoreKind = "mysql"
    LockKind = "redis"
    HistoryLimit = 2
    ChannelSlack = 1
    MaxEvents = 3
    Budget <- Hostile
SYMMETRY Symmetric
INVARIANTS OneTerminalEvent ToldOutcomeIsStored FinishedRunsAgree
PROPERTY TerminalIsFinal
CHECK_DEADLOCK FALSE
