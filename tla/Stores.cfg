SPECIFICATION StoresSpec
CONSTANTS
    Tasks = {old, x1, x2}
    Legacy = {old}
    Readers = {r1, r2}
    h1 = h1
    NoTask = None
    Hashes <- OneHash
    HashOf <- SameHash
    Plans = {x1, x2}
    Calls = {r1, r2}
    NoPlan = None
    StoreKind = "mysql"
    MaxCount = 1
    MaxFaults = 1
SYMMETRY Symmetric
INVARIANTS
    StoresTypeOK
    CacheAgrees
    HintsAgree
    PublishedAgrees
    SavedOnce
    CountersSurvive
PROPERTIES
    Linearizable
    DeletedStaysDeleted
CHECK_DEADLOCK FALSE
