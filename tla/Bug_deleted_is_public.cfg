SPECIFICATION LibSpec
CONSTANTS
    Plans = {p1}
    Calls = {c1, c2}
    NoPlan = NoPlan
    StoreKind = "mysql"
    MaxCount = 0
    MaxFaults = 0
INVARIANT DeletedIsHidden
CHECK_DEADLOCK FALSE
