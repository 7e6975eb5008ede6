SPECIFICATION LibSpec
CONSTANTS
    Plans = {p1, p2}
    Calls = {c1, c2}
    NoPlan = NoPlan
    StoreKind = "mysql"
    MaxCount = 0
    MaxFaults = 0
INVARIANT OnePlanPerTask
CHECK_DEADLOCK FALSE
