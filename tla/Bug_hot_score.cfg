SPECIFICATION ViewSpec
CONSTANTS
    Viewers = {v1, v2}
    Reads = {r1, r2}
    NoViewer = NoViewer
    TTL = 2
    Lag = 1
    SeenLimit = 1
    MaxViewClock = 5
    MaxCounts = 3
    MaxViewFaults = 1
INVARIANT HotScoreAgrees
CHECK_DEADLOCK FALSE
