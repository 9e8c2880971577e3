SPECIFICATION LiveSpec
CONSTANTS
    p1 = p1
    p2 = p2
    r1 = r1
    Process = {p1, p2}
    Run = {r1}
    SyncRun = {}
    ScopedRun = {}
    Warm = {}
    TTL = 2
    MaxRestarts = 1
    Fault = {"crash", "close", "cancel", "work", "redis"}
INVARIANT OneWorkerPerRun
PROPERTY CancelStopsWork
PROPERTY EveryRunSettles
CHECK_DEADLOCK FALSE
