SPECIFICATION Spec
CONSTANTS
    p1 = p1
    p2 = p2
    r1 = r1
    Process = {p1, p2}
    Run = {r1}
    SyncRun = {r1}
    ScopedRun = {}
    Warm = {"all"}
    TTL = 1
    MaxRestarts = 1
    Fault = {"crash"}
INVARIANT OneExecutorPerRun
CHECK_DEADLOCK FALSE
