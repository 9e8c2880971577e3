SPECIFICATION Spec
CONSTANTS
    p1 = p1
    r1 = r1
    Process = {p1}
    Run = {r1}
    SyncRun = {}
    ScopedRun = {}
    Warm = {"all"}
    TTL = 1
    MaxRestarts = 1
    Fault = {"close"}
INVARIANT ClaimedRunCanOpen
CHECK_DEADLOCK FALSE
