SPECIFICATION Spec
CONSTANTS
    p1 = p1
    p2 = p2
    r1 = r1
    Process = {p1, p2}
    Run = {r1}
    SyncRun = {}
    ScopedRun = {r1}
    Warm = {"all"}
    TTL = 1
    MaxRestarts = 1
    Fault = {"crash", "close", "cancel", "work", "db", "redis", "late"}
SYMMETRY Symmetry
INVARIANT TypeOK
INVARIANT ReportOfTheWinner
INVARIANT SnapshotNeverLies
INVARIANT SealedMeansCompleted
PROPERTY Lifecycle
PROPERTY LeaseIsFenced
CHECK_DEADLOCK FALSE
