SPECIFICATION Spec
CONSTANTS
    None = None
    r1 = r1
    r2 = r2
    k1 = k1
    q1 = q1
    q2 = q2
    n1 = n1
    n2 = n2
    n3 = n3
    n4 = n4
    Request = {r1, r2}
    Key = {k1}
    Payload = {q1, q2}
    RunId = {n1, n2, n3, n4}
    LockTTL = 3
    RecordTTL = 1
    Window = 2
    Allowance = 1
    Fault = {"redis", "slow", "work", "crash"}
INVARIANT TypeOK
INVARIANT OwnerHoldsLock
INVARIANT OneExecutionPerKey
INVARIANT AnswersItsOwnPayload
PROPERTY RecordIsFinal
PROPERTY OrphanLockExpires
PROPERTY LostLockStopsExecution
INVARIANT AllowanceHolds
PROPERTY WindowEnds
