SPECIFICATION Spec
CONSTANTS
    Task = {t1, t2, t3}
    Document = {d1, d2}
    Name = {n1, n2}
    Content = {c1}
    None = None
    Fault = {"postgres", "storage", "vectors", "crash"}
SYMMETRY Symmetry
CHECK_DEADLOCK FALSE
INVARIANT TypeOK
INVARIANT ReadyIsSearchable
INVARIANT TransientHasOwner
INVARIANT ObjectHasOwner
INVARIANT OrphansAreOutrun
