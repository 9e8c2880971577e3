SPECIFICATION Spec
CONSTANTS
    Task = {t1, t2}
    Document = {d1, d2}
    Name = {n1}
    Content = {c1}
    None = None
    Fault = {"vectors"}
SYMMETRY Symmetry
CHECK_DEADLOCK FALSE
INVARIANT ScopedIsSearchable
