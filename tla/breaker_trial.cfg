SPECIFICATION Spec
CONSTANTS
    c1 = c1
    c2 = c2
    Caller = {c1, c2}
    Threshold = 1
    Reset = 2
    Limit = 1
    MaxAttempts = 2
INVARIANT RejectionIsTrue
