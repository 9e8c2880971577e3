SPECIFICATION Spec
CONSTANTS
    c1 = c1
    c2 = c2
    c3 = c3
    Caller = {c1, c2, c3}
    Threshold = 2
    Reset = 3
    Limit = 2
    MaxAttempts = 2
SYMMETRY Symmetry
INVARIANT CountsAgree
INVARIANT OneTrial
