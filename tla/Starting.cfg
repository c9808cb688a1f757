SPECIFICATION Spec
CONSTANTS
    Requests = {r1, r2}
    Questions = {q1}
    MaxAttempts = 2
    MaxUpdates = 3
    MaxDeaths = 1
INVARIANTS
    FirstOnce
    FreshPaper
    ShownIsScored
SYMMETRY Symmetry
CHECK_DEADLOCK FALSE
