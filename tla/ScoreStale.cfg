\* A correction of the key while an attempt is scored, without errors.
SPECIFICATION Spec
CONSTANTS
    Attempts = {a1, a2}
    First = {a1}
    Earlier = {a2}
    Workers = {w1, w2}
    Rescorers = {r1}
    MaxKey = 2
    MaxRescores = 1
    MaxErrors = 0
INVARIANT ResultsCurrent
CHECK_DEADLOCK FALSE
