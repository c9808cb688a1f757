\* One error while an attempt is scored.
SPECIFICATION FairSpec
CONSTANTS
    Attempts = {a1, a2}
    First = {a1}
    Earlier = {a2}
    Workers = {w1, w2}
    Rescorers = {r1}
    MaxKey = 1
    MaxRescores = 1
    MaxErrors = 1
PROPERTY EventuallyScored
CHECK_DEADLOCK FALSE
