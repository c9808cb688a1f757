\* One attempt to score and one scored before, two runs at a time, a correction of the key and rescores, one error.
SPECIFICATION FairSpec
CONSTANTS
    Attempts = {a1, a2}
    First = {a1}
    Earlier = {a2}
    Workers = {w1, w2}
    Rescorers = {r1}
    MaxKey = 2
    MaxRescores = 1
    MaxErrors = 1
INVARIANTS OneScorer OnlyFirstRanked
PROPERTY KeyReachesResults
CHECK_DEADLOCK FALSE
