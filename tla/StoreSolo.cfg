\* One student with one tab, reliable worker and Redis; API requests may die half way.
CONSTANTS
    Questions = {q1, q2}
    MaxAt = 2
    LastSection = 1
    SectionOf <- MCSectionOf
    Requests = {r1, r2, r3}
    Starter = post
    Workers = {w1}
    Tabs = 1
    Unreliable = {r1, r2, r3}
    RedisLoses = FALSE
SPECIFICATION Spec
SYMMETRY MCSymmetry
INVARIANT CleanMeansFlushed
PROPERTIES NewestWins SubmitKeepsSaved
