\* Two tabs (or a phone's offline queue and a tab) save answers of the same question at once.
CONSTANTS
    Questions = {q1}
    MaxAt = 2
    LastSection = 0
    SectionOf <- MCSectionOf
    Requests = {r1, r2}
    Starter = post
    Workers = {w1}
    Tabs = 2
    Unreliable = {}
    RedisLoses = FALSE
SPECIFICATION Spec
PROPERTY NewestWins
