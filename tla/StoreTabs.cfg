\* Two tabs at once, API requests that die half way, a Redis that may lose the hash at any
\* moment; the worker is reliable, so that it must submit what is overdue.
CONSTANTS
    Questions = {q1}
    MaxAt = 1
    LastSection = 0
    SectionOf <- MCSectionOf
    Requests = {r1, r2}
    Starter = post
    Workers = {w1}
    Tabs = 2
    Unreliable = {r1, r2, post}
    RedisLoses = TRUE
SPECIFICATION FairSpec
PROPERTIES ImplementsLifecycle AutoSubmitted
