\* The process that submitted an attempt dies before it adds the score job.
CONSTANTS
    Questions = {q1}
    MaxAt = 1
    LastSection = 0
    SectionOf <- MCSectionOf
    Requests = {r1}
    Starter = post
    Workers = {w1}
    Tabs = 1
    Unreliable = {r1}
    RedisLoses = FALSE
SPECIFICATION FairSpec
PROPERTY SubmittedIsQueued
