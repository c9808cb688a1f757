\* One tab ends a section while another submits; then answers are saved.
CONSTANTS
    Questions = {q1}
    MaxAt = 1
    LastSection = 1
    SectionOf <- MCSectionOf
    Requests = {r1, r2, r3}
    Starter = post
    Workers = {w1}
    Tabs = 2
    Unreliable = {}
    RedisLoses = FALSE
SPECIFICATION Spec
INVARIANT RefusedAfterSubmit
