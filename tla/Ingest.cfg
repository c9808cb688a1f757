\* Two workers, two runs, three outputs, one fault at any step.
SPECIFICATION FairSpec
CONSTANTS
    Workers = {w1, w2}
    MaxOutputs = 3
    MaxRuns = 2
    MaxFaults = 1
INVARIANTS PublishedWhole OneTest
PROPERTY Settles
CHECK_DEADLOCK FALSE
