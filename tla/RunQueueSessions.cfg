SPECIFICATION FairSpec
CONSTANTS
    Sessions = {s1, s2}
    Workers = {w1, w2}
    None = None
    MaxRuns = 2
    MaxAttempts = 1
    LeaseTicks = 1
    MaxLag = 1
    Acceptances = {FALSE}
PROPERTIES
    EveryRunEnds
    ImplementsLifecycle
CHECK_DEADLOCK FALSE
