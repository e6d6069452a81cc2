SPECIFICATION Spec
CONSTANTS
    Sessions = {s1}
    Workers = {w1, w2}
    None = None
    MaxRuns = 1
    MaxAttempts = 2
    LeaseTicks = 1
    MaxLag = 0
    Acceptances = {FALSE}
INVARIANTS
    LatestClaimDecides
CHECK_DEADLOCK FALSE
