SPECIFICATION Spec
CONSTANTS
    Sessions = {s1}
    Workers = {w1, w2}
    None = None
    MaxRuns = 2
    MaxAttempts = 2
    LeaseTicks = 1
    MaxLag = 0
    Acceptances = {FALSE}
SYMMETRY Symmetry
INVARIANTS
    TypeOK
    ConstraintsAreMet
    CheckpointTracksCompletions
    RestoredContextIsCurrent
    TimelineMatchesStatus
    LastClaimantDecides
CHECK_DEADLOCK FALSE
