SPECIFICATION Spec
CONSTANTS
    None = None
    c1 = c1
    c2 = c2
    i1 = i1
    i2 = i2
    i3 = i3
    Callers <- MCCallers
    Identities <- MCIdentities
    Configurations <- MCConfigurations
    MaxRequests = 2
    Window = 3
    MaxTracked = 2
    Second = 2
    MaxChanges = 3
    MaxOrphans = 1
SYMMETRY Symmetry
INVARIANTS
    TableIsBounded
    QuotaHolds
    RetryAfterIsExact
    ClosedInOrder
    StaleCountsHaveCause
\* The process ends.
CHECK_DEADLOCK FALSE
