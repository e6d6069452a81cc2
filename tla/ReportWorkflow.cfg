SPECIFICATION Spec
CONSTANTS
    e1 = e1
    e2 = e2
    gone = gone
    kn = kn
    path = path
    sop = sop
    old = old
    c1 = c1
    c2 = c2
    None = None
    Texts = {c1, c2}
    References <- MCReferences
    Contexts <- MCContexts
    MaxRevisions = 1
    Objections <- MCObjections
    MaxIssues = 2
INVARIANTS
    AcceptedIsEndorsed
    DegradedClaimsNothing
    RevisedIsClean
PROPERTIES
    OnlyNarrows
    RemovalIsPrecise
CHECK_DEADLOCK FALSE
