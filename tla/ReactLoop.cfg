SPECIFICATION Spec
CONSTANTS
    r0 = r0
    r1 = r1
    q1 = q1
    q2 = q2
    h1 = h1
    c1 = c1
    Runs = {r0, r1}
    Queries = {q1, q2, q3, x}
    Allowed = {q1, q2, q3}
    Known = {k}
    Hypotheses = {h1}
    Causes = {c1}
    None = None
    Priors <- MCPriors
    MaxSteps = 2
    MaxParallel = 2
    Retries = 0
    MaxUpdates = 1
    MaxRefs = 1
INVARIANTS
    CallsWithinBudget
    NoCallRepeated
PROPERTIES
    SupportedIsObserved
    Ends
CHECK_DEADLOCK FALSE
