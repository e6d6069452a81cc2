SPECIFICATION Spec
CONSTANTS
    a = a
    b = b
    q1 = q1
    q2 = q2
    c1 = c1
    c2 = c2
    None = None
    Queries = {q1, q2}
    Components = {a, b}
    ComponentOf <- QueryOfEach
    Hypotheses = {h}
    Causes = {c1}
    Requests <- PlainThenBroad
    Bundles = {{k}}
    Verdicts = {"new"}
    Objections <- OneObjection
    WindowEvidence = 1
    WindowEvents = 1
    WindowHypotheses = 1
    CitedObservations = 1
    RecallLimit = 1
    Turns = 2
    MaxCalls = 2
    MaxItems = 1
    MaxAttempts = 1
    MaxRefs = 2
INVARIANT CausesRestOnObservations
CHECK_DEADLOCK FALSE
