SPECIFICATION Spec
CONSTANTS
    Cases = {k1, k2}
    Scope <- OneScope
    Runs = {r1, r2}
    Facts = {f1, f2}
    Clients = {c1, c2, c3}
    None = None
SYMMETRY Symmetry
INVARIANTS
    OccurrencesCountRuns
    InsertNeverConflicts
    GraphIsWhole
PROPERTY ImplementsLedger
