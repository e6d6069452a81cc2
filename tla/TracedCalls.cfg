SPECIFICATION CallsSpec
CONSTANTS
    BatchLimit = 2
    ToolRetries = 1
    MaxAttempts = 2
    Repairs = 1
    MaxTurns = 2
    Limits = {8, 20}
    ToolAnswers = {"data", "denied", "timeout", "malformed"}
    ModelAnswers = {"succeeded", "throttled", "output_invalid", "refused", "odd"}
INVARIANTS
    AlwaysATree
    SavedIsWhole
    CallsKeptApart
    RepetitionsHaveCause
CHECK_DEADLOCK FALSE
