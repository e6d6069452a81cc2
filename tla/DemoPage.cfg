SPECIFICATION FairSpec
CONSTANTS
    MaxRuns = 2
    MaxEvents = 2
    MaxBreaks = 1
    MaxCalls = 1
    Outcomes = {"completed"}
INVARIANTS
    ShownFaithfully
PROPERTIES
    FollowedToTheEnd
CHECK_DEADLOCK FALSE
