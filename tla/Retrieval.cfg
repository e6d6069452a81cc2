SPECIFICATION RetrievalSpec
CONSTANTS
    MaxChars = 10
    Weights <- ProductWeights
    ChunkWeights <- ProductChunkWeights
    Blend = 4
    Budget <- SmallBudget
    NodeSize = 8
    PathSize = 6
    ChunkSize = 3
    Base = {1, 2, 3}
    CaseNodes = {4, 5}
    Edges <- Chain
    Reliability <- Reliable
    Worlds <- ThreeWorlds
    Documents <- SomeDocuments
    Authority = 9
    SeedLimit = 2
    ChunkLimit = 3
    Multiplier = 2
    MostCandidates = 5
    MaxHops = 2
    MaxChanges = 2
INVARIANTS
    ChunksAreTheDocument
    ScoresBelongToTheirItem
    BundleIsMaximal
    FailureHasCause
CHECK_DEADLOCK FALSE
