SPECIFICATION Spec
CONSTANTS
    WorldSize = 2
    TpSize = 2
    OffloadParam = {"actor"}
    OffloadOptimizer = {"actor", "critic"}
    LogProbMicro = 1
    RefMicro = 2
    ActorMicro = 1
    CriticMicro = 1
    MiniBatch = 3
    UseKl = TRUE
    UseDynamicBsz = TRUE
    MaxTokenLen = 3
    BalanceBatch = TRUE
    Gamma = 10
    PenaltyCoef = 5
    SimilarObs <- MCSimilarObs
    Batches <- MCBatches
    NumPrompts = 3
    MaxTurns = 2
    SimilarityModes = {TRUE, FALSE}
    UseCritic = TRUE
    CriticWarmup = 2
    TestFreq = 2
    SaveFreq = 2
    TotalSteps = 3
INVARIANTS
    TypeOK
    ColumnsAlign
    ReturnsFitTheirRows
    EveryRowIsTrained
    RanksInStep
    MicroBatchesAreLight
    GroupsOfOnePrompt
    OnPolicy
    MemoryIsHandedOver
    RandomStreams
