SPECIFICATION FairSpec
CONSTANTS
    q1 = q1
    q2 = q2
    t1 = t1
    t2 = t2
    Requests <- TwoRequests
    Tools <- TwoTools
    ToolsOf <- BothAndOne
    RaisingTools = {t2}
    MaxTurns = 2
    MaxCalls = 2
    PromptLen = 2
    ResponseLen = 1
    MaxModelLen = 16
    Prompts <- EveryPrompt
    OpeningLen = 3
    Sizes = {1, 9}
    Drift = 0
    Batches <- TrainTwice
INVARIANTS
    TypeOK
    ToolsAreThere
    AllReleased
    ResponsesFollowTheCalls
    FinishIsAccepted
    RefusedOnlyNearTheLimit
PROPERTIES
    Terminates
