SPECIFICATION Spec
CONSTANTS
    q1 = q1
    q2 = q2
    t1 = t1
    t2 = t2
    Requests <- TwoRequests
    Tools <- TwoTools
    ToolsOf <- NoTools
    RaisingTools = {}
    MaxTurns = 2
    MaxCalls = 0
    PromptLen = 2
    ResponseLen = 2
    MaxModelLen = 11
    Prompts <- OnePrompt
    OpeningLen = 3
    Sizes = {2}
    Drift = 0
    Batches <- ValidateThenTrain
INVARIANTS
    ParametersFallBack
