SPECIFICATION FairSpec
CONSTANTS
    Tools = {"search", "sandbox", "free"}
    SearchTools = {"search", "free"}
    LimitedTools = {"search", "sandbox"}
    Calls = {"c1", "c2", "c3", "c4", "c5"}
    ToolOf <- MCToolOf
    RateOf <- MCRateOf
    NumWorkers <- MCNumWorkers
PROPERTIES
    ImplementsBucket
    EveryCallEnds
CHECK_DEADLOCK FALSE
