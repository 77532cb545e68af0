SPECIFICATION Spec
CONSTANTS
    Managers <- MCManagers
    HistoryLengths = {0, 1, 2, 5}
    NumEnvs = 2
    MaxSteps = 4
    MaxEpisodes = 2
INVARIANTS
    PromptsTellTheEpisode
CHECK_DEADLOCK FALSE
