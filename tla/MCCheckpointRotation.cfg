SPECIFICATION Spec
CONSTANTS
    Ranks = {r1, r2}
    UseCritic = FALSE
    TotalSteps = 3
    SaveFreq = 1
    MaxKeep = 1
    EpochLen = 3
    Epochs = 2
    Modes = {"auto"}
    MaxRuns = 3
INVARIANTS
    TrackerCanBeRestarted
