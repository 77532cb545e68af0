SPECIFICATION FairSpec
CONSTANTS
    Ranks = {r1, r2}
    UseCritic = TRUE
    TotalSteps = 5
    SaveFreq = 2
    MaxKeep = 2
    EpochLen = 3
    Epochs = 2
    Modes = {"auto"}
    MaxRuns = 3
INVARIANTS
    DoneMeansSaved
    TrackerIsComplete
    ResumeIsConsistent
    FailsOnlyOnTornTracker
    OvershootBounded
    RotationBound
PROPERTIES
    CommittedUntouched
    Finishes
