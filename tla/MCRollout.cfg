SPECIFICATION FairSpec
CONSTANTS
    NumEnvs = 2
    GroupN = 2
    MaxSteps = 3
    Outcomes <- MCOutcomes
    Pending = Pending
INVARIANTS
    TypeOK
    ActivePrefix
    StoppedOnlyWhenOver
    SuccessOfLastTurn
    BatchIsTheEpisodes
PROPERTIES
    ImplementsEpisodes
    Terminates
