SPECIFICATION Spec
CONSTANTS
    BatchSize = 2
    GroupN = 2
    MaxTries = 3
    RewardValues = {0, 1}
    Tasks = {"pick", "heat"}
    EnvKwargs = {"present", "unused"}
INVARIANTS
    TargetIsMet
    SurplusIsBounded
    GroupsAreWhole
    FlatGroupsOnlyAtTheEnd
    SuccessMatchesTrajectories
