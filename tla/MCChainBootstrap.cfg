CONSTANTS
    MinLock = 1
    MaxTokens = 2
    MaxPolls = 2
    MaxRestarts = 2
SPECIFICATION Spec
INVARIANT TypeOK
PROPERTIES
    StakingRefined
    AttemptEnds
