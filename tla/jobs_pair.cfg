CONSTANTS
    Jobs = {j1, j2}
    MaxTries = 1
    Slots = 1
    Env <- Refusals
SPECIFICATION FairSpec
CHECK_DEADLOCK FALSE
INVARIANT
    ArtifactsComplete
PROPERTIES
    EveryJobSettles
    OutcomeTold
